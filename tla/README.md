# ksight in TLA+

ksight is a collection of eBPF programs and their user-space halves that trace
and steer a Linux system: schedulers, rate limiters, socket accelerators and
tracers for processes, networks, file systems and inter-process communication.
This directory holds TLA+ modules of its parts, the TLC configurations that
check them, and proofs that TLAPS checks. Paths are relative to the root of the
repository, and line numbers refer to the files as they are beside it.

The most consequential part of ksight is `src/process/sched_ext_rms`, a rate
monotonic scheduler on the kernel's sched_ext interface: it decides which
thread runs, several of its handlers and timers run concurrently, and a mistake
stops a thread for ever or ends the scheduler. Its queue, its admission control and its
handlers are modelled in the greatest detail and proved about. Of wirefisher, the packet
rate limiter, the token buckets and the life of its filters are modelled; of the tracers,
the programs whose handlers share maps.

## Inventory

| Component | Modules | State | Operations | What is hard | What makes it correct |
|---|---|---|---|---|---|
| RMS ready queues (`scx_rms.bpf.c` 104-209) | `RmsQueue` | a ring of pids and two indices per CPU, a spin lock | push (period callback), pop (dispatch) | callbacks and dispatches of several CPUs interleave; wrap and full/empty | it is a bounded FIFO; every call returns |
| RMS admission (`librms.cpp`) | `RmsAdmission` | pinned maps `rms_entry_map`, `task_attr_hmap`; lock files in `/tmp` | `sched_rms`, `drain_rms_exit_queue` | read-modify-write over system calls, programs killed anywhere, retries | recorded load within the Liu-Layland bound; accounting exact; granted tasks schedulable |
| RMS scheduler (`scx_rms.bpf.c`) | `RmsScheduler` | two timers and four flags per task, a ready queue and a DSQ per CPU | select_cpu, enqueue, dispatch, running, stopping, yield, set_cpumask, disable, two callbacks | callbacks race handlers; timers outlive what they look up; the kernel calls the handlers in an order of its own | no task lost; released jobs dispatched; running tasks budgeted; no scheduler error; every ready task runs |
| RMS service (`ScxRmsBpf.cpp`, `scx_rms.cpp`) | `SchedulerService` | skeleton, link, pinned files | open, load, attach, pin, destroy | restart after a kill finds old pins; services overlap | what is pinned is what runs |
| wirefisher rate limits (`common.h`, `tc_*.bpf.h`) | `TokenBucket` | token buckets and flow statistics per key | check, refill, update | 32-bit product, rounding refill, unlocked updates | tokens within the bucket; accepted bytes within rate and burst; a drop only for excess |
| wirefisher modules (`*_module.cpp`, `main.cpp`) | `TcFilters` | per module flags of hooks and attachments | load, unload, print | errors half way; two processes on one interface | what was attached is detached |
| ipcwatcher uds (`uds.bpf.c`, `UdsBpf.cpp`) | `UdsTrace` | events keyed by sockets, ring buffer | send and receive probes, destroy | several threads fill and take one entry, field by field | what is reported goes forward, in order |
| ipcwatcher shm (`shm.bpf.c`, `ShmBpf.cpp`) | `ShmTrace` | mmap arguments keyed by thread | entry and exit of mmap, destroy | stale entries, use after delete | exit is joined with its own entry |
| netwatcher (`bpf/*.h`, `NetWatcherBpf.cpp`) | `NetConns`, `NetfilterTimes`, `PacketTimes`, `MapCounters` | connections, per-packet times | about forty probes | reused addresses, missed probes, clock readings stored late | times belong to one packet; records to one connection |
| tcpaccd (`tcpaccd.bpf.c`) | `SockMap` | sockhash of local connections | sockops, redirect | the two ends arrive in any order | data goes to the peer, once and in order |
| proc_image (`bpf/*_image.bpf.c`) | `ScheduleImage`, `SyscallImage` | start times and sums per thread | scheduler, syscall and lock probes | preemption and exit between probes, missed probes, full ring buffer | a delay is of one wait |
| cpu_watcher (`sar`, `cs_delay`, `sc_delay`) | `StartTimes` | counters, start times | scheduler and interrupt probes | keys shared by CPUs | a time is never too long |
| iotracing, uringtrace | `IoTracing`, `MapCounters` | counters per file or ring | block and io_uring probes | lookup, then insert or delete; full maps | no request is counted twice, or lost without an overlap |
| bpf_common_helper, component_helper | - | none, or a list | map dumps, symbol lookup, list operations | a map that changes under a dump | a dump holds each key once |
| ksightCli, agent | - | command data, a chat history | completion, tool calls | input and output only | - |

How they interact: `librms` and the scheduler share `task_attr_hmap` (a program
writes its attributes, the handlers read them, `exit_rms_task` deletes them);
`rms_entry_map` is shared by programs alone. The callbacks and the handlers of
the scheduler share the ready queues, the flags and the timers; the kernel calls
the handlers and runs the timers. The tracers are independent of one another:
each is a set of probes that share maps, and a process that reads a ring buffer.

`PROJECT.json` lists the components with their status, the hazards of the code
at their lines, and which definition stands for which lines.

## How the modules are organised

The modules were written in the order of what a mistake would cost:

1. The RMS scheduler: `RmsQueue` with `BoundedFifo`, the abstract queue it implements;
   `RmsAdmission` with `AdmissionControl`, the abstract admission it implements on the
   CPUs whose callers keep to its protocol; `RmsScheduler`, all handlers and callbacks,
   which uses a ready queue as the FIFO that `RmsQueue` implements; `SchedulerService`.
2. wirefisher: `TokenBucket` with `RateLimiter`, the abstract leaky bucket; `TcFilters`.
3. The tools that each are one BPF program and a reader: thirteen small modules, with
   `SchedulerService` and `TcFilters` among them, which `MCTools` puts into one run.

Each component of the first two groups but the last of each has an `MC` module, which
gives its constants values that a configuration cannot write. `BpfMaps` says what updating
and deleting do to a map of the kernel that is modelled as a function on its keys.

Theorems are in modules of their own. `RmsQueueProofs`, `RmsAdmissionProofs`,
`RmsSchedulerProofs` and `TokenBucketProofs` are about the module they are named after; the
tools are proved in four groups: `LoaderProofs` (`SchedulerService`, `TcFilters`),
`NetworkProofs` (`NetConns`, `SockMap`, `PacketTimes`, `NetfilterTimes`), `IpcProofs`
(`UdsTrace`, `ShmTrace`) and `TracerProofs` (`MapCounters`, `SyscallImage`, `ScheduleImage`,
`IoTracing`, `StartTimes`).

What is left, in order: the minimum and maximum delays of proc_image and its lock and key
time images; the rule matching and `update_flow_rate` of wirefisher; the drop and ICMP times
of netwatcher.

## RmsQueue: the ready queue of a CPU

Each context (a period callback or a dispatch) goes through `cpu_queue_push` or
`cpu_queue_pop`: call, take the lock, test, access the buffer, move the index and
unlock. `slots`, `head`, `tail`, `lock` are the fields of `struct task_queue`;
`pc`, `arg`, `result` are the context's position, its pid and what its call
returned. `BoundedFifo` is the abstract queue: atomic push and pop, a push fails
exactly when MAX_TASK_NR - 1 pids are queued, a pop exactly when none is. The
refinement mapping reads the sequence between `head` and `tail`.

Run `queue`: `TypeOK`; `ImplementsFifo`, the refinement; `CallsReturn`, that no
path keeps the lock. Bounds: three slots, two pids, two contexts. Three slots make
the indices wrap and the queue fill; a context repeats calls for ever. Fairness: a
context in its critical section runs on (BPF programs are not preempted inside a
spin lock), and one that spins gets the lock if it is free again and again, because
the kernel's queued spin lock is first come, first served.

## RmsAdmission: sched_rms and drain_rms_exit_queue

A thread calls `sched_rms` for a CPU: it opens the maps and the lock file, takes
`flock`, reads the entry of the CPU, checks the parameters, writes its attributes,
writes the entry, unlocks, pins itself and enters the SCHED_EXT class. Each system
call that reads or changes shared state is a step, and `Die` may come before any
of them: the kernel then drops the locks, and a thread in the class loses its
attributes. A call may fail where the code handles a failure. `drain_rms_exit_queue`
does the reverse under another lock file. `granted` is a history variable: the
threads entered into a CPU's entry and not taken out.

Abstractions: utilizations and bounds are natural numbers in a small unit (the
code uses doubles, so rounding is not modelled); counts are bounded by `MaxCount`;
updates of an array map below its size do not fail.

`SerialCPUs` are the CPUs whose programs name their CPU, admit each thread once and
never let an admission overlap a drain. `librms` does not enforce that, so the other
CPUs of every run are not serialized: there threads retry, pass cpu = -1 and overlap.

Run `admission`: four threads on three CPUs, c24 being above `librms`'s own limit;
c0 is serialized, and t1 and t2 do not fit on it together.
* `RecordedWithinBound` on every CPU: whatever is lost between overlapping calls,
  the recorded load is within the bound of the recorded count.
* `AccountingExact` on serialized CPUs: the entry is the load and the number of the
  granted threads, so the first lock suffices among admissions and the second among
  drains, wherever a program is killed.
* `ImplementsAdmissionControl` on serialized CPUs: a thread is entered only if the
  granted ones and it pass the test together (`AdmissionControl`).

Run `admission_two_locks`: all threads on one CPU that is not serialized.
`RunningWithinBound` - the threads that run in the class pass the test - is violated
by a drain that overlaps an admission (finding).

The step that gives `sched_rms` an error after the entry was written leaves the
share recorded; the properties hold with it, as the share stays in `granted`.

## RmsScheduler: scx_rms.bpf.c

One action for each handler of `rms_ops` and each timer callback. State of the
kernel: where a task is (`loc`), its CPU and mask, the local DSQ and the current
task of each CPU, whether a CPU is to reschedule, and how far it is in `__schedule`.
State of the BPF maps: ready queues, keys of the hash maps, flags, and the two timers
of each task with the time that is `left`, so that no absolute clock is needed.

How the kernel calls the handlers (external, marked so in the map), as sched_ext
does it: `ops.dispatch` runs in `balance`, before the previous task is put; a task
whose slice is 0 is put back through `ops.enqueue`, and so is the last runnable one
because of SCX_OPS_ENQ_LAST; a kick with SCX_KICK_PREEMPT sets the slice to 0 and
reschedules; when something was inserted and nothing came out, dispatch is called
again; entering the class calls `set_cpumask` with the policy already set, leaving it
calls `disable` with the policy already changed; `bpf_timer_cancel` on the timer whose
callback runs fails. A task that `rms_enqueue` refuses is in "limbo": runnable, and
known only to the BPF program. Timers fire before the next instruction of their
CPU, handlers and rescheduling take no time, and `Tick` advances all timers when
nothing is due.

Left out: the branch for the service's own thread, `rms_init`, `rms_dequeue` (it only
logs), a `set_cpumask` that keeps the task's CPU (no effect) or concerns a task in a
local DSQ, and what happens after `scx_bpf_error` (the kernel ejects the scheduler;
the model goes on, so no property but `NoScxError` says anything then).

Run `rms_one_cpu`: three tasks on one CPU, with budgets 1, 1 and 3 and periods 3, 5 and
13. The last one's budget is the first one's period, so a pid may be released and queued
again while it runs, and tasks that enter the class displace others into the local DSQ,
with which the CPU answers a kick without calling `rms_dispatch` (`SkipDispatch`).
Run `rms_two_cpus`: two tasks admitted to one of two CPUs, budgets 1, periods 3 and 4; one
may use both CPUs and sleeps, the other is moved, exits or leaves.
* `NoLostTask`: a refused task has an armed period timer;
* `ReleasedWillBeDispatched`: once released it is in the ready queue of its CPU, also when
  `dispatch_loop` has stopped at the pid of a task that exited; and that CPU is going to
  reschedule, unless one of its tasks has exited or is exiting (`Steady`);
* `QueueStaysShort`: while no task of a CPU has exited, a pid is in its queue at most as often
  as there are tasks: n tasks queue n * n pids at most, so that with up to 45 the queue of 2047
  pids does not fill, and the ignored result of `cpu_queue_push` does no harm. Every task of
  the CPU that exits (`Gone`) doubles the bound, because the pids it has left in the queue stop
  `dispatch_loop` one by one while the others are released again. The smaller bound does not
  hold then: with three tasks on one CPU, all of budget and period 2, two of which may exit,
  TLC finds a pid queued four times;
* `RunningIsBudgeted`: a running task has an armed budget timer or is being stopped;
* `NoScxError` (two CPUs): no handler ends the scheduler, unless a task goes back to a
  fair policy;
* `EveryReadyTaskRuns` (one CPU): every runnable task runs at some time.

Where these are restricted - `NoLostTask` not for moved tasks, rescheduling not for CPUs of
exiting tasks, budgets not for tasks on a CPU they were not admitted to, errors not for tasks
that leave - the code does otherwise:
`PROJECT.json` has the hazards with their lines, and runs the findings.

Bounds: with two tasks one can preempt, displace, block or outlast the other, which is
what the runs with two tasks are about; three let a pid pile up, and a task wait behind two
others. All timers are relative and bounded by the periods, so the state space is finite
without a bound on time. The periods of a run are coprime, so every phase occurs. Tasks
block only in `rms_two_cpus`, which checks safety alone: with sleeping tasks the liveness
check of three tasks takes too long. `TypeOK` and `NoScxError` are checked there too, and
proved for every instance.

Fairness of `rms_one_cpu`: a CPU that is to reschedule does (weak, each CPU), a timer
that is due fires (weak, each task), and time passes (strong on `Tick`: programs may
take zero-time steps, such as yielding, but not infinitely many in finite time).
Nothing is assumed of the tasks' own calls.

Violation runs: `rms_priority` (`StrictPriority`), `rms_idle` (`WorkConserving`) and
`rms_migration` (`MovedTaskComesBack`, with FEATURE_MIGRATION) show where the header
comment of the file promises more than the code does.

## TokenBucket: rate_limit_check of wirefisher

The handlers of cgroups, interfaces, processes and flows (`tc_*.bpf.h`,
`wirefisher.bpf.c`) each end in `rate_limit_check` (`common.h` 50-86) for a key and a
length; `Packet` is that call, for any CPU, key and length. The function runs on
several CPUs at once and locks nothing, so each access to shared memory is a step:
reading the clock, looking up the bucket, inserting it, looking it up again, loading
`ts_ns`, loading `tokens`, storing the clamped `tokens`, storing `ts_ns`, taking the
bytes. `tokens` is no volatile: a compiler loads it once (line 72), merges the stores of
lines 72 and 74 and keeps the value for lines 79 and 83, so what another CPU stores in
between is overwritten. Products and sums keep their widths (`U32`, `U64`), and the
quotient rounds down.

The map is the kernel's (external): `entry` names the element a key has, and elements
are preallocated, so that `Replace` - an update with flag 0 for a key another CPU has just
inserted - puts the key on the CPU's spare element, while a CPU may still hold the old
one, and a later insertion elsewhere may reuse it. Entries are never deleted; when the
map is full a new key's packets are accepted without a limit (`AcceptUnlimited`).

`SerialKeys` are flows whose packets one CPU handles at a time, as receive steering or a
single sending thread makes it; the code does not enforce it, so the run has a key of
either kind, and both use the same map.

`RateLimiter` is the promise: a leaky bucket per flow that drains at the rate and takes
a packet only if it fits. `offered`, `level` and `refills` are history variables.

Run `token_bucket`:
* `TokensWithinBucket`: no bucket holds more than `max_bucket`, for any key, including
  when `now - ts_ns` wraps because another CPU has stored a later time;
* `ImplementsRateLimiter`: a serial flow gets no more through than the leaky bucket lets
  through; packets accepted because the map is full are not counted;
* `DropsOnlyExcess`: a packet of a serial flow is dropped only when the leaky bucket had
  no room for it either, but for one byte per refill that rounding may have taken.

Bounds: two CPUs, one key of each kind, packets of one or two bytes, a bucket of three,
a second of two time units and a rate of three bytes per second, so that refills are
rounded; a rule's rate of 67 and widths of 6 and 10 bits, so that the conversion to 32
bits, the product with `time_scale` and the wrapped difference all occur; a map of one
entry, so that it is full for either key; times up to 3 (`MaxTime`), a second and a half.
The two CPUs are interchangeable (symmetry). `U64` is large enough that a pause never
wraps `delta_ns * rate_bps`: `DropsOnlyExcess` assumes pauses shorter than that.

## MCTools: one run for thirteen tools

The tools of the next sections do not interact: each has maps of its own. `MCTools`
extends their modules, `tool` says which of them a behaviour is of, and the variables of
the others rest. The run `tools` thus checks the disjoint union of thirteen state graphs,
about 3.1 million states. Each module has a two-letter prefix of its own for its variables.

There is no fairness in these modules: a probe that does not run is a behaviour of the
code, and what the tools promise is safety. The kernel runs no kprobe that interrupts
another on its CPU, and the programs are attached one after the other; wherever that is
more than a message less, the modules let any probe be missed. `CHECK_DEADLOCK FALSE`: every module bounds what happens in a
behaviour (packets, calls, clock readings, lives of a socket), and processes end, so a
behaviour may stop.

`PROJECT.json` maps each definition to the handlers. What each module takes from the
kernel is its "environment", named in its first comment and marked external in the map.

### NetfilterTimes (netwatcher, `netfilter.bpf.h`)

Seven kprobes stamp the sk_buff they are given: `store_nf_time` writes the time of a hook
into the LRU map `netfilter_time` under the sk_buff's ADDRESS, and `submit_nf_time` sends the
differences. A packet is received, sent or forwarded; one that its driver delivers in a list
enters through `ip_list_rcv`, which has no probe. Any probe may be missed (`NfUnseen`), a
packet may be dropped anywhere, its sk_buff is then used again, and entries may be evicted.
`NfReportOfOnePacket`: a time of another packet is used only for a hook whose probe did not
run on the packet reported, and a delivered or sent packet that met every probe of its route
has all its own times. The first part is as much as the code gives: after a missed `ip_rcv`
the stamp of an earlier packet in the same sk_buff is still there, and is used.
Bounds: one address (the case that matters is reuse), three packets, so that a packet
inherits what an earlier one had inherited. Violation run `netfilter_forward`:
`NfForwardReported`, that a forwarded packet is reported with its time in FORWARD.

### PacketTimes (netwatcher, `packet.bpf.h`, `udp.bpf.h`)

Each probe on a packet's way finds the entry of the packet's addresses, ports and sequence
numbers in the LRU map `timestamps` (`PtFind`), reads the clock (`PtClock`) and writes its
layer's time into the element it was given (`PtStore`); the last one then computes the
differences, for as long as it is "sending". Entries are not deleted, so packets with one key -
datagrams of a flow, a retransmission - write into one element, in any interleaving, and the
map may take an element away from a probe that holds it. `PtTimesNeverOlder`: no time used
is older than the packet's own, at any moment at which it could be read, and a packet
that shared its key with none is reported exactly. Two cases are excepted, because the code
is wrong there: a layer where another packet had read the clock before and stored after
(`raced`), and elements written by a probe they were taken from. Bounds: two packets
with one key, two elements, four readings of the clock, so that a packet's time is replaced
by the other's before and after; with five readings (2.7 million states of this module
alone) it holds as well.

### NetConns (netwatcher, `tcp.bpf.h`)

`sock_stores` carries a socket from the entry of `tcp_v4_connect` to its return under the
thread's id; `conns_info` has a record per socket, made at the return of connect or accept
and deleted by the probe on `tcp_set_state`; `tcp_state` has the time of the last change of
state. A freed socket is used for another connection (`life` numbers them); a connection may
be closed by the peer at any time its socket is not locked, also in the accept queue. Every
probe may not run, so the order in which they are attached - those that make records before
the one that deletes them - is one case of many.
* `NcRecordsAreCurrent`: a record describes the connection its socket has now, unless
  the probe that would have deleted it did not run at the close, or ran before the
  record was made, for a connection closed in the accept queue (`missed`);
* `NcStoreOfConnecting`: the return of connect finds its own socket or, when a close under
  the same thread id deleted it, none;
* `NcStateTimesOneLife`: the time in a state is measured within one connection, unless
  its close was missed.

Bounds: two sockets, one thread (entries of `sock_stores` are per thread, and a record
touches that of its own), two lives, without option -a.

### SockMap (tcpaccd)

`bpf_sockmap` puts each established socket into the SOCKHASH, `bpf_redir` moves what it
sends into the queue of the socket found under the swapped addresses and ports. The programs
are attached one after the other, the two ends are established in either order, close in
either order, and connections in different network namespaces may have the same key. The kernel's
part: a socket's psock keeps the program it was given, and a receiver reads redirected
messages before those that came through TCP.
* `SmTransparent`: a socket reads what its peer sent, once and in order, unless another
  connection has the same key or the peer sent before this socket was in the map;
* `SmRedirectsAcross`: a message is redirected to an open socket on the other side of a
  connection with these addresses and ports, never back.

Bounds: two connections on two keys, so that they collide or do not; two messages.

### MapCounters (netwatcher, uringtrace)

The four ways in which the programs increment a counter in a map: in place, copied and
stored, inserted as 0 and added to atomically, in place and stored over itself. `gen` numbers
the elements that an update has put in place, and a program may hold an old one.
A full map refuses a new key, which nobody looks at (`McInsertFails`; the histogram then
finds nothing at its second lookup and returns), and a program for another key may write
into an element that has become this one's (`McForeignWrite`).
`McCountBounds`, while no program held an element that was replaced: never more than the
increments made less those the full map lost, not all of the others lost, and exact as long
as none overlapped. Bounds: three CPUs and three increments, so that two increments overlap
with a third.

### TcFilters (wirefisher, `eth_module.cpp`, `main.cpp`)

`load_eth_module` creates and attaches an egress and an ingress filter, opens the ring buffer
and on any failure jumps to one clean-up; `unload_eth_module` cleans up at the end of the process.
Several processes, each of which may fail anywhere or be killed, share one interface:
`bpf_tc_hook_destroy` of one direction removes the filters of all. `TcFiltersOwned`: a
running process has both filters unless another has cleaned up since it started, and a filter
outlives only a process that was killed. Bounds: three processes.

### UdsTrace (ipcwatcher, `uds.bpf.c`)

The probe on sendmsg fills the entry of the sending socket (`send_sk`, the only part of the key
that the map compares), another one adds the payload, the probe on recvmsg reports and
deletes it. All three write or copy field by field, each step a separate action: of the fields
that sendmsg writes there is one for the first and one for the last, then the payload. Threads
share sockets, datagram sockets are connected on one side only, any probe may be missed, the
LRU map takes elements away from programs that hold them. `udLast` keeps the latest message of
which a part was copied, per sender. `UdReportsAdvance`: no part of a report is of a message
reported before, and no later field is of a later message unless the entry was
written while the receiver had it (`udMoved`) - then the payload may be of the next
message, and is. It is said of senders whose sends do not overlap and all fill the entry
(`udUneven` are the others), and of receivers that have the entry for themselves
(`udSpoilt` are the others). Bounds: two sockets, two threads, one element, two sends; with
three sends (3.7 million states of this module alone) or two elements it holds as well.
Violation run `uds_receiver` (three sockets, so that a sender has a second receiver, and three
sends): `UdReportToReceiver`, that a report pairs the sender with whom it sent to.

### ShmTrace (ipcwatcher, `shm.bpf.c`)

The entry of mmap stores its arguments under the thread, the return deletes the element and
then reads it; elements of the map are modelled, because another thread may take a deleted
one. `ShReportsOwnCall`: a call is reported with its own arguments and once, but for a
call recorded before the return probe was attached, and for an element taken in between.
Bounds: two threads, two elements, four calls.

### IoTracing (iotracing, `iotracing.bpf.c`)

`bpf_rq_qos_issue` records the owner of a request under its sector, `bpf_rq_qos_done` finds
the record, reads the owner, adds the request to the owner's entry by a load and a store, or
inserts one, and deletes the record. `bpf_file_read_write` inserts an entry of the
owner, too, when it found none. The block layer may issue a sector again before its
completion has reached the probe, put a request back, or complete one that was never recorded.
* `IoChargedOnce`: no owner is charged for more than was recorded for it, whatever
  completions of different sectors overlap, unless two of one sector do or a record
  or element was replaced in a program's hands;
* `IoChargesKept`: unless two programs were at work for one owner at a time (`ioShared`), no
  charge is lost - that is where the code loses them - and none is ever made twice.

Bounds: two sectors and two CPUs, so that completions of different requests of one owner
overlap, two owners, two issues; with three issues (9.1 million states of this module alone)
both hold as well.

### StartTimes (cpu_watcher: `sar`, `cs_delay`, `sc_delay`)

Four tools keep ONE start time for what several CPUs do at once, and sum up differences in a
hash or an array, or report each. Each handler reads the clock first, then touches the map.
`stSpent` is the time really spent, `stSummed` what was really spent in the measurements that
got into the sum. `StNeverTooLong`: sharing only shortens or loses a time - a reported time is
at most the real one, the sum at most `stSummed` - unless a start is stored between another
CPU's reading and its use; without overlap all times are exact. Bounds: two CPUs,
six readings (three measurements).

### SyscallImage and ScheduleImage (proc_image)

`SyscallImage`: an entry per thread collects the calls it entered and the time they took; the
return of the `syscalls`-th one sends and deletes it. Any probe may be missed, the ring buffer
and the map may be full, threads die in a call, and a new thread begins inside the clone that
made it, under an id whose entry may be left. `SySequencesExact`: a sequence has the
length asked for and exact time, and more time only if the entry did not take the
beginning of a call. `proc_image.c` (186) rejects no value of the option: less than one
gives sequences of one call, more than `MAX_SYSCALL_COUNT` none at all, which the property
says, too. Bounds: one thread (entries are per thread), room for two calls, lengths 0, 2 and 3,
nine entries and returns.

`ScheduleImage`: the entry of a task has the time it became runnable, the sum and the number of
its delays; the number starts at 1 and `enable_add` skips the first increment. Tasks fork,
wake, yield, are preempted at any point, also between setting their state and `schedule`, and
run on after `sched_process_exit`, when they may sleep and be woken until they are dead. Any
probe may be missed, and `enable_add` may be full. `SiDelaysExact`: sum and number are exact,
however a task came to wait, and a task that is gone has no entry; but for those preemptions,
missed probes, and tasks that become runnable after `sched_process_exit`, whose entry is made
again. Bounds: two tasks on one CPU, so that one waits for the other; five units of time.

### SchedulerService (`ScxRmsBpf.cpp`, `scx_rms.cpp`)

An instance loads and attaches the scheduler, pins two maps where `librms` opens them, waits
for its end or an ejection, then unpins and detaches; a failure runs the same `destroy()`.
Instances overlap, are killed or ejected.
* `SvReachable`: while nothing fails, is killed or ejected, the instance whose scheduler runs
  has both of its maps pinned;
* `SvNoMapLeft`: a pinned map belongs to an instance that has still to unpin it, or that was
  killed.

Bounds: three instances, so that one fails while a second runs and a third waits.

## What is proved

For every value of the constants, checked by TLAPS. The bounds on what happens in a behaviour
(packets, calls, clock readings, lives) are constants of which a proof assumes only that they
are natural numbers, so a theorem holds for behaviours of every length.

* `RmsQueueProofs`: `TypeCorrect`, `LockExcludes` and `QueueImplementsFifo`
  (`Spec => ImplementsFifo`). The refinement needs the inductive invariant `IInv`:
  types, `Exclusion` (the lock is held by exactly the context in its critical section)
  and `Progress` (what that context has found or done is still so: the queue is not full
  and the slot at `tail` holds its pid, or not empty and it has read the slot at `head`).
  Without them another context could change the queue between test and use. Lemmas say
  what moving an index does to the sequence of contents. Assumptions: at least two slots.
* `RmsAdmissionProofs`: `TypeCorrect`; `RecordedLoadWithinBound`, by an invariant that
  also bounds each thread's copy, and from the bound falling with the count;
  `AccountingIsExact` and `AdmissionImplementsControl`, by `SerialInv`: lock holders,
  threads that keep to their CPU, phases that do not overlap, where a share is recorded,
  and copies that are still one task away from their entry; `GrantedIsSchedulable`
  follows from the exact entry being within its bound. Assumptions: finitely many
  threads, loads that add up, a bound that falls with the number of tasks.

* `TokenBucketProofs`: `TypeCorrect` and `BucketsAreBounded` hold with all races, from
  an invariant that also bounds what each CPU has loaded and compared. `LimitsTheRate`
  (`Spec => ImplementsRateLimiter`) relates a serial flow's bucket to its level: `Own`
  and `Alone` say that no other CPU or key uses the flow's element, `Settled` that
  between calls tokens and level fit the bucket together, and `InCall` that they do so
  at each point of a call, once the time since the last refill is credited. Without `Own`, a spare
  element given back by another key could carry its tokens over. Assumptions: the names
  are distinct, the numbers natural, widths and the second positive; nothing about the
  sizes of rates, packets, pauses or the map.

* `RmsSchedulerProofs`: `TypeCorrect`, by types of four groups of variables;
  `RefusedTaskIsNotLost` (`NoLostTask`), from `Structure` - what a task's place says agrees
  with the current tasks and local DSQs of the CPUs and with the maps - and `PeriodArmed`, that
  the period timer of a task in the class recurs; `SchedulerIsNotEjected` (`NoScxError`), as
  only an admitted task has a budget timer (`BudgetOwned`); `RunningTaskIsBudgeted`
  (`RunningIsBudgeted`), from `Bounded`, no budget timer has more left than its budget, and
  `AllTimed`, which adds to the property what is true between `rms_dispatch` and
  `rms_running`; `ReleaseIsNotLost` (`ReleasedWillBeDispatched`), from `OwnPids`, a queue
  holds pids of its own CPU, and `AllReleased`, which follows a pid from the push to the end of
  `dispatch_loop`, where it was inserted or is behind the pid at which the loop stopped;
  `ReadyQueuesStayShort` (`QueueStaysShort`), from `AllShort`, which bounds more than the copies
  of a pid: together with them (`Backlog`) the pids of exited tasks in its queue, the tasks in
  the local DSQ, for each of which the CPU reschedules once without `rms_dispatch`, and the
  tasks that may still enter the class and displace one more into it. A due timer needs room for
  one pid (`Short`), and time passes only when every CPU has rescheduled, and so has made room or
  has nothing left to do. That the task of a due timer is not itself one that may enter is
  `Apart`. Assumptions: finitely many tasks, the names are distinct, budgets and periods
  positive, the flags Booleans. `SchedulerIsNotEjected` needs FEATURE_BUDGET_OVERRUN off and
  `RunningTaskIsBudgeted` both flags off, as the build has them.
* `LoaderProofs`. `RunningIsReachable` and `NothingStaysPinned`, for any number of instances,
  by `ServiceInv`: types, who may have pinned a path, kills are known, one scheduler is
  attached, and its pins are there at each point of its start. `FiltersAreOwned`, for any
  number of processes, by `TcInv`: the flags say what a process has still to undo.
* `NetworkProofs`, for any number of sockets, threads, packets, connections and messages.
  * `ConnsTypeCorrect`, `RecordsStayCurrent`, `StoresNameTheSocket` and `StatesAreOfOneLife`,
    by `ConnsInv`: a thread in connect has its socket alone (`Connects`), and a socket in use is
    held (`Held`).
  * `AccelerationIsTransparent` and `RedirectionGoesAcross`, by `SmInv`: the map holds open
    sockets under their own keys (`SmMapRight`); what has come to a socket, by either way, is
    from its peer (`SmFromPeer`); what was read and what waits are together, in this order, all
    that the peer sent, if none of it came through TCP (`SmInOrder`). The last two need that
    no other connection has the same key, for which `DistinctKeys` gives the reason.
  * `TimesNeverOlder`, by `PtInv`: a probe holds the element of its key unless that was taken
    away (`PtPacketOK`), and a key has one element (`PtOneEntry`); in the
    fields a packet has written, and that are not raced, the element has no stamp older than the
    packet's own, and no probe that holds it has read an earlier time that it still has to store
    (`PtOrder`); a packet alone with its key finds exactly its own (`PtAlone`). The element may
    still hold stamps of earlier packets; the lemma `FieldsPassed` says that after the last
    probe every reported field has been passed. Assumption: "none"
    is neither a key nor an element.
  * `NetfilterReportsOnePacket`, by `NfInv`: at the hooks whose probe has run on the packet of an
    sk_buff, the entry holds its own stamps or none (`NfPassedStamps`), although those of an
    earlier packet may stand at the others; the last hook of a route deletes (`NfLastUnset`).
    The lemma `RouteHooks` says what the five routes have in common.
* `IpcProofs`, for any number of threads, sockets, elements and calls.
  * `SocketReportsAdvance`, by `UdInv`. A sender that is not uneven has one thread in a send
    (`UdOneSender`), and no entry's field is of a later message than the one written before it,
    but for what that thread has yet to write (`UdProgress`). The parts of an entry are in order, and later than what was copied, until a
    receiver begins to copy them (`UdEntryOK`, `UdUntouched`); what a receiver has copied is
    later than what was copied before it came and, if nobody wrote meanwhile, is what still
    stands there (`UdReaderOK`). Assumption: the
    peer of an unconnected socket is not a socket.
  * `MappingsReportOwnCall`, by `ShInv`: no two threads hold one element of the map, or the
    arguments of one call (`ShHoldApart`), from the entry of mmap until the return has read the
    element; an element that was deleted and taken by another thread is held by that one.
* `TracerProofs`, for any number of CPUs, tasks, threads, requests and readings.
  * `CountersAreBounded`, by `McInv`: while no element was replaced in a program's hands,
    what is in the map or in hand was counted, or will be by the step that stores it, less what a
    full map took away (`McCounted`); a counter does not go back to zero (`AboveZero`,
    `HistAdds`); and while none overlapped, one program runs, and the map is exact at each of its
    steps (`Exact`).
  * `SequencesAreExact`, by `SyscallInv`: the entry of a thread has the time and start of what
    the thread did, or, once it did not take a beginning, a longer sum and an earlier start
    (`SyEntryOf`). Assumption: an entry has room for a call.
  * `DelaysAreExact`, by `ScheduleInv`: `SiEntryOf` relates the count that starts at 1 and the flag
    `enable_add` to the number of waits; to that of its wait the start in the entry of a task
    that waits, and an entry that a task has after its exit to `siLate`; `SiPlace` says that a
    task that waits with its state set was preempted, and is one of the missed.
  * `RequestsChargedOnce` and `ChargesKept`, by `IoInv`: of the sectors for which an owner may
    still be charged there are, with what was charged, no more than were recorded
    (`IoBalance`), as long as each completion has its sector to itself (`IoApart`); and what a
    program has loaded for an owner is the count in the map, and that is exact, as long as
    no other is at work for the owner (`IoCounts`). The sectors are counted, with facts on
    finite sets; there may be infinitely many, of which finitely many are recorded at a time.
  * `TimesNeverTooLong`, by `StInv`: without a race the start in the map is not older than what
    any CPU is in nor younger than the end it has read, and what is on its way to the sum is
    not longer than it took (`StFair`); without overlap one CPU at most is at it, and what it
    has in hand is what the sum misses (`StExact`). The sum is bounded by `stSummed`, which is
    never more than all the time spent: what several CPUs have in hand at a time is then bounded
    for each of them alone, whichever of them stores last.

Only model-checked: `CallsReturn` and `EveryReadyTaskRuns`, because liveness under fairness is
out of the prover's reach, which ENABLED is too; and `DropsOnlyExcess`, which fails for pauses
that overflow 64 bits.
Whatever a theorem assumes of a function defined by recursion over data is stated as an
assumption on it (the sum of loads in `RmsAdmission`), because induction over data cannot be
proved.

## Not modelled

* `src/vmlinux`: types of the kernel, generated. They are nearly all of the repository's
  lines of C, and contain no code.
* wirefisher: `update_flow_rate`, which only reports; the matching of rules and keys, pure
  functions of a packet; the cgroup, process, flow and port modules, which load like `tc_eth` with
  one hook or none; the parser of rules, Kafka and printing.
* ipcwatcher: paths and names in events, the loaders (one sequence without a second actor), the
  empty probe on `ksys_mmap_pgoff`, `ShmUtils`, which parses `/proc`.
* netwatcher: the copies of a socket's statistics into its record, drop reasons, ICMP, MySQL,
  Redis and stack probes, and the printing half.
* proc_image: minimum and maximum delays and the copies of an entry for a target, a thread group
  and the system; the resource, lock and key time images; printing.
* cpu_watcher: the other counters of `sar` and the histograms of its user half.
* iotracing: the bytes, and of the file system and page cache half all but the entry it makes. uringtrace: its events, passed on unchanged.
* bpf_common_helper (`dump_hash` walks a map that changes under it; what it then returns is
  promised nowhere), component_helper (tables of names, pure functions), ksightCli and the agent
  (sequential input and output).

## Running

    tlc -workers 2 -config MCRmsQueue.cfg MCRmsQueue
    tlc -workers 2 -config MCTools.cfg MCTools
    tlapm RmsQueueProofs.tla
    tlapm NetworkProofs.tla

`PROJECT.json` names each run's module and configuration, and for each property a
mutant: a changed definition, kept beside the one it changes, with which TLC finds the
property violated.
