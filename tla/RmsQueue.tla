------------------------------ MODULE RmsQueue ------------------------------
(***************************************************************************)
(* The per-CPU ready queue of scx_rms.bpf.c: struct task_queue with        *)
(* cpu_queue_push and cpu_queue_pop.  Period callbacks push from the CPUs  *)
(* their timers are pinned to while a dispatch pops, so several contexts   *)
(* contend for the bpf_spin_lock; every access to the buffer and to its    *)
(* two indices is a step of its own here.                                  *)
(***************************************************************************)
EXTENDS Integers, Sequences

CONSTANTS
  Contexts,     \* timer callbacks and dispatches that use this queue
  Pids,         \* pids of RMS tasks
  MAX_TASK_NR,  \* slots in the buffer (2048 in the code)
  NoContext,    \* the lock is free
  NoPid         \* the content of a slot that was never written (0)

ASSUME SlotsAssumption == MAX_TASK_NR \in Nat \ {0, 1}
ASSUME NoContextAssumption == NoContext \notin Contexts
ASSUME NoPidAssumption == NoPid \notin Pids

VARIABLES
  slots,    \* task_queue.pid
  head,     \* task_queue.head: the oldest pid
  tail,     \* task_queue.tail: the slot the next push writes
  lock,     \* task_queue.lock: the holder, or NoContext
  pc,       \* where each context is
  arg,      \* the pid a context pushes
  result    \* what each context's last call returned

vars == <<slots, head, tail, lock, pc, arg, result>>

Indices == 0 .. MAX_TASK_NR - 1

(* The pids between head and tail, wrapping at the end of the buffer.      *)
Length == IF head <= tail THEN tail - head ELSE tail + MAX_TASK_NR - head

Slot(i) == IF head + i - 1 < MAX_TASK_NR
           THEN head + i - 1 ELSE head + i - 1 - MAX_TASK_NR

Contents == [i \in 1 .. Length |-> slots[Slot(i)]]

Fifo == INSTANCE BoundedFifo WITH Capacity <- MAX_TASK_NR - 1, fifo <- Contents

----------------------------------------------------------------------------

Init ==
  /\ slots = [i \in Indices |-> NoPid]
  /\ head = 0
  /\ tail = 0
  /\ lock = NoContext
  /\ pc = [c \in Contexts |-> "idle"]
  /\ arg = [c \in Contexts |-> NoPid]
  /\ result = [c \in Contexts |-> Fifo!NoResult]

empty_queue == head = tail

(* Mutant: the last slot is compared with a head that never wraps.         *)
full_without_wrap == tail + 1 = head

full_queue == (tail + 1) % MAX_TASK_NR = head

Goto(c, from, to) ==
  /\ pc[c] = from
  /\ pc' = [pc EXCEPT ![c] = to]

Acquire(c) ==
  /\ lock = NoContext
  /\ lock' = c

Release == lock' = NoContext

Return(c, res) == result' = [result EXCEPT ![c] = res]

(* The period callback of pid calls cpu_queue_push.                        *)
CallPush(c, pid) ==
  /\ Goto(c, "idle", "push_spin")
  /\ arg' = [arg EXCEPT ![c] = pid]
  /\ Return(c, Fifo!NoResult)
  /\ UNCHANGED <<slots, head, tail, lock>>

PushLock(c) ==
  /\ Goto(c, "push_spin", "push_locked")
  /\ Acquire(c)
  /\ UNCHANGED <<slots, head, tail, arg, result>>

(* Mutant: the early return of a full queue keeps the spin lock.           *)
PushFullKeepsLock(c) ==
  /\ Goto(c, "push_locked", "idle")
  /\ full_queue \/ tail >= MAX_TASK_NR
  /\ Return(c, Fifo!Pushed(FALSE))
  /\ UNCHANGED <<slots, head, tail, lock, arg>>

PushFull(c) ==
  /\ Goto(c, "push_locked", "idle")
  /\ full_queue \/ tail >= MAX_TASK_NR
  /\ Release
  /\ Return(c, Fifo!Pushed(FALSE))
  /\ UNCHANGED <<slots, head, tail, arg>>

PushWrite(c) ==
  /\ Goto(c, "push_locked", "push_written")
  /\ ~(full_queue \/ tail >= MAX_TASK_NR)
  /\ slots' = [slots EXCEPT ![tail] = arg[c]]
  /\ UNCHANGED <<head, tail, lock, arg, result>>

PushAdvance(c) ==
  /\ Goto(c, "push_written", "idle")
  /\ tail' = (tail + 1) % MAX_TASK_NR
  /\ Release
  /\ Return(c, Fifo!Pushed(TRUE))
  /\ UNCHANGED <<slots, head, arg>>

(* dispatch_loop calls cpu_queue_pop.                                      *)
CallPop(c) ==
  /\ Goto(c, "idle", "pop_spin")
  /\ Return(c, Fifo!NoResult)
  /\ UNCHANGED <<slots, head, tail, lock, arg>>

PopLock(c) ==
  /\ Goto(c, "pop_spin", "pop_locked")
  /\ Acquire(c)
  /\ UNCHANGED <<slots, head, tail, arg, result>>

PopEmpty(c) ==
  /\ Goto(c, "pop_locked", "idle")
  /\ empty_queue \/ head >= MAX_TASK_NR
  /\ Release
  /\ Return(c, Fifo!PopFailed)
  /\ UNCHANGED <<slots, head, tail, arg>>

(* Mutant: head advances without wrapping at the end of the buffer.        *)
PopAdvanceWithoutWrap(c) ==
  /\ Goto(c, "pop_read", "idle")
  /\ head' = head + 1
  /\ Release
  /\ Return(c, Fifo!Popped(arg[c]))
  /\ UNCHANGED <<slots, tail, arg>>

(* *pid = queue->pid[queue->head]: the pid is read before head moves on.   *)
PopRead(c) ==
  /\ Goto(c, "pop_locked", "pop_read")
  /\ ~(empty_queue \/ head >= MAX_TASK_NR)
  /\ arg' = [arg EXCEPT ![c] = slots[head]]
  /\ UNCHANGED <<slots, head, tail, lock, result>>

PopAdvance(c) ==
  /\ Goto(c, "pop_read", "idle")
  /\ head' = (head + 1) % MAX_TASK_NR
  /\ Release
  /\ Return(c, Fifo!Popped(arg[c]))
  /\ UNCHANGED <<slots, tail, arg>>

Finish(c) ==
  PushFull(c) \/ PushWrite(c) \/ PushAdvance(c)
    \/ PopEmpty(c) \/ PopRead(c) \/ PopAdvance(c)

Next == \E c \in Contexts :
  \/ \E pid \in Pids : CallPush(c, pid)
  \/ CallPop(c)
  \/ PushLock(c)
  \/ PopLock(c)
  \/ Finish(c)

Spec == Init /\ [][Next]_vars

(* A context that holds the lock runs on; the kernel's queued spin lock is *)
(* fair, so a context that spins is not overtaken for ever.                *)
Fairness == \A c \in Contexts :
  WF_vars(Finish(c)) /\ SF_vars(PushLock(c) \/ PopLock(c))

FairSpec == Spec /\ Fairness

----------------------------------------------------------------------------

States == {"idle", "push_spin", "push_locked", "push_written",
           "pop_spin", "pop_locked", "pop_read"}

Results == {Fifo!NoResult, Fifo!PopFailed, Fifo!Pushed(TRUE), Fifo!Pushed(FALSE)}
             \cup {Fifo!Popped(pid) : pid \in Pids \cup {NoPid}}

TypeOK ==
  /\ slots \in [Indices -> Pids \cup {NoPid}]
  /\ head \in Indices
  /\ tail \in Indices
  /\ lock \in Contexts \cup {NoContext}
  /\ pc \in [Contexts -> States]
  /\ arg \in [Contexts -> Pids \cup {NoPid}]
  /\ result \in [Contexts -> Results]

(* The circular buffer, whose accesses interleave, behaves as the bounded  *)
(* FIFO whose calls are atomic: no pid is lost, duplicated or reordered, a *)
(* push fails only when MAX_TASK_NR - 1 pids are queued and a pop only     *)
(* when none is (cpu_queue_push and cpu_queue_pop).                        *)
ImplementsFifo == Fifo!FifoSpec

(* Every call of push or pop returns: no path out of the critical section  *)
(* forgets bpf_spin_unlock (the early returns of lines 180-183, 201-204).  *)
CallsReturn == \A c \in Contexts : pc[c] # "idle" ~> pc[c] = "idle"
=============================================================================
