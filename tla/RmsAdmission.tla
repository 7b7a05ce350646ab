---------------------------- MODULE RmsAdmission ----------------------------
(***************************************************************************)
(* librms: programs admit their threads to the RMS scheduler (sched_rms)   *)
(* and release them (drain_rms_exit_queue).  Both read a CPU's entry of    *)
(* the pinned rms_entry_map, change a copy and write it back, each under a *)
(* file lock of its own.  Programs interleave at every system call and may *)
(* be killed between any two of them.                                      *)
(*                                                                         *)
(* Utilizations are natural numbers in a unit small enough for every       *)
(* budget/period of the instance: sums are exact, where the code's doubles *)
(* round.                                                                  *)
(***************************************************************************)
EXTENDS Integers, FiniteSets

CONSTANTS
  Tasks,          \* the threads that call librms
  CPUs,           \* the indices of rms_entry_map
  SchedCPUs,      \* those below librms's own MAX_CPU_NR, 24
  NoTask,         \* a file lock nobody holds
  TaskCpu,        \* TaskCpu[t]: the cpu argument of t, when t is pinned
  Unpinned,       \* the threads that pass cpu = -1
  Util,           \* Util[t]: budget / period; 0 when the budget is 0
  Load,           \* Load[S]: the sum of Util over S
  Bound,          \* Bound[n]: n * (2^(1/n) - 1), for n # 0
  MaxCount,       \* bound on the magnitude of a recorded task count
  MAX_TASK_NR,    \* capacity of task_attr_hmap
  SerialCPUs      \* the CPUs whose programs are serialized: they name the
                  \*   CPU, admit each thread once, and let no admission
                  \*   overlap a drain; librms enforces none of that

Counts == -MaxCount .. MaxCount

ASSUME CpuAssumption ==
  /\ SchedCPUs \subseteq CPUs
  /\ SerialCPUs \subseteq CPUs
  /\ TaskCpu \in [Tasks -> CPUs]
  /\ Unpinned \subseteq Tasks
  /\ NoTask \notin Tasks
ASSUME TasksAssumption == IsFiniteSet(Tasks)
ASSUME SizeAssumption ==
  MaxCount \in Nat /\ MAX_TASK_NR \in Nat /\ Cardinality(Tasks) <= MaxCount
ASSUME LoadAssumption ==
  /\ Util \in [Tasks -> Nat]
  /\ Load \in [SUBSET Tasks -> Nat]
  /\ Load[{}] = 0
  /\ \A S \in SUBSET Tasks : \A t \in Tasks \ S :
       Load[S \cup {t}] = Load[S] + Util[t]
(* More tasks may together use less: the bound falls from 1 towards ln 2.  *)
ASSUME BoundAssumption ==
  /\ Bound \in [Counts -> Nat]
  /\ \A m, n \in 1 .. MaxCount : m <= n => Bound[n] <= Bound[m]

VARIABLES
  entry,        \* rms_entry_map: what is recorded for each CPU
  attr,         \* the keys of task_attr_hmap
  admit_lock,   \* /tmp/rms_cpu_<cpu>.lock: the holder of its flock
  exit_lock,    \* /tmp/rms_cpu_exit_<cpu>.lock
  pc,           \* where each thread is
  cpu,          \* the CPU of each thread's current or last call
  copy,         \* each thread's entry_map
  granted       \* history: granted[c], the threads entered in c's entry
                \*   and not taken out again

vars == <<entry, attr, admit_lock, exit_lock, pc, cpu, copy, granted>>

----------------------------------------------------------------------------

NoEntry == [u |-> 0, n |-> 0]

Init ==
  /\ entry = [c \in CPUs |-> NoEntry]
  /\ attr = {}
  /\ admit_lock = [c \in CPUs |-> NoTask]
  /\ exit_lock = [c \in CPUs |-> NoTask]
  /\ pc = [t \in Tasks |-> "start"]
  /\ cpu = TaskCpu
  /\ copy = [t \in Tasks |-> NoEntry]
  /\ granted = [c \in CPUs |-> {}]

Goto(t, from, to) ==
  /\ pc[t] = from
  /\ pc' = [pc EXCEPT ![t] = to]

Admitting == {"admit_lock", "admit_read", "write_attr", "write_entry",
              "unlock_ok", "unlock_failed"}
Draining  == {"drain_lock", "drain_read", "drain_write", "drain_unlock"}

(* A call for CPU c begins: on a serialized CPU the programs see to it that*)
(* none of the others is in the middle of such a call.                     *)
MayEnter(t, c, others) ==
  c \in SerialCPUs => \A o \in Tasks \ {t} : cpu[o] = c => pc[o] \notin others

(* cpu < 0 stands for the CPU the caller happens to run on.                *)
CpuArgument(t) == IF t \in Unpinned THEN CPUs \ SerialCPUs ELSE {TaskCpu[t]}

(* Mutant: n is the number of recorded tasks without the new one.          *)
check_forgets_new_task(t, e) ==
  /\ cpu[t] \in SchedCPUs
  /\ Util[t] > 0
  /\ e.n + 1 # 0
  /\ e.n + 1 \in Counts
  /\ e.u + Util[t] <= Bound[IF e.n <= 0 THEN e.n + 1 ELSE e.n]

(* Mutant: the budget is compared with the bound without the load so far.  *)
check_ignores_load(t, e) ==
  /\ cpu[t] \in SchedCPUs
  /\ Util[t] > 0
  /\ e.n + 1 # 0
  /\ e.n + 1 \in Counts
  /\ Util[t] <= Bound[e.n + 1]

(* The parameters are valid and the recorded load leaves room for t.  For  *)
(* n = -1 the code compares with 0 * infinity, which is false.             *)
check_rms_params(t, e) ==
  /\ cpu[t] \in SchedCPUs
  /\ Util[t] > 0
  /\ e.n + 1 # 0
  /\ e.n + 1 \in Counts
  /\ e.u + Util[t] <= Bound[e.n + 1]

Added(t, e)   == [u |-> e.u + Util[t], n |-> e.n + 1]
Removed(t, e) == [u |-> e.u - Util[t], n |-> e.n - 1]

(* sched_rms: the maps and the lock file are opened.                       *)
CallAdmit(t) == \E c \in CpuArgument(t) :
  /\ MayEnter(t, c, Draining)
  /\ Goto(t, "start", "admit_lock")
  /\ cpu' = [cpu EXCEPT ![t] = c]
  /\ UNCHANGED <<entry, attr, admit_lock, exit_lock, copy, granted>>

(* A map or the lock file cannot be opened, or flock fails.                *)
AdmitOpenFails(t) ==
  /\ Goto(t, "admit_lock", "failed")
  /\ UNCHANGED <<entry, attr, admit_lock, exit_lock, cpu, copy, granted>>

(* Mutant: flock with LOCK_SH, which admissions can share.                 *)
AdmitLockShared(t) ==
  /\ Goto(t, "admit_lock", "admit_read")
  /\ admit_lock' = [admit_lock EXCEPT ![cpu[t]] = t]
  /\ UNCHANGED <<entry, attr, exit_lock, cpu, copy, granted>>

AdmitLock(t) ==
  /\ Goto(t, "admit_lock", "admit_read")
  /\ admit_lock[cpu[t]] = NoTask
  /\ admit_lock' = [admit_lock EXCEPT ![cpu[t]] = t]
  /\ UNCHANGED <<entry, attr, exit_lock, cpu, copy, granted>>

AdmitCheck(t) ==
  /\ Goto(t, "admit_read", "write_attr")
  /\ check_rms_params(t, entry[cpu[t]])
  /\ copy' = [copy EXCEPT ![t] = Added(t, entry[cpu[t]])]
  /\ UNCHANGED <<entry, attr, admit_lock, exit_lock, cpu, granted>>

AdmitDeny(t) ==
  /\ Goto(t, "admit_read", "unlock_failed")
  /\ ~check_rms_params(t, entry[cpu[t]])
  /\ UNCHANGED <<entry, attr, admit_lock, exit_lock, cpu, copy, granted>>

(* Mutant: the update succeeds however many threads the map holds.         *)
WriteAttrUnbounded(t) ==
  /\ Goto(t, "write_attr", "write_entry")
  /\ attr' = attr \cup {t}
  /\ UNCHANGED <<entry, admit_lock, exit_lock, cpu, copy, granted>>

WriteAttr(t) ==
  /\ Goto(t, "write_attr", "write_entry")
  /\ Cardinality(attr \cup {t}) <= MAX_TASK_NR
  /\ attr' = attr \cup {t}
  /\ UNCHANGED <<entry, admit_lock, exit_lock, cpu, copy, granted>>

WriteAttrFails(t) ==
  /\ Goto(t, "write_attr", "unlock_failed")
  /\ Cardinality(attr \cup {t}) > MAX_TASK_NR
  /\ UNCHANGED <<entry, attr, admit_lock, exit_lock, cpu, copy, granted>>

WriteEntry(t) ==
  /\ Goto(t, "write_entry", "unlock_ok")
  /\ entry' = [entry EXCEPT ![cpu[t]] = copy[t]]
  /\ granted' = [granted EXCEPT ![cpu[t]] = @ \cup {t}]
  /\ UNCHANGED <<attr, admit_lock, exit_lock, cpu, copy>>

AdmitUnlock(t) ==
  /\ \/ Goto(t, "unlock_ok", "admitted")
     \/ Goto(t, "unlock_failed", "failed")
  /\ admit_lock' = [admit_lock EXCEPT ![cpu[t]] = NoTask]
  /\ UNCHANGED <<entry, attr, exit_lock, cpu, copy, granted>>

(* sched_setaffinity, for a pinned thread, then sched_setattr(SCHED_EXT);  *)
(* either may fail, and sched_rms returns -1 with the entry as it is.      *)
SetAffinity(t) ==
  /\ t \notin Unpinned
  /\ Goto(t, "admitted", "pinned") \/ Goto(t, "admitted", "failed")
  /\ UNCHANGED <<entry, attr, admit_lock, exit_lock, cpu, copy, granted>>

SetPolicy(t) ==
  /\ \/ Goto(t, "pinned", "running") \/ Goto(t, "pinned", "failed")
     \/ /\ t \in Unpinned
        /\ Goto(t, "admitted", "running") \/ Goto(t, "admitted", "failed")
  /\ UNCHANGED <<entry, attr, admit_lock, exit_lock, cpu, copy, granted>>

(* The program calls sched_rms again.                                      *)
Retry(t) ==
  /\ cpu[t] \notin SerialCPUs
  /\ Goto(t, "failed", "start")
  /\ UNCHANGED <<entry, attr, admit_lock, exit_lock, cpu, copy, granted>>

(* The program leaves its loop and calls drain_rms_exit_queue.             *)
CallDrain(t) == \E c \in CpuArgument(t) :
  /\ MayEnter(t, c, Admitting)
  /\ Goto(t, "running", "drain_lock")
  /\ cpu' = [cpu EXCEPT ![t] = c]
  /\ UNCHANGED <<entry, attr, admit_lock, exit_lock, copy, granted>>

DrainOpenFails(t) ==
  /\ Goto(t, "drain_lock", "drained")
  /\ UNCHANGED <<entry, attr, admit_lock, exit_lock, cpu, copy, granted>>

DrainLock(t) ==
  /\ Goto(t, "drain_lock", "drain_read")
  /\ exit_lock[cpu[t]] = NoTask
  /\ exit_lock' = [exit_lock EXCEPT ![cpu[t]] = t]
  /\ UNCHANGED <<entry, attr, admit_lock, cpu, copy, granted>>

DrainRead(t) ==
  /\ Goto(t, "drain_read", "drain_write")
  /\ entry[cpu[t]].n - 1 \in Counts
  /\ copy' = [copy EXCEPT ![t] = Removed(t, entry[cpu[t]])]
  /\ UNCHANGED <<entry, attr, admit_lock, exit_lock, cpu, granted>>

DrainWrite(t) ==
  /\ Goto(t, "drain_write", "drain_unlock")
  /\ entry' = [entry EXCEPT ![cpu[t]] = copy[t]]
  /\ granted' = [c \in CPUs |-> granted[c] \ {t}]
  /\ UNCHANGED <<attr, admit_lock, exit_lock, cpu, copy>>

DrainUnlock(t) ==
  /\ Goto(t, "drain_unlock", "drained")
  /\ exit_lock' = [exit_lock EXCEPT ![cpu[t]] = NoTask]
  /\ UNCHANGED <<entry, attr, admit_lock, cpu, copy, granted>>

(* The thread ends, by itself or killed: the kernel closes its files, which*)
(* drops its flocks, and exit_rms_task of scx_rms.bpf.c deletes the        *)
(* attributes of a thread that is in the SCHED_EXT class.                  *)
Die(t) ==
  /\ pc[t] # "dead"
  /\ pc' = [pc EXCEPT ![t] = "dead"]
  /\ admit_lock' = [c \in CPUs |->
       IF admit_lock[c] = t THEN NoTask ELSE admit_lock[c]]
  /\ exit_lock' = [c \in CPUs |->
       IF exit_lock[c] = t THEN NoTask ELSE exit_lock[c]]
  /\ attr' = IF pc[t] \in Draining \cup {"running", "drained"}
             THEN attr \ {t} ELSE attr
  /\ UNCHANGED <<entry, cpu, copy, granted>>

Admit(t) ==
  \/ CallAdmit(t) \/ AdmitOpenFails(t) \/ AdmitLock(t)
  \/ AdmitCheck(t) \/ AdmitDeny(t)
  \/ WriteAttr(t) \/ WriteAttrFails(t) \/ WriteEntry(t) \/ AdmitUnlock(t)
  \/ SetAffinity(t) \/ SetPolicy(t) \/ Retry(t)

Drain(t) ==
  \/ CallDrain(t) \/ DrainOpenFails(t) \/ DrainLock(t)
  \/ DrainRead(t) \/ DrainWrite(t) \/ DrainUnlock(t)

Next == \E t \in Tasks : Admit(t) \/ Drain(t) \/ Die(t)

Spec == Init /\ [][Next]_vars

----------------------------------------------------------------------------

States ==
  Admitting \cup Draining
    \cup {"start", "admitted", "pinned", "running", "failed", "drained", "dead"}

Entries == [u : Int, n : Counts]

TypeOK ==
  /\ entry \in [CPUs -> Entries]
  /\ attr \subseteq Tasks /\ Cardinality(attr) <= MAX_TASK_NR
  /\ admit_lock \in [CPUs -> Tasks \cup {NoTask}]
  /\ exit_lock \in [CPUs -> Tasks \cup {NoTask}]
  /\ pc \in [Tasks -> States]
  /\ cpu \in [Tasks -> CPUs]
  /\ copy \in [Tasks -> Entries]
  /\ granted \in [CPUs -> SUBSET Tasks]

(* Whatever is lost between overlapping calls, retries and killed programs,*)
(* the load recorded for a CPU stays within the bound of the count that is *)
(* recorded with it (sched_set_rms_params writes what check_rms_params     *)
(* accepted, drain_rms_exit_queue takes a task away).                      *)
RecordedWithinBound ==
  \A c \in CPUs : entry[c].n >= 1 => entry[c].u <= Bound[entry[c].n]

(* On a CPU whose programs are serialized the entry is the load and the    *)
(* number of the threads that were granted it: the read, the change and the*)
(* write of librms lose no update, wherever a program is killed.           *)
AccountingExact ==
  \A c \in SerialCPUs :
    entry[c] = [u |-> Load[granted[c]], n |-> Cardinality(granted[c])]

(* The sets of tasks that pass the Liu-Layland test on one CPU.            *)
Feasible == {S \in SUBSET Tasks : Load[S] <= Bound[Cardinality(S)]}

Control == INSTANCE AdmissionControl WITH
  CPUs <- SerialCPUs,
  granted <- [c \in SerialCPUs |-> granted[c]]

(* On those CPUs librms is the admission control its clients rely on: the  *)
(* check, made on a load and a count that were read from a map, decides as *)
(* the schedulability test of the granted set of tasks does.               *)
ImplementsAdmissionControl == Control!AdmissionSpec

Running(c) == {t \in Tasks : pc[t] = "running" /\ cpu[t] = c}

(* The threads that run in the SCHED_EXT class on a CPU pass the test that *)
(* lets designers "verify whether a task set can meet all deadlines before *)
(* deployment" (scx_rms.bpf.c, lines 15-16).                               *)
RunningWithinBound ==
  \A c \in CPUs : Running(c) # {} => Running(c) \in Feasible
=============================================================================
