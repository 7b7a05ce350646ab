------------------------- MODULE RmsAdmissionProofs -------------------------
(***************************************************************************)
(* RmsAdmission, for every set of threads and CPUs, every utilization and  *)
(* every bound that falls as the tasks grow in number: the recorded load   *)
(* is within the recorded bound on every CPU, and on serialized CPUs the   *)
(* accounting is exact and librms implements AdmissionControl.             *)
(***************************************************************************)
EXTENDS RmsAdmission, FiniteSetTheorems, TLAPS

USE CpuAssumption, TasksAssumption, SizeAssumption, LoadAssumption

----------------------------------------------------------------------------
(* Types                                                                   *)

LEMMA TypeInit == Init => TypeOK
  BY FS_EmptySet DEF Init, TypeOK, States, Entries, NoEntry, Counts

LEMMA TypeStep == TypeOK /\ [Next]_vars => TypeOK'
<1> SUFFICES ASSUME TypeOK, [Next]_vars PROVE TypeOK'
  OBVIOUS
<1> USE DEF TypeOK, Goto, States, Admitting, Draining
<1>1. ASSUME NEW t \in Tasks, CallAdmit(t) \/ CallDrain(t)
      PROVE  TypeOK'
  BY <1>1 DEF CallAdmit, CallDrain, CpuArgument
<1>2. ASSUME NEW t \in Tasks, AdmitCheck(t) \/ DrainRead(t)
      PROVE  TypeOK'
  <2>1. CASE AdmitCheck(t)
    <3>1. Added(t, entry[cpu[t]]) \in Entries
      BY <2>1 DEF AdmitCheck, check_rms_params, Added, Entries
    <3> QED
      BY <2>1, <3>1 DEF AdmitCheck
  <2>2. CASE DrainRead(t)
    <3>1. Removed(t, entry[cpu[t]]) \in Entries
      BY <2>2 DEF DrainRead, Removed, Entries
    <3> QED
      BY <2>2, <3>1 DEF DrainRead
  <2> QED
    BY <1>2, <2>1, <2>2
<1>3. ASSUME NEW t \in Tasks, WriteEntry(t) \/ DrainWrite(t)
      PROVE  TypeOK'
  BY <1>3 DEF WriteEntry, DrainWrite
<1>4. ASSUME NEW t \in Tasks, AdmitLock(t) \/ DrainLock(t)
      PROVE  TypeOK'
  BY <1>4 DEF AdmitLock, DrainLock
<1>5. ASSUME NEW t \in Tasks, AdmitUnlock(t) \/ DrainUnlock(t)
      PROVE  TypeOK'
  BY <1>5 DEF AdmitUnlock, DrainUnlock
<1>6. ASSUME NEW t \in Tasks, WriteAttr(t)
      PROVE  TypeOK'
  BY <1>6 DEF WriteAttr
<1>7. ASSUME NEW t \in Tasks,
             \/ AdmitOpenFails(t) \/ AdmitDeny(t) \/ WriteAttrFails(t)
             \/ SetAffinity(t) \/ SetPolicy(t) \/ Retry(t) \/ DrainOpenFails(t)
      PROVE  TypeOK'
  BY <1>7 DEF AdmitOpenFails, AdmitDeny, WriteAttrFails, SetAffinity,
              SetPolicy, Retry, DrainOpenFails
<1>8. ASSUME NEW t \in Tasks, Die(t)
      PROVE  TypeOK'
  <2>1. attr' \subseteq attr
    BY <1>8 DEF Die
  <2>2. IsFiniteSet(attr)
    BY FS_Subset
  <2>3. Cardinality(attr') <= MAX_TASK_NR
    BY <2>1, <2>2, FS_Subset, FS_CardinalityType
  <2> QED
    BY <1>8, <2>1, <2>3 DEF Die
<1>9. CASE UNCHANGED vars
  BY <1>9 DEF vars
<1> QED
  BY <1>1, <1>2, <1>3, <1>4, <1>5, <1>6, <1>7, <1>8, <1>9 DEF Next, Admit, Drain

(* Every entry counts within its bounds and task_attr_hmap never holds     *)
(* more than MAX_TASK_NR threads.                                          *)
THEOREM TypeCorrect == Spec => []TypeOK
  BY TypeInit, TypeStep, PTL DEF Spec

----------------------------------------------------------------------------
(* The recorded load, on every CPU and whatever the programs do            *)

(* A copy of an entry is within the bound too: it was checked, or it is an *)
(* entry within the bound less one task.                                   *)
CopyWithinBound ==
  \A t \in Tasks : copy[t].n >= 1 => copy[t].u <= Bound[copy[t].n]

BoundInv == TypeOK /\ RecordedWithinBound /\ CopyWithinBound

LEMMA BoundInit == Init => BoundInv
  BY TypeInit DEF BoundInv, Init, RecordedWithinBound, CopyWithinBound, NoEntry

LEMMA BoundStep == BoundInv /\ [Next]_vars => BoundInv'
<1> SUFFICES ASSUME BoundInv, [Next]_vars PROVE BoundInv'
  OBVIOUS
<1> USE DEF BoundInv, RecordedWithinBound, CopyWithinBound
<1>1. TypeOK'
  BY TypeStep
<1>2. ASSUME NEW t \in Tasks, AdmitCheck(t)
      PROVE  BoundInv'
  <2>1. /\ copy' = [copy EXCEPT ![t] = Added(t, entry[cpu[t]])]
        /\ Added(t, entry[cpu[t]]).u <= Bound[Added(t, entry[cpu[t]]).n]
        /\ entry' = entry
    BY <1>2 DEF AdmitCheck, check_rms_params, Added
  <2> QED
    BY <2>1, <1>1 DEF TypeOK
<1>3. ASSUME NEW t \in Tasks, DrainRead(t)
      PROVE  BoundInv'
  <2> DEFINE e == entry[cpu[t]]
             r == Removed(t, e)
  <2>1. /\ copy' = [copy EXCEPT ![t] = r]
        /\ entry' = entry
    BY <1>3 DEF DrainRead
  <2>2. /\ e.u \in Int /\ e.n \in Counts /\ Util[t] \in Nat
        /\ r.u = e.u - Util[t] /\ r.n = e.n - 1
        /\ e.n >= 1 => e.u <= Bound[e.n]
    BY DEF TypeOK, Entries, Removed
  <2>3. ASSUME r.n >= 1 PROVE r.u <= Bound[r.n]
    <3>1. e.n \in 1 .. MaxCount /\ r.n \in 1 .. MaxCount /\ r.n <= e.n
      BY <2>2, <2>3 DEF Counts
    <3>2. Bound[e.n] <= Bound[r.n]
      BY <3>1, BoundAssumption
    <3>3. Bound[e.n] \in Nat /\ Bound[r.n] \in Nat
      BY <3>1, BoundAssumption DEF Counts
    <3> QED
      BY <2>2, <2>3, <3>1, <3>2, <3>3
  <2> QED
    BY <2>1, <2>3, <1>1 DEF TypeOK
<1>4. ASSUME NEW t \in Tasks, WriteEntry(t) \/ DrainWrite(t)
      PROVE  BoundInv'
  <2>1. entry' = [entry EXCEPT ![cpu[t]] = copy[t]] /\ copy' = copy
    BY <1>4 DEF WriteEntry, DrainWrite
  <2> QED
    BY <2>1, <1>1 DEF TypeOK
<1>5. CASE UNCHANGED <<entry, copy>>
  BY <1>1, <1>5
<1>6. ASSUME NEW t \in Tasks,
             Admit(t) \/ Drain(t) \/ Die(t),
             ~AdmitCheck(t), ~DrainRead(t), ~WriteEntry(t), ~DrainWrite(t)
      PROVE  UNCHANGED <<entry, copy>>
  BY <1>6 DEF Admit, Drain, CallAdmit, AdmitOpenFails, AdmitLock, AdmitDeny,
     WriteAttr, WriteAttrFails, AdmitUnlock, SetAffinity, SetPolicy, Retry,
     CallDrain, DrainOpenFails, DrainLock, DrainUnlock, Die
<1> QED
  BY <1>2, <1>3, <1>4, <1>5, <1>6 DEF Next, vars

(* Updates may be lost between an admission and a drain, threads admitted  *)
(* twice or killed: no entry ever records a load over the Liu-Layland      *)
(* bound of the count it records (sched_set_rms_params, librms.cpp).       *)
THEOREM RecordedLoadWithinBound == Spec => []RecordedWithinBound
<1>1. BoundInv => RecordedWithinBound
  BY DEF BoundInv
<1> QED
  BY <1>1, BoundInit, BoundStep, PTL DEF Spec

----------------------------------------------------------------------------
(* Serialized CPUs                                                         *)

AdmitCritical ==
  {"admit_read", "write_attr", "write_entry", "unlock_ok", "unlock_failed"}
DrainCritical == {"drain_read", "drain_write", "drain_unlock"}

(* The holder of a lock file is the thread between flock and unlock.       *)
Locks == \A c \in CPUs, t \in Tasks :
  /\ admit_lock[c] = t <=> cpu[t] = c /\ pc[t] \in AdmitCritical
  /\ exit_lock[c] = t <=> cpu[t] = c /\ pc[t] \in DrainCritical

(* A pinned thread only ever calls for its CPU, an unpinned one never for  *)
(* a serialized CPU.                                                       *)
Places == \A t \in Tasks :
  /\ t \notin Unpinned => cpu[t] = TaskCpu[t]
  /\ t \in Unpinned => pc[t] \in {"start", "dead"} \/ cpu[t] \notin SerialCPUs
  /\ \A c \in SerialCPUs :
       t \in granted[c] => t \notin Unpinned /\ TaskCpu[t] = c

(* On a serialized CPU no admission overlaps a drain.                      *)
Phases == \A t, o \in Tasks :
  /\ cpu[t] \in SerialCPUs /\ cpu[o] = cpu[t]
  /\ pc[t] \in Admitting
  => pc[o] \notin Draining

(* Where a thread is tells whether its share is recorded.                  *)
Shares == \A t \in Tasks : cpu[t] \in SerialCPUs =>
  /\ pc[t] \in {"start", "admit_lock", "admit_read", "write_attr",
                "write_entry", "unlock_failed"} => t \notin granted[cpu[t]]
  /\ pc[t] \in {"unlock_ok", "admitted", "pinned", "running", "drain_lock",
                "drain_read", "drain_write"}
       => t \in granted[cpu[t]]

(* A copy that is about to be written is still one task away from the      *)
(* entry it was read from.                                                 *)
Copies == \A t \in Tasks : cpu[t] \in SerialCPUs =>
  /\ pc[t] \in {"write_attr", "write_entry"} =>
       copy[t] = Added(t, entry[cpu[t]]) /\ check_rms_params(t, entry[cpu[t]])
  /\ pc[t] = "drain_write" => copy[t] = Removed(t, entry[cpu[t]])

SerialInv ==
  TypeOK /\ Locks /\ Places /\ Phases /\ Shares /\ Copies /\ AccountingExact

LEMMA SerialInit == Init => SerialInv
  BY TypeInit, FS_EmptySet
     DEF SerialInv, Init, TypeOK, Locks, Places, Phases, Shares, Copies, AccountingExact,
         NoEntry, AdmitCritical, DrainCritical, Admitting, Draining

LEMMA LocksStep ==
  ASSUME TypeOK, Locks, NEW t \in Tasks, Admit(t) \/ Drain(t) \/ Die(t)
  PROVE  Locks'
<1> USE DEF TypeOK, Locks, Goto, AdmitCritical, DrainCritical
<1>1. CASE CallAdmit(t) \/ CallDrain(t)
  BY <1>1 DEF CallAdmit, CallDrain, CpuArgument
<1>2. CASE AdmitLock(t)
  BY <1>2 DEF AdmitLock
<1>3. CASE DrainLock(t)
  BY <1>3 DEF DrainLock
<1>4. CASE AdmitUnlock(t)
  BY <1>4 DEF AdmitUnlock
<1>5. CASE DrainUnlock(t)
  BY <1>5 DEF DrainUnlock
<1>6. CASE AdmitOpenFails(t) \/ AdmitCheck(t) \/ AdmitDeny(t) \/ WriteAttr(t)
             \/ WriteAttrFails(t) \/ WriteEntry(t)
  BY <1>6 DEF AdmitOpenFails, AdmitCheck, AdmitDeny, WriteAttr, WriteAttrFails,
              WriteEntry
<1>7. CASE SetAffinity(t) \/ SetPolicy(t) \/ Retry(t)
  BY <1>7 DEF SetAffinity, SetPolicy, Retry
<1>8. CASE DrainOpenFails(t) \/ DrainRead(t) \/ DrainWrite(t)
  BY <1>8 DEF DrainOpenFails, DrainRead, DrainWrite
<1>9. CASE Die(t)
  BY <1>9 DEF Die
<1> QED
  BY <1>1, <1>2, <1>3, <1>4, <1>5, <1>6, <1>7, <1>8, <1>9 DEF Admit, Drain

LEMMA PlacesStep ==
  ASSUME TypeOK, Places, NEW t \in Tasks, Admit(t) \/ Drain(t) \/ Die(t)
  PROVE  Places'
<1> USE DEF TypeOK, Places, Goto
<1>1. CASE CallAdmit(t) \/ CallDrain(t)
  BY <1>1 DEF CallAdmit, CallDrain, CpuArgument
<1>2. CASE WriteEntry(t)
  BY <1>2 DEF WriteEntry
<1>3. CASE DrainWrite(t)
  BY <1>3 DEF DrainWrite
<1>4. CASE AdmitOpenFails(t) \/ AdmitLock(t) \/ AdmitCheck(t) \/ AdmitDeny(t)
             \/ WriteAttr(t) \/ WriteAttrFails(t) \/ AdmitUnlock(t)
  BY <1>4 DEF AdmitOpenFails, AdmitLock, AdmitCheck, AdmitDeny, WriteAttr,
              WriteAttrFails, AdmitUnlock
<1>5. CASE SetAffinity(t) \/ SetPolicy(t) \/ Retry(t)
  BY <1>5 DEF SetAffinity, SetPolicy, Retry
<1>6. CASE DrainOpenFails(t) \/ DrainLock(t) \/ DrainRead(t) \/ DrainUnlock(t)
  BY <1>6 DEF DrainOpenFails, DrainLock, DrainRead, DrainUnlock
<1>7. CASE Die(t)
  BY <1>7 DEF Die
<1> QED
  BY <1>1, <1>2, <1>3, <1>4, <1>5, <1>6, <1>7 DEF Admit, Drain

LEMMA PhasesStep ==
  ASSUME TypeOK, Places, Phases, NEW t \in Tasks, Admit(t) \/ Drain(t) \/ Die(t)
  PROVE  Phases'
<1> USE DEF TypeOK, Phases, Goto, Admitting, Draining
<1>1. CASE CallAdmit(t)
  BY <1>1 DEF CallAdmit, CpuArgument, MayEnter
<1>2. CASE CallDrain(t)
  BY <1>2 DEF CallDrain, CpuArgument, MayEnter
<1>3. CASE AdmitOpenFails(t) \/ AdmitLock(t) \/ AdmitCheck(t) \/ AdmitDeny(t)
             \/ WriteAttr(t) \/ WriteAttrFails(t) \/ WriteEntry(t) \/ AdmitUnlock(t)
  BY <1>3 DEF AdmitOpenFails, AdmitLock, AdmitCheck, AdmitDeny, WriteAttr,
              WriteAttrFails, WriteEntry, AdmitUnlock
<1>4. CASE SetAffinity(t) \/ SetPolicy(t) \/ Retry(t)
  BY <1>4 DEF SetAffinity, SetPolicy, Retry
<1>5. CASE DrainOpenFails(t) \/ DrainLock(t) \/ DrainRead(t) \/ DrainWrite(t)
             \/ DrainUnlock(t)
  BY <1>5 DEF DrainOpenFails, DrainLock, DrainRead, DrainWrite, DrainUnlock
<1>6. CASE Die(t)
  BY <1>6 DEF Die
<1> QED
  BY <1>1, <1>2, <1>3, <1>4, <1>5, <1>6 DEF Admit, Drain

LEMMA SharesStep ==
  ASSUME TypeOK, Places, Shares, NEW t \in Tasks, Admit(t) \/ Drain(t) \/ Die(t)
  PROVE  Shares'
<1> USE DEF TypeOK, Places, Shares, Goto
<1>1. CASE CallAdmit(t) \/ CallDrain(t)
  BY <1>1 DEF CallAdmit, CallDrain, CpuArgument
<1>2. CASE WriteEntry(t)
  BY <1>2 DEF WriteEntry
<1>3. CASE DrainWrite(t)
  BY <1>3 DEF DrainWrite
<1>4. CASE AdmitOpenFails(t) \/ AdmitLock(t) \/ AdmitCheck(t) \/ AdmitDeny(t)
             \/ WriteAttr(t) \/ WriteAttrFails(t) \/ AdmitUnlock(t)
  BY <1>4 DEF AdmitOpenFails, AdmitLock, AdmitCheck, AdmitDeny, WriteAttr,
              WriteAttrFails, AdmitUnlock
<1>5. CASE SetAffinity(t) \/ SetPolicy(t) \/ Retry(t)
  BY <1>5 DEF SetAffinity, SetPolicy, Retry
<1>6. CASE DrainOpenFails(t) \/ DrainLock(t) \/ DrainRead(t) \/ DrainUnlock(t)
  BY <1>6 DEF DrainOpenFails, DrainLock, DrainRead, DrainUnlock
<1>7. CASE Die(t)
  BY <1>7 DEF Die
<1> QED
  BY <1>1, <1>2, <1>3, <1>4, <1>5, <1>6, <1>7 DEF Admit, Drain

(* What check_rms_params decides and what is written depend on the thread, *)
(* its CPU and the entry alone.                                            *)
LEMMA EntryWriters ==
  ASSUME TypeOK, NEW t \in Tasks, Admit(t) \/ Drain(t) \/ Die(t)
  PROVE  \/ UNCHANGED <<entry, granted>>
         \/ WriteEntry(t)
         \/ DrainWrite(t)
  BY DEF Admit, Drain, Die, CallAdmit, AdmitOpenFails, AdmitLock, AdmitCheck,
         AdmitDeny, WriteAttr, WriteAttrFails, AdmitUnlock, SetAffinity, SetPolicy,
         Retry, CallDrain, DrainOpenFails, DrainLock, DrainRead, DrainUnlock

(* Nobody else is between reading and writing an entry that t writes.      *)
LEMMA WritersExclude ==
  ASSUME TypeOK, Locks, Phases, NEW t \in Tasks, NEW o \in Tasks \ {t},
         pc[t] \in {"write_entry", "drain_write"}, cpu[t] \in SerialCPUs,
         cpu[o] = cpu[t]
  PROVE  pc[o] \notin {"write_attr", "write_entry", "drain_write"}
<1>1. cpu[t] \in CPUs
  OBVIOUS
<1> QED
  BY <1>1 DEF TypeOK, Locks, Phases, AdmitCritical, DrainCritical, Admitting, Draining

LEMMA CopiesStep ==
  ASSUME SerialInv, NEW t \in Tasks, Admit(t) \/ Drain(t) \/ Die(t)
  PROVE  Copies'
<1> USE DEF SerialInv, TypeOK, Goto
<1>1. CASE CallAdmit(t) \/ CallDrain(t)
  BY <1>1 DEF CallAdmit, CallDrain, CpuArgument, Copies, check_rms_params
<1>2. CASE AdmitCheck(t)
  BY <1>2 DEF AdmitCheck, Copies, check_rms_params
<1>3. CASE DrainRead(t)
  BY <1>3 DEF DrainRead, Copies, check_rms_params
<1>4. CASE WriteEntry(t) \/ DrainWrite(t)
  <2>1. /\ entry' = [entry EXCEPT ![cpu[t]] = copy[t]]
        /\ UNCHANGED <<cpu, copy>>
        /\ pc[t] \in {"write_entry", "drain_write"}
        /\ pc' = [pc EXCEPT ![t] = pc'[t]]
        /\ pc'[t] \in {"unlock_ok", "drain_unlock"}
    BY <1>4 DEF WriteEntry, DrainWrite
  <2>2. ASSUME NEW o \in Tasks, cpu[o] \in SerialCPUs,
               pc'[o] \in {"write_attr", "write_entry", "drain_write"}
        PROVE  o # t /\ pc'[o] = pc[o] /\ entry'[cpu[o]] = entry[cpu[o]]
    BY <2>1, <2>2, WritersExclude
  <2> QED
    BY <2>1, <2>2 DEF Copies, check_rms_params
<1>5. CASE WriteAttr(t)
  BY <1>5 DEF WriteAttr, Copies, check_rms_params
<1>6. CASE AdmitOpenFails(t) \/ AdmitLock(t) \/ AdmitDeny(t) \/ WriteAttrFails(t)
             \/ AdmitUnlock(t)
  BY <1>6 DEF AdmitOpenFails, AdmitLock, AdmitDeny, WriteAttrFails, AdmitUnlock,
              Copies, check_rms_params
<1>7. CASE SetAffinity(t) \/ SetPolicy(t) \/ Retry(t)
  BY <1>7 DEF SetAffinity, SetPolicy, Retry, Copies, check_rms_params
<1>8. CASE DrainOpenFails(t) \/ DrainLock(t) \/ DrainUnlock(t)
  BY <1>8 DEF DrainOpenFails, DrainLock, DrainUnlock, Copies, check_rms_params
<1>9. CASE Die(t)
  BY <1>9 DEF Die, Copies, check_rms_params
<1> QED
  BY <1>1, <1>2, <1>3, <1>4, <1>5, <1>6, <1>7, <1>8, <1>9 DEF Admit, Drain

(* An admission on a serialized CPU grants the thread that CPU.            *)
LEMMA WriteGrants ==
  ASSUME SerialInv, NEW t \in Tasks, WriteEntry(t), cpu[t] \in SerialCPUs
  PROVE  /\ entry'[cpu[t]] = [u |-> Load[granted[cpu[t]] \cup {t}],
                              n |-> Cardinality(granted[cpu[t]] \cup {t})]
         /\ granted[cpu[t]] \cup {t} \in Feasible
         /\ \A d \in SerialCPUs : t \notin granted[d]
<1> DEFINE c == cpu[t]
           S == granted[c] \cup {t}
<1> USE DEF SerialInv
<1>1. /\ pc[t] = "write_entry"
      /\ entry' = [entry EXCEPT ![c] = copy[t]]
  BY DEF WriteEntry, Goto
<1>2. /\ t \notin granted[c]
      /\ copy[t] = Added(t, entry[c])
      /\ check_rms_params(t, entry[c])
  BY <1>1 DEF Shares, Copies
<1>3. entry[c] = [u |-> Load[granted[c]], n |-> Cardinality(granted[c])]
  BY DEF AccountingExact
<1>4. granted[c] \subseteq Tasks /\ IsFiniteSet(granted[c])
  BY FS_Subset DEF TypeOK
<1>5. Cardinality(S) = Cardinality(granted[c]) + 1
  BY <1>2, <1>4, FS_AddElement
<1>6. Load[S] = Load[granted[c]] + Util[t]
  BY <1>2, <1>4
<1>7. copy[t] = [u |-> Load[S], n |-> Cardinality(S)]
  BY <1>2, <1>3, <1>5, <1>6 DEF Added
<1>8. Load[S] <= Bound[Cardinality(S)]
  BY <1>2, <1>3, <1>5, <1>6 DEF check_rms_params
<1>9. \A d \in SerialCPUs : t \notin granted[d]
  BY <1>1, <1>2 DEF Places
<1> QED
  <2>1. entry'[c] = copy[t]
    BY <1>1 DEF TypeOK
  <2>2. S \in Feasible
    BY <1>4, <1>8 DEF Feasible
  <2> QED
    BY <1>7, <1>9, <2>1, <2>2

(* A drain on a serialized CPU ends a grant of that CPU.                   *)
LEMMA DrainEnds ==
  ASSUME SerialInv, NEW t \in Tasks, DrainWrite(t), cpu[t] \in SerialCPUs
  PROVE  /\ entry'[cpu[t]] = [u |-> Load[granted[cpu[t]] \ {t}],
                              n |-> Cardinality(granted[cpu[t]] \ {t})]
         /\ t \in granted[cpu[t]]
         /\ \A d \in SerialCPUs \ {cpu[t]} : t \notin granted[d]
<1> DEFINE c == cpu[t]
           S == granted[c] \ {t}
<1> USE DEF SerialInv
<1>1. /\ pc[t] = "drain_write"
      /\ entry' = [entry EXCEPT ![c] = copy[t]]
  BY DEF DrainWrite, Goto
<1>2. t \in granted[c] /\ copy[t] = Removed(t, entry[c])
  BY <1>1 DEF Shares, Copies
<1>3. entry[c] = [u |-> Load[granted[c]], n |-> Cardinality(granted[c])]
  BY DEF AccountingExact
<1>4. granted[c] \subseteq Tasks /\ IsFiniteSet(granted[c])
  BY FS_Subset DEF TypeOK
<1>5. Cardinality(S) = Cardinality(granted[c]) - 1
  <2>1. IsFiniteSet(granted[c]) => Cardinality(S) =
          IF t \in granted[c] THEN Cardinality(granted[c]) - 1 ELSE Cardinality(granted[c])
    BY FS_RemoveElement
  <2> QED
    BY <1>2, <1>4, <2>1
<1>6. Load[granted[c]] = Load[S] + Util[t]
  <2>1. S \in SUBSET Tasks /\ t \in Tasks \ S /\ S \cup {t} = granted[c]
    BY <1>2, <1>4
  <2> QED
    BY <2>1
<1>7. copy[t] = [u |-> Load[S], n |-> Cardinality(S)]
  <2>1. Load[S] \in Nat /\ Util[t] \in Nat
    BY <1>4
  <2> QED
    BY <1>2, <1>3, <1>5, <1>6, <2>1 DEF Removed
<1>8. \A d \in SerialCPUs \ {c} : t \notin granted[d]
  BY <1>2 DEF Places
<1> QED
  <2>1. entry'[c] = copy[t]
    BY <1>1 DEF TypeOK
  <2> QED
    BY <1>2, <1>7, <1>8, <2>1

LEMMA AccountingStep ==
  ASSUME SerialInv, NEW t \in Tasks, Admit(t) \/ Drain(t) \/ Die(t)
  PROVE  AccountingExact'
<1> USE DEF SerialInv
<1> SUFFICES ASSUME NEW c \in SerialCPUs
             PROVE  entry'[c] = [u |-> Load[granted'[c]], n |-> Cardinality(granted'[c])]
  BY DEF AccountingExact
<1>1. entry[c] = [u |-> Load[granted[c]], n |-> Cardinality(granted[c])]
  BY DEF AccountingExact
<1>2. CASE WriteEntry(t)
  <2>1. CASE cpu[t] = c
    <3>1. granted'[c] = granted[c] \cup {t}
      BY <1>2, <2>1 DEF WriteEntry, TypeOK
    <3> QED
      BY <1>2, <2>1, <3>1, WriteGrants
  <2>2. CASE cpu[t] # c
    BY <1>1, <1>2, <2>2 DEF WriteEntry, TypeOK
  <2> QED
    BY <2>1, <2>2
<1>3. CASE DrainWrite(t)
  <2>1. granted'[c] = granted[c] \ {t}
    BY <1>3 DEF DrainWrite
  <2>2. CASE cpu[t] = c
    BY <1>3, <2>1, <2>2, DrainEnds
  <2>3. CASE cpu[t] # c
    <3>1. entry'[c] = entry[c]
      BY <1>3, <2>3 DEF DrainWrite, TypeOK
    <3>2. t \notin granted[c]
      BY <1>3, <2>3 DEF DrainWrite, Goto, Places
    <3>3. granted'[c] = granted[c]
      BY <2>1, <3>2
    <3> QED
      BY <1>1, <3>1, <3>3
  <2> QED
    BY <2>2, <2>3
<1>4. CASE UNCHANGED <<entry, granted>>
  BY <1>1, <1>4
<1> QED
  BY <1>2, <1>3, <1>4, EntryWriters

LEMMA SerialStep == SerialInv /\ [Next]_vars => SerialInv'
<1> SUFFICES ASSUME SerialInv, [Next]_vars PROVE SerialInv'
  OBVIOUS
<1>1. TypeOK'
  BY TypeStep DEF SerialInv
<1>2. ASSUME NEW t \in Tasks, Admit(t) \/ Drain(t) \/ Die(t)
      PROVE  SerialInv'
  BY <1>1, <1>2, LocksStep, PlacesStep, PhasesStep, SharesStep, CopiesStep,
     AccountingStep DEF SerialInv
<1>3. CASE UNCHANGED vars
  BY <1>1, <1>3 DEF vars, SerialInv, Locks, Places, Phases, Shares, Copies,
                    AccountingExact, check_rms_params
<1> QED
  BY <1>2, <1>3 DEF Next

LEMMA SerialInvariant == Spec => []SerialInv
  BY SerialInit, SerialStep, PTL DEF Spec

(* On a serialized CPU the recorded load and count are those of the threads*)
(* granted it: no update of sched_set_rms_params or drain_rms_exit_queue   *)
(* is lost, wherever a program is killed.                                  *)
THEOREM AccountingIsExact == Spec => []AccountingExact
<1>1. SerialInv => AccountingExact
  BY DEF SerialInv
<1> QED
  BY <1>1, SerialInvariant, PTL

LEMMA ControlInit == Init => Control!AdmissionInit
  BY DEF Init, Control!AdmissionInit

LEMMA ControlSteps ==
  ASSUME NEW t \in Tasks, NEW c \in SerialCPUs,
         Control!Grant(t, c) \/ Control!End(t, c)
  PROVE  Control!AdmissionNext
  BY DEF Control!AdmissionNext

LEMMA RemoveNonMember == \A S, x : x \notin S => S \ {x} = S
  OBVIOUS

(* Writing an entry grants or ends; on other CPUs, and in every other step,*)
(* no grant of a serialized CPU changes.                                   *)
LEMMA ControlStep ==
  SerialInv /\ [Next]_vars
    => [Control!AdmissionNext]_([c \in SerialCPUs |-> granted[c]])
<1> DEFINE g == [c \in SerialCPUs |-> granted[c]]
<1> SUFFICES ASSUME SerialInv, [Next]_vars
             PROVE  Control!AdmissionNext \/ g' = g
  OBVIOUS
<1> USE DEF SerialInv
<1>1. ASSUME NEW t \in Tasks, WriteEntry(t)
      PROVE  Control!AdmissionNext \/ g' = g
  <2>1. granted' = [granted EXCEPT ![cpu[t]] = @ \cup {t}] /\ cpu[t] \in CPUs
    BY <1>1 DEF WriteEntry, TypeOK
  <2>2. ASSUME NEW c \in SerialCPUs, cpu[t] = c
        PROVE  Control!AdmissionNext
    <3>1. g' = [g EXCEPT ![c] = @ \cup {t}]
      BY <2>1, <2>2 DEF TypeOK
    <3>2. /\ \A d \in SerialCPUs : t \notin g[d]
          /\ g[c] \cup {t} \in Feasible
      BY <1>1, <2>2, WriteGrants
    <3>3. Control!Grant(t, c)
      BY <3>1, <3>2 DEF Control!Grant
    <3> QED
      BY <2>2, <3>3, ControlSteps
  <2>3. CASE cpu[t] \notin SerialCPUs
    BY <2>1, <2>3 DEF TypeOK
  <2> QED
    BY <2>2, <2>3
<1>2. ASSUME NEW t \in Tasks, DrainWrite(t)
      PROVE  Control!AdmissionNext \/ g' = g
  <2>1. granted' = [c \in CPUs |-> granted[c] \ {t}] /\ pc[t] = "drain_write"
    BY <1>2 DEF DrainWrite, Goto
  <2>2. ASSUME NEW c \in SerialCPUs, cpu[t] = c
        PROVE  Control!AdmissionNext
    <3>1. /\ t \in g[c]
          /\ \A d \in SerialCPUs \ {c} : t \notin g[d]
      BY <1>2, <2>2, DrainEnds
    <3>2. g' = [d \in SerialCPUs |-> g[d] \ {t}]
      BY <2>1
    <3>3. \A d \in SerialCPUs \ {c} : g[d] \ {t} = g[d]
      BY <3>1, RemoveNonMember
    <3>4. g' = [g EXCEPT ![c] = @ \ {t}]
      BY <3>2, <3>3
    <3>5. Control!End(t, c)
      BY <3>1, <3>4 DEF Control!End
    <3> QED
      BY <2>2, <3>5, ControlSteps
  <2>3. CASE cpu[t] \notin SerialCPUs
    <3>1. \A c \in SerialCPUs : t \notin granted[c]
      BY <2>1, <2>3 DEF Places
    <3>2. \A c \in SerialCPUs : granted'[c] = granted[c]
      BY <2>1, <3>1, RemoveNonMember
    <3> QED
      BY <3>2
  <2> QED
    BY <2>2, <2>3
<1>3. ASSUME UNCHANGED granted
      PROVE  g' = g
  BY <1>3
<1> QED
  BY <1>1, <1>2, <1>3, EntryWriters DEF Next, vars

(* On serialized CPUs librms is AdmissionControl: a thread is entered only *)
(* when the tasks that hold the CPU, itself included, pass the test.       *)
THEOREM AdmissionImplementsControl == Spec => ImplementsAdmissionControl
<1>1. Spec => /\ Control!AdmissionInit
              /\ [][Control!AdmissionNext]_([c \in SerialCPUs |-> granted[c]])
  BY ControlInit, ControlStep, SerialInvariant, PTL DEF Spec
<1> QED
  BY <1>1, PTL DEF ImplementsAdmissionControl, Control!AdmissionSpec

(* Hence the threads that hold a share of a serialized CPU always pass the *)
(* test together: an exact entry that is within its bound.                 *)
THEOREM GrantedIsSchedulable == Spec => []Control!Schedulable
<1>1. SerialInv /\ BoundInv => Control!Schedulable
  <2> SUFFICES ASSUME SerialInv, BoundInv, NEW c \in SerialCPUs, granted[c] # {}
               PROVE  granted[c] \in Feasible
    BY DEF Control!Schedulable
  <2>1. granted[c] \in SUBSET Tasks /\ IsFiniteSet(granted[c])
    BY FS_Subset DEF SerialInv, TypeOK
  <2>2. Cardinality(granted[c]) \in Nat /\ Cardinality(granted[c]) # 0
    BY <2>1, FS_CardinalityType, FS_EmptySet
  <2>3. entry[c] = [u |-> Load[granted[c]], n |-> Cardinality(granted[c])]
    BY DEF SerialInv, AccountingExact
  <2>4. entry[c].n >= 1 => entry[c].u <= Bound[entry[c].n]
    BY DEF BoundInv, RecordedWithinBound
  <2>5. entry[c].u = Load[granted[c]] /\ entry[c].n = Cardinality(granted[c])
    BY <2>3
  <2> QED
    BY <2>1, <2>2, <2>4, <2>5 DEF Feasible
<1> QED
  BY <1>1, SerialInvariant, BoundInit, BoundStep, PTL DEF Spec
=============================================================================
