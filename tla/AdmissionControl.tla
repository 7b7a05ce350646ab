-------------------------- MODULE AdmissionControl --------------------------
(***************************************************************************)
(* What the admission half of librms promises the designer of a task set:  *)
(* a task is granted a CPU only if the tasks granted that CPU, itself      *)
(* included, pass the Liu-Layland test, and a grant ends as a whole.       *)
(***************************************************************************)
CONSTANTS
  Tasks,
  CPUs,
  Feasible    \* the sets of tasks that pass the test on one CPU

VARIABLE granted    \* granted[c]: the tasks that hold a share of CPU c

AdmissionInit == granted = [c \in CPUs |-> {}]

Grant(t, c) ==
  /\ \A d \in CPUs : t \notin granted[d]
  /\ granted[c] \cup {t} \in Feasible
  /\ granted' = [granted EXCEPT ![c] = @ \cup {t}]

End(t, c) ==
  /\ t \in granted[c]
  /\ granted' = [granted EXCEPT ![c] = @ \ {t}]

AdmissionNext == \E t \in Tasks, c \in CPUs : Grant(t, c) \/ End(t, c)

AdmissionSpec == AdmissionInit /\ [][AdmissionNext]_granted

(* Every set of tasks that shares a CPU passes the schedulability test.    *)
Schedulable == \A c \in CPUs : granted[c] # {} => granted[c] \in Feasible
=============================================================================
