--------------------------- MODULE MCRmsAdmission ---------------------------
(***************************************************************************)
(* Instances of RmsAdmission for TLC.  Utilizations and bounds are in per  *)
(* mille; Bound(n) is n * (2^(1/n) - 1) rounded down.                      *)
(***************************************************************************)
EXTENDS RmsAdmission, TLC, FiniteSetsExt

CONSTANTS c0, c1, c24, t1, t2, t3, t4

MCCPUs == {c0, c1, c24}
MCSchedCPUs == {c0, c1}
MCMaxCount == 4

(* t1 and t2 do not fit on one CPU; t3 fits with either of them.           *)
MCUtil == [t \in Tasks |->
  CASE t = t1 -> 400 [] t = t2 -> 500 [] t = t3 -> 300 [] t = t4 -> 600]

MCLoad == [S \in SUBSET Tasks |-> MapThenSumSet(LAMBDA t : MCUtil[t], S)]

MCBound == -4 :> 636 @@ -3 :> 618 @@ -2 :> 585 @@ -1 :> 500 @@ 0 :> 0
             @@ 1 :> 1000 @@ 2 :> 828 @@ 3 :> 779 @@ 4 :> 756

OnTwoCpus == [t \in Tasks |-> IF t \in {t1, t2} THEN c0 ELSE c1]
AllOnOneCpu == [t \in Tasks |-> c0]
=============================================================================
