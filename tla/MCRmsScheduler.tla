--------------------------- MODULE MCRmsScheduler ---------------------------
(***************************************************************************)
(* Instances of RmsScheduler for TLC.                                      *)
(***************************************************************************)
EXTENDS RmsScheduler, TLC

CONSTANTS high, mid, low, c0, c1

(* Two tasks that pass the test of librms: 1/2 + 2/7 <= 0.828.             *)
MCTasks == {high, low}
MCBudget == high :> 2 @@ low :> 2
MCPeriod == high :> 4 @@ low :> 7

(* Three tasks that pass it, 1/3 + 1/5 + 3/13 <= 0.779.  The budget of the *)
(* last is the period of the first, which may so be released twice while   *)
(* the last one runs.                                                      *)
ThreeTasks == {high, mid, low}
ThreeBudgets == high :> 1 @@ mid :> 1 @@ low :> 3
ThreePeriods == high :> 3 @@ mid :> 5 @@ low :> 13
ThreeOnC0 == [p \in ThreeTasks |-> c0]
ThreePinned == [p \in ThreeTasks |-> {c0}]

(* Shorter ones for the run with two CPUs.                                 *)
ShortBudget == high :> 1 @@ low :> 1
ShortPeriod == high :> 3 @@ low :> 4

AllOnC0 == [p \in MCTasks |-> c0]
PinnedToC0 == [p \in MCTasks |-> {c0}]
HighUnpinned == high :> {c0, c1} @@ low :> {c0}
=============================================================================
