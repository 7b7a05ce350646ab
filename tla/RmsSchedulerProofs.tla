------------------------- MODULE RmsSchedulerProofs -------------------------
(***************************************************************************)
(* RmsScheduler, for every set of tasks and CPUs and all budgets, periods  *)
(* and affinities: no task is lost, a released job stays in its ready      *)
(* queue until the CPU dispatches it, the queue stays short, a running task*)
(* is budgeted, and no handler ends the scheduler.                         *)
(***************************************************************************)
EXTENDS RmsScheduler, FiniteSetTheorems, SequenceTheorems, TLAPS

USE TasksAssumption, AttrAssumption, FeatureAssumption

-----------------------------------------------------------------------------
(* The timers and the sets of __schedule.                                  *)

LEMMA StartTypes ==
  ASSUME NEW c \in CPUs, NEW time \in Nat, NEW period \in Nat
  PROVE  /\ EmptyTimer(c) \in Timers
         /\ [EmptyTimer(c) EXCEPT !.remain = time] \in Timers
         /\ rms_timer_start(time, period, c) \in Timers
  BY DEF Timers, EmptyTimer, rms_timer_start

LEMMA RefreshTypes == ASSUME NEW timer \in Timers PROVE refresh_timer(timer) \in Timers
<1>1. CASE timer.periodic > 0
  <2>1. refresh_timer(timer) = [timer EXCEPT !.remain = timer.periodic,
                                  !.left = timer.periodic, !.pending = TRUE, !.armed = TRUE]
    BY <1>1 DEF Timers, refresh_timer
  <2> QED
    BY <2>1 DEF Timers
<1>2. CASE timer.periodic = 0
  <2>1. ~(timer.periodic > 0)
    BY <1>2
  <2>2. (timer.periodic > 0) = FALSE
    BY <2>1
  <2>3. refresh_timer(timer) = [timer EXCEPT !.remain = timer.remain,
                                  !.left = timer.periodic, !.pending = FALSE, !.armed = FALSE]
    BY <2>1, <2>2 DEF Timers, refresh_timer
  <2> QED
    BY <2>3 DEF Timers
<1> QED
  BY <1>1, <1>2 DEF Timers

LEMMA TimerTypes ==
  ASSUME NEW timer \in Timers, NEW time \in Nat
  PROVE  /\ rms_timer_cancel(timer) \in Timers
         /\ rms_timer_cancel_self(timer) \in Timers
         /\ refresh_timer(timer) \in Timers
         /\ Elapsed(timer) \in Timers
         /\ RemainOr(timer, time) \in Nat
         /\ [timer EXCEPT !.remain = time] \in Timers
<1>1. rms_timer_cancel(timer) \in Timers /\ rms_timer_cancel_self(timer) \in Timers
  BY DEF Timers, rms_timer_cancel, rms_timer_cancel_self
<1>2. Elapsed(timer) \in Timers
  BY DEF Timers, Elapsed
<1>3. RemainOr(timer, time) \in Nat
  BY DEF Timers, RemainOr, rms_timer_get_remain
<1>4. [timer EXCEPT !.remain = time] \in Timers
  BY DEF Timers
<1> QED
  BY <1>1, <1>2, <1>3, <1>4, RefreshTypes

LEMMA QueuedPids ==
  ASSUME TypeOK, NEW c \in CPUs
  PROVE  /\ queue[c] \in Seq(Tasks)
         /\ DOMAIN queue[c] = 1 .. Len(queue[c])
         /\ Len(queue[c]) \in Nat
         /\ \A i \in DOMAIN queue[c] : queue[c][i] \in Tasks
<1>1. queue[c] \in Seq(Tasks)
  BY DEF TypeOK
<1> QED
  BY <1>1, LenProperties, ElementOfSeq

LEMMA LocalTasks ==
  ASSUME TypeOK, NEW c \in CPUs
  PROVE  /\ local[c] \in Seq(Tasks)
         /\ DOMAIN local[c] = 1 .. Len(local[c])
         /\ Len(local[c]) \in Nat
         /\ \A i \in DOMAIN local[c] : local[c][i] \in Tasks
<1>1. local[c] \in Seq(Tasks)
  BY DEF TypeOK
<1> QED
  BY <1>1, LenProperties, ElementOfSeq

LEMMA DispatchTypes ==
  ASSUME TypeOK, NEW c \in CPUs
  PROVE  /\ Popped(c) \in Nat
         /\ Dispatched(c) \subseteq Tasks
         /\ Inserted(c) \subseteq Dispatched(c)
         /\ First(c) \subseteq Tasks
         /\ Restarted(c) \subseteq Dispatched(c)
<1>1. Popped(c) \in Nat
  <2> DEFINE heads == {i \in DOMAIN queue[c] : \A j \in Stops(c) : i <= j}
  <2>1. IsFiniteSet(1 .. Len(queue[c]))
    BY QueuedPids, FS_Interval
  <2>2. heads \subseteq 1 .. Len(queue[c])
    BY QueuedPids
  <2>3. IsFiniteSet(heads)
    BY <2>1, <2>2, FS_Subset
  <2> QED
    BY <2>3, FS_CardinalityType DEF Popped
<1>2. Dispatched(c) \subseteq Tasks
  BY QueuedPids DEF Dispatched
<1>3. Inserted(c) \subseteq Dispatched(c) /\ Restarted(c) \subseteq Dispatched(c)
  BY DEF Inserted, Restarted
<1>4. First(c) \subseteq Tasks
  BY <1>2, <1>3 DEF First
<1> QED
  BY <1>1, <1>2, <1>3, <1>4

LEMMA RunningTypes ==
  ASSUME NEW p \in Tasks, NEW c \in CPUs, NEW timers \in [Tasks -> Timers], NEW ours
  PROVE  rms_running(p, c, timers, ours) \in [Tasks -> Timers]
<1>1. RemainOr(timers[p], Budget[p]) \in Nat
  BY TimerTypes
<1>2. rms_timer_start(RemainOr(timers[p], Budget[p]), 0, c) \in Timers
  BY <1>1, StartTypes
<1> QED
  BY <1>2 DEF rms_running

-----------------------------------------------------------------------------
(* Type correctness.                                                       *)

TypesOfTasks ==
  /\ loc \in [Tasks -> Places]
  /\ taskCpu \in [Tasks -> CPUs]
  /\ mask \in [Tasks -> SUBSET CPUs]
  /\ dsq \in [Tasks -> CPUs]
  /\ hashed \subseteq Tasks

TypesOfCpus ==
  /\ local \in [CPUs -> Seq(Tasks)]
  /\ curr \in [CPUs -> Tasks \cup {NoTask}]
  /\ resched \in [CPUs -> BOOLEAN]
  /\ phase \in [CPUs -> {"run", "put", "pick"}]

TypesOfMaps ==
  /\ queue \in [CPUs -> Seq(Tasks)]
  /\ admitted \subseteq Tasks /\ timed \subseteq Tasks
  /\ is_yield \subseteq Tasks /\ is_migrate \subseteq Tasks
  /\ scx_error \in BOOLEAN

TypesOfTimers ==
  /\ sched \in [Tasks -> Timers]
  /\ budget \in [Tasks -> Timers]

LEMMA TypeParts == TypeOK <=> TypesOfTasks /\ TypesOfCpus /\ TypesOfMaps /\ TypesOfTimers
  BY DEF TypeOK, TypesOfTasks, TypesOfCpus, TypesOfMaps, TypesOfTimers

LEMMA TypesRestored ==
  ASSUME TypesOfTasks', TypesOfCpus', TypesOfMaps', TypesOfTimers'
  PROVE  TypeOK'
  BY DEF TypeOK, TypesOfTasks, TypesOfCpus, TypesOfMaps, TypesOfTimers

LEMMA EnqueueTypes ==
  ASSUME TypesOfTasks, NEW p \in Tasks, NEW c \in CPUs, rms_enqueue(p, c)
  PROVE  loc' \in [Tasks -> Places] /\ dsq' \in [Tasks -> CPUs]
<1>1. loc \in [Tasks -> Places] /\ dsq \in [Tasks -> CPUs]
  BY DEF TypesOfTasks
<1> QED
  BY <1>1 DEF rms_enqueue, Places

LEMMA InitTypes == Init => TypeOK
<1> SUFFICES ASSUME Init PROVE TypeOK
  OBVIOUS
<1>1. TypesOfTasks
  BY DEF Init, TypesOfTasks, Places
<1>0. <<>> \in Seq(Tasks)
  BY EmptySeq
<1>2. TypesOfCpus
  BY <1>0 DEF Init, TypesOfCpus
<1>3. TypesOfMaps
  BY <1>0 DEF Init, TypesOfMaps
<1>4. TypesOfTimers
  BY StartTypes DEF Init, TypesOfTimers
<1> QED
  BY <1>1, <1>2, <1>3, <1>4, TypeParts

LEMMA EnterExtTypes == ASSUME TypeOK, NEW p \in Tasks, EnterExt(p) PROVE TypeOK'
<1> PICK c \in mask[p] :
      /\ loc[p] = "fair" /\ phase[c] = "run"
      /\ ~resched[c] /\ ~Interrupted(c)
      /\ timed' = timed \cup {p}
      /\ sched' = [sched EXCEPT ![p] = rms_timer_start(Period[p], Period[p], c)]
      /\ budget' = rms_running(p, c,
           [budget EXCEPT ![p] = [EmptyTimer(c) EXCEPT !.remain = Budget[p]]], timed')
      /\ taskCpu' = [taskCpu EXCEPT ![p] = c]
      /\ curr' = [curr EXCEPT ![c] = p]
      /\ IF curr[c] = NoTask
         THEN loc' = [loc EXCEPT ![p] = "running"] /\ UNCHANGED local
         ELSE /\ loc' = [loc EXCEPT ![p] = "running", ![curr[c]] = "local"]
              /\ local' = [local EXCEPT ![c] = <<curr[c]>> \o @]
      /\ UNCHANGED <<mask, dsq, hashed, resched, phase, flags, admitted, queue, scx_error>>
  BY DEF EnterExt
<1>t. TypesOfTasks /\ TypesOfCpus /\ TypesOfMaps /\ TypesOfTimers
  BY TypeParts
<1>0. c \in CPUs
  BY <1>t DEF TypesOfTasks
<1>1. TypesOfTasks'
  <2>1. loc' \in [Tasks -> Places]
    <3>1. loc \in [Tasks -> Places]
      BY <1>t DEF TypesOfTasks
    <3>2. CASE curr[c] = NoTask
      BY <3>1, <3>2 DEF Places
    <3>3. CASE curr[c] # NoTask
      <4>1. curr[c] \in Tasks
        BY <1>0, <1>t, <3>3 DEF TypesOfCpus
      <4>2. loc' = [loc EXCEPT ![p] = "running", ![curr[c]] = "local"]
        BY <3>3
      <4> QED
        BY <3>1, <4>1, <4>2 DEF Places
    <3> QED
      BY <3>2, <3>3
  <2> QED
    BY <1>0, <1>t, <2>1 DEF TypesOfTasks
<1>2. TypesOfCpus'
  <2>1. local' \in [CPUs -> Seq(Tasks)]
    <3>1. CASE curr[c] = NoTask
      BY <3>1, <1>t DEF TypesOfCpus
    <3>2. CASE curr[c] # NoTask
      <4>1. <<curr[c]>> \in Seq(Tasks) /\ local[c] \in Seq(Tasks)
        BY <1>0, <1>t, <3>2 DEF TypesOfCpus
      <4>2. <<curr[c]>> \o local[c] \in Seq(Tasks)
        BY <4>1, ConcatProperties
      <4> QED
        BY <3>2, <4>2, <1>t DEF TypesOfCpus
    <3> QED
      BY <3>1, <3>2
  <2> QED
    BY <2>1, <1>0, <1>t DEF TypesOfCpus
<1>3. TypesOfMaps'
  BY <1>t DEF TypesOfMaps, flags
<1>4. TypesOfTimers'
  <2>1. rms_timer_start(Period[p], Period[p], c) \in Timers
    BY <1>0, StartTypes
  <2>2. [EmptyTimer(c) EXCEPT !.remain = Budget[p]] \in Timers
    BY <1>0, StartTypes
  <2>3. [budget EXCEPT ![p] = [EmptyTimer(c) EXCEPT !.remain = Budget[p]]] \in [Tasks -> Timers]
    BY <2>2, <1>t DEF TypesOfTimers
  <2>4. budget' \in [Tasks -> Timers]
    BY <1>0, <2>3, RunningTypes
  <2> QED
    BY <2>1, <2>4, <1>t DEF TypesOfTimers
<1> QED
  BY <1>1, <1>2, <1>3, <1>4, TypesRestored

LEMMA SetCpumaskTypes == ASSUME TypeOK, NEW p \in Tasks, SetCpumask(p) PROVE TypeOK'
<1> PICK m \in SUBSET CPUs \ {{}}, cur \in CPUs :
      /\ mask' = [mask EXCEPT ![p] = m]
      /\ sched' = [sched EXCEPT ![p] = rms_timer_cancel(@)]
      /\ budget' = [budget EXCEPT ![p] = rms_timer_cancel(@)]
      /\ is_migrate' = IF FEATURE_MIGRATION THEN is_migrate \cup {p} ELSE is_migrate
      /\ IF loc[p] = "blocked"
         THEN UNCHANGED <<loc, dsq, taskCpu, curr, resched>>
         ELSE \E c \in m :
                /\ phase[c] = "run"
                /\ rms_enqueue(p, c)
                /\ taskCpu' = [taskCpu EXCEPT ![p] = c]
                /\ curr' = [d \in CPUs |-> IF curr[d] = p THEN NoTask ELSE curr[d]]
                /\ resched' = [d \in CPUs |->
                     \/ resched[d] \/ curr[d] = p
                     \/ d = c /\ (curr[d] = NoTask \/ (c # cur /\ loc'[p] = "queued"))]
      /\ UNCHANGED <<hashed, local, phase, is_yield, maps, queue, scx_error>>
  BY DEF SetCpumask
<1>t. TypesOfTasks /\ TypesOfCpus /\ TypesOfMaps /\ TypesOfTimers
  BY TypeParts
<1>1. TypesOfTimers'
  <2>1. rms_timer_cancel(budget[p]) \in Timers /\ rms_timer_cancel(sched[p]) \in Timers
    BY <1>t, TimerTypes DEF TypesOfTimers
  <2> QED
    BY <2>1, <1>t DEF TypesOfTimers
<1>2. TypesOfTasks' /\ TypesOfCpus'
  <2>1. CASE loc[p] = "blocked"
    BY <2>1, <1>t DEF TypesOfTasks, TypesOfCpus
  <2>2. CASE loc[p] # "blocked"
    <3> PICK c \in m :
          /\ rms_enqueue(p, c)
          /\ taskCpu' = [taskCpu EXCEPT ![p] = c]
          /\ curr' = [d \in CPUs |-> IF curr[d] = p THEN NoTask ELSE curr[d]]
          /\ resched' = [d \in CPUs |->
               \/ resched[d] \/ curr[d] = p
               \/ d = c /\ (curr[d] = NoTask \/ (c # cur /\ loc'[p] = "queued"))]
      BY <2>2
    <3>1. loc' \in [Tasks -> Places] /\ dsq' \in [Tasks -> CPUs]
      BY <1>t, EnqueueTypes
    <3>2. TypesOfTasks'
      BY <3>1, <1>t DEF TypesOfTasks
    <3>3. resched' \in [CPUs -> BOOLEAN]
      <4>1. \A d \in CPUs : resched[d] \in BOOLEAN
        BY <1>t DEF TypesOfCpus
      <4> QED
        BY <4>1, Zenon
    <3> QED
      BY <3>2, <3>3, <1>t DEF TypesOfCpus
  <2> QED
    BY <2>1, <2>2
<1>3. TypesOfMaps'
  BY <1>t DEF TypesOfMaps, maps
<1> QED
  BY <1>1, <1>2, <1>3, TypesRestored

LEMMA TaskStepTypes == ASSUME TypeOK, NEW p \in Tasks, TaskStep(p) PROVE TypeOK'
<1>t. TypesOfTasks /\ TypesOfCpus /\ TypesOfMaps /\ TypesOfTimers
  BY TypeParts
<1>1. ASSUME Yield(p) PROVE TypeOK'
  <2>1. TypesOfTasks'
    BY <1>1, <1>t DEF Yield, tasks, TypesOfTasks
  <2>2. TypesOfCpus'
    BY <1>1, <1>t DEF Yield, Kick, TypesOfTasks, TypesOfCpus
  <2>3. TypesOfMaps'
    BY <1>1, <1>t DEF Yield, maps, TypesOfMaps
  <2>4. rms_timer_cancel(budget[p]) \in Timers
    BY <1>t, TimerTypes DEF TypesOfTimers
  <2>5. TypesOfTimers'
    BY <1>1, <1>t, <2>4 DEF Yield, TypesOfTimers
  <2> QED
    BY <2>1, <2>2, <2>3, <2>5, TypesRestored
<1>2. ASSUME Block(p) \/ Leave(p) PROVE TypeOK'
  <2>1. TypesOfTasks'
    BY <1>2, <1>t DEF Block, Leave, TypesOfTasks, Places
  <2>2. TypesOfCpus'
    BY <1>2, <1>t DEF Block, Leave, LeaveCpu, Kick, TypesOfTasks, TypesOfCpus
  <2>3. TypesOfMaps' /\ TypesOfTimers'
    BY <1>2, <1>t DEF Block, Leave, flags, maps, TypesOfMaps, TypesOfTimers
  <2> QED
    BY <2>1, <2>2, <2>3, TypesRestored
<1>3. ASSUME Wake(p) PROVE TypeOK'
  <2> PICK c \in rms_select_cpu(p), cur \in CPUs :
        /\ loc[p] = "blocked"
        /\ Activate(p, c, cur)
        /\ UNCHANGED <<mask, hashed, local, curr, phase, flags, maps, queue, sched, budget,
                       scx_error>>
    BY <1>3 DEF Wake
  <2>0. c \in CPUs
    BY <1>t DEF rms_select_cpu, TypesOfTasks
  <2>1. loc' \in [Tasks -> Places] /\ dsq' \in [Tasks -> CPUs]
    BY <2>0, <1>t, EnqueueTypes DEF Activate
  <2>2. TypesOfTasks'
    BY <2>0, <2>1, <1>t DEF Activate, TypesOfTasks
  <2>3. resched' \in [CPUs -> BOOLEAN]
    BY <1>t DEF Activate, TypesOfCpus
  <2>4. TypesOfCpus'
    BY <2>3, <1>t DEF TypesOfCpus
  <2>5. TypesOfMaps' /\ TypesOfTimers'
    BY <1>t DEF flags, maps, TypesOfMaps, TypesOfTimers
  <2> QED
    BY <2>2, <2>4, <2>5, TypesRestored
<1>4. ASSUME Unhash(p) PROVE TypeOK'
  <2>1. TypesOfTasks'
    BY <1>4, <1>t DEF Unhash, TypesOfTasks
  <2>2. TypesOfCpus' /\ TypesOfMaps' /\ TypesOfTimers'
    BY <1>4, <1>t DEF Unhash, cpus, flags, maps, TypesOfCpus, TypesOfMaps, TypesOfTimers
  <2> QED
    BY <2>1, <2>2, TypesRestored
<1>5. ASSUME Exit(p) PROVE TypeOK'
  <2>1. TypesOfTasks'
    BY <1>5, <1>t DEF Exit, TypesOfTasks, Places
  <2>2. TypesOfCpus'
    BY <1>5, <1>t DEF Exit, LeaveCpu, Kick, TypesOfTasks, TypesOfCpus
  <2>3. TypesOfMaps'
    BY <1>5, <1>t DEF Exit, TypesOfMaps
  <2>4. EmptyTimer(taskCpu[p]) \in Timers
    BY <1>t DEF TypesOfTasks, EmptyTimer, Timers
  <2>5. TypesOfTimers'
    BY <1>5, <2>4, <1>t DEF Exit, TypesOfTimers
  <2> QED
    BY <2>1, <2>2, <2>3, <2>5, TypesRestored
<1> QED
  BY <1>1, <1>2, <1>3, <1>4, <1>5, EnterExtTypes, SetCpumaskTypes DEF TaskStep

LEMMA CallbackTypes == ASSUME TypeOK, NEW p \in Tasks, Callback(p) PROVE TypeOK'
<1>t. TypesOfTasks /\ TypesOfCpus /\ TypesOfMaps /\ TypesOfTimers
  BY TypeParts
<1>b. /\ [budget[p] EXCEPT !.remain = Budget[p]] \in Timers
      /\ \A q \in Tasks : budget[q] \in Timers /\ rms_timer_cancel(budget[q]) \in Timers
      /\ refresh_timer(sched[p]) \in Timers /\ rms_timer_cancel_self(sched[p]) \in Timers
  BY <1>t, TimerTypes DEF TypesOfTimers
<1>1. ASSUME PeriodCallback(p) PROVE TypeOK'
  <2>1. TypesOfTasks' /\ TypesOfCpus'
    BY <1>1, <1>t DEF PeriodCallback, tasks, Kick, TypesOfTasks, TypesOfCpus
  <2>2. queue' \in [CPUs -> Seq(Tasks)]
    <3>1. Append(queue[AttrCpu[p]], p) \in Seq(Tasks)
      BY <1>t, AppendProperties DEF TypesOfMaps
    <3> QED
      BY <1>1, <1>t, <3>1 DEF PeriodCallback, TypesOfMaps
  <2>3. TypesOfMaps'
    BY <1>1, <1>t, <2>2 DEF PeriodCallback, maps, TypesOfMaps
  <2>4. budget' = [budget EXCEPT ![p] = [budget[p] EXCEPT !.remain = Budget[p]]]
    BY <1>1 DEF PeriodCallback
  <2>5. TypesOfTimers'
    BY <1>1, <1>t, <1>b, <2>4 DEF PeriodCallback, TypesOfTimers
  <2> QED
    BY <2>1, <2>3, <2>5, TypesRestored
<1>2. ASSUME PeriodCallbackExited(p) PROVE TypeOK'
  <2>1. TypesOfTasks' /\ TypesOfCpus'
    BY <1>2, <1>t DEF PeriodCallbackExited, tasks, cpus, TypesOfTasks, TypesOfCpus
  <2>2. TypesOfMaps'
    BY <1>2, <1>t DEF PeriodCallbackExited, flags, maps, TypesOfMaps
  <2>3. TypesOfTimers'
    BY <1>2, <1>t, <1>b DEF PeriodCallbackExited, TypesOfTimers
  <2> QED
    BY <2>1, <2>2, <2>3, TypesRestored
<1>3. ASSUME BudgetCallback(p) PROVE TypeOK'
  <2>1. TypesOfTasks' /\ TypesOfCpus'
    BY <1>3, <1>t DEF BudgetCallback, tasks, Kick, TypesOfTasks, TypesOfCpus
  <2>2. TypesOfMaps'
    BY <1>3, <1>t DEF BudgetCallback, maps, TypesOfMaps
  <2>3. refresh_timer([budget[p] EXCEPT !.remain = Budget[p]]) \in Timers
    BY <1>b, RefreshTypes
  <2>4. budget' \in [Tasks -> Timers]
    BY <1>3, <1>b, <2>3 DEF BudgetCallback
  <2>5. TypesOfTimers'
    BY <1>3, <2>4, <1>t DEF BudgetCallback, TypesOfTimers
  <2> QED
    BY <2>1, <2>2, <2>5, TypesRestored
<1> QED
  BY <1>1, <1>2, <1>3 DEF Callback

LEMMA DispatchStepTypes == ASSUME TypeOK, NEW c \in CPUs, Dispatch(c) PROVE TypeOK'
<1>t. TypesOfTasks /\ TypesOfCpus /\ TypesOfMaps /\ TypesOfTimers
  BY TypeParts
<1>1. queue' \in [CPUs -> Seq(Tasks)]
  <2>1. SubSeq(queue[c], Popped(c) + 1, Len(queue[c])) \in Seq(Tasks)
    BY QueuedPids, DispatchTypes, SubSeqProperties
  <2> QED
    BY <1>t, <2>1 DEF Dispatch, TypesOfMaps
<1>2. TypesOfMaps'
  BY <1>1, <1>t DEF Dispatch, maps, TypesOfMaps
<1>3. TypesOfTimers'
  <2>1. \A p \in Tasks : sched[p] \in Timers /\ RemainOr(sched[p], Period[p]) \in Nat
    BY <1>t, TimerTypes DEF TypesOfTimers
  <2>2. \A p \in Tasks : rms_timer_start(RemainOr(sched[p], Period[p]), Period[p], c) \in Timers
    BY <2>1, StartTypes
  <2> QED
    BY <1>t, <2>1, <2>2 DEF Dispatch, TypesOfTimers
<1> DEFINE queued == [p \in Tasks |-> IF p \in Inserted(c) THEN "queued" ELSE loc[p]]
<1>4. queued \in [Tasks -> Places]
  BY <1>t DEF TypesOfTasks, Places
<1>5. dsq' \in [Tasks -> CPUs]
  BY <1>t DEF Dispatch, TypesOfTasks
<1>6. TypesOfTasks' /\ TypesOfCpus'
  <2>1. CASE First(c) = {}
    <3>1. TypesOfTasks'
      <4>1. loc' = queued /\ UNCHANGED <<taskCpu, mask, hashed>>
        BY <2>1 DEF Dispatch
      <4> HIDE DEF queued
      <4> QED
        BY <1>t, <1>4, <1>5, <4>1 DEF TypesOfTasks
    <3>2. /\ resched' = [resched EXCEPT ![c] = Dispatched(c) # {}]
          /\ phase' = [phase EXCEPT ![c] = IF Dispatched(c) # {} THEN "run" ELSE "put"]
          /\ UNCHANGED <<local, curr>>
      BY <2>1 DEF Dispatch
    <3>3. resched' \in [CPUs -> BOOLEAN]
      <4>1. (Dispatched(c) # {}) \in BOOLEAN
        OBVIOUS
      <4> QED
        BY <1>t, <3>2, <4>1, Zenon DEF TypesOfCpus
    <3> QED
      BY <1>t, <3>1, <3>2, <3>3 DEF TypesOfCpus
  <2>2. CASE First(c) # {}
    <3> PICK p \in First(c) :
          /\ loc' = [queued EXCEPT ![p] = "local"]
          /\ taskCpu' = [taskCpu EXCEPT ![p] = c]
          /\ local' = [local EXCEPT ![c] = <<p>>]
          /\ resched' = [resched EXCEPT ![c] = FALSE]
          /\ phase' = [phase EXCEPT ![c] = "put"]
      BY <2>2 DEF Dispatch
    <3>1. p \in Tasks /\ <<p>> \in Seq(Tasks)
      BY DispatchTypes
    <3>2. TypesOfTasks'
      <4>1. UNCHANGED <<mask, hashed>>
        BY DEF Dispatch
      <4>2. loc' \in [Tasks -> Places]
        <5> HIDE DEF queued
        <5> QED
          BY <1>4, <3>1 DEF Places
      <4> QED
        BY <1>t, <1>5, <3>1, <4>1, <4>2 DEF TypesOfTasks
    <3> QED
      BY <1>t, <3>1, <3>2 DEF Dispatch, TypesOfCpus
  <2> QED
    BY <2>1, <2>2
<1> QED
  BY <1>2, <1>3, <1>6, TypesRestored

LEMMA ScheduleTypes == ASSUME TypeOK, NEW c \in CPUs, Schedule(c) PROVE TypeOK'
<1>t. TypesOfTasks /\ TypesOfCpus /\ TypesOfMaps /\ TypesOfTimers
  BY TypeParts
<1>1. ASSUME SkipDispatch(c) PROVE TypeOK'
  <2>1. TypesOfTasks' /\ TypesOfMaps' /\ TypesOfTimers'
    BY <1>1, <1>t DEF SkipDispatch, tasks, flags, maps, TypesOfTasks, TypesOfMaps, TypesOfTimers
  <2>2. TypesOfCpus'
    BY <1>1, <1>t DEF SkipDispatch, TypesOfCpus
  <2> QED
    BY <2>1, <2>2, TypesRestored
<1>2. ASSUME PutPrev(c) PROVE TypeOK'
  <2>1. loc' \in [Tasks -> Places] /\ dsq' \in [Tasks -> CPUs]
    <3>1. CASE curr[c] = NoTask
      BY <1>2, <1>t, <3>1 DEF PutPrev, TypesOfTasks
    <3>2. CASE curr[c] # NoTask
      <4>1. curr[c] \in Tasks /\ rms_enqueue(curr[c], c)
        BY <1>2, <1>t, <3>2 DEF PutPrev, TypesOfCpus
      <4> QED
        BY <1>t, <4>1, EnqueueTypes
    <3> QED
      BY <3>1, <3>2
  <2>2. TypesOfTasks'
    BY <1>2, <1>t, <2>1 DEF PutPrev, TypesOfTasks
  <2>3. TypesOfCpus'
    BY <1>2, <1>t DEF PutPrev, TypesOfCpus
  <2>4. TypesOfMaps' /\ TypesOfTimers'
    BY <1>2, <1>t DEF PutPrev, flags, maps, TypesOfMaps, TypesOfTimers
  <2> QED
    BY <2>2, <2>3, <2>4, TypesRestored
<1>3. ASSUME PickNext(c) PROVE TypeOK'
  <2>0. TypesOfMaps'
    BY <1>3, <1>t DEF PickNext, flags, maps, TypesOfMaps
  <2>1. CASE local[c] = <<>>
    BY <1>3, <1>t, <2>0, <2>1, TypesRestored
       DEF PickNext, TypesOfTasks, TypesOfCpus, TypesOfTimers
  <2>2. CASE local[c] # <<>>
    <3> DEFINE p == Head(local[c])
    <3>1. p \in Tasks /\ Tail(local[c]) \in Seq(Tasks)
      BY <2>2, LocalTasks, HeadTailProperties
    <3>2. /\ loc' = [loc EXCEPT ![p] = "running"]
          /\ curr' = [curr EXCEPT ![c] = p]
          /\ local' = [local EXCEPT ![c] = Tail(local[c])]
          /\ budget' = rms_running(p, c, budget, timed)
          /\ phase' = [phase EXCEPT ![c] = "run"]
          /\ UNCHANGED <<taskCpu, mask, dsq, hashed, resched, sched>>
      BY <1>3, <2>2 DEF PickNext
    <3> HIDE DEF p
    <3>3. TypesOfTasks'
      BY <1>t, <3>1, <3>2 DEF TypesOfTasks, Places
    <3>4. TypesOfCpus'
      BY <1>t, <3>1, <3>2 DEF TypesOfCpus
    <3>5. TypesOfTimers'
      BY <1>t, <3>1, <3>2, RunningTypes DEF TypesOfTimers
    <3> QED
      BY <2>0, <3>3, <3>4, <3>5, TypesRestored
  <2> QED
    BY <2>1, <2>2
<1> QED
  BY <1>1, <1>2, <1>3, DispatchStepTypes DEF Schedule

LEMMA TypeStep == TypeOK /\ [Next]_vars => TypeOK'
<1> SUFFICES ASSUME TypeOK, [Next]_vars PROVE TypeOK'
  OBVIOUS
<1>t. TypesOfTasks /\ TypesOfCpus /\ TypesOfMaps /\ TypesOfTimers
  BY TypeParts
<1>1. CASE Tick
  <2>1. TypesOfTasks' /\ TypesOfCpus' /\ TypesOfMaps'
    BY <1>1, <1>t
       DEF Tick, tasks, cpus, flags, maps, TypesOfTasks, TypesOfCpus, TypesOfMaps
  <2>2. \A p \in Tasks : Elapsed(sched[p]) \in Timers /\ Elapsed(budget[p]) \in Timers
    BY <1>t, TimerTypes DEF TypesOfTimers
  <2>3. TypesOfTimers'
    BY <1>1, <2>2 DEF Tick, TypesOfTimers
  <2> QED
    BY <2>1, <2>3, TypesRestored
<1>2. CASE UNCHANGED vars
  BY <1>2, <1>t, TypesRestored
     DEF vars, tasks, cpus, flags, maps,
         TypesOfTasks, TypesOfCpus, TypesOfMaps, TypesOfTimers
<1> QED
  BY <1>1, <1>2, TaskStepTypes, CallbackTypes, ScheduleTypes DEF Next

(* Every handler and callback of scx_rms.bpf.c keeps the maps, the timers  *)
(* and the kernel's view of tasks and CPUs well typed.                     *)
THEOREM TypeCorrect == Spec => []TypeOK
<1>1. Init => TypeOK
  BY InitTypes
<1>2. TypeOK /\ [Next]_vars => TypeOK'
  BY TypeStep
<1> QED
  BY <1>1, <1>2, PTL DEF Spec

-----------------------------------------------------------------------------
(* Where a task is agrees with the CPUs, the local DSQs and the maps.      *)

Fate ==
  \A p \in Tasks :
    /\ loc[p] # "dead" => p \in admitted
    /\ loc[p] \notin {"dead", "fair"} => p \in timed
    /\ p \notin Exiters => loc[p] # "dead" /\ p \in hashed

CurrRuns ==
  /\ \A c \in CPUs : curr[c] # NoTask => loc[curr[c]] = "running" /\ taskCpu[curr[c]] = c
  /\ \A p \in Tasks : loc[p] = "running" => curr[taskCpu[p]] = p
  /\ \A c \in CPUs : phase[c] = "pick" => curr[c] = NoTask

LocalWaits ==
  \A c \in CPUs : \A i \in 1 .. Len(local[c]) :
    /\ loc[local[c][i]] = "local" /\ taskCpu[local[c][i]] = c
    /\ \A j \in 1 .. Len(local[c]) : local[c][i] = local[c][j] => i = j

Structure == Fate /\ CurrRuns /\ LocalWaits

(* No task changes its place.                                              *)
LEMMA StructureStill ==
  ASSUME TypeOK, Structure,
         UNCHANGED <<loc, taskCpu, local, curr, maps>>,
         hashed \ Exiters \subseteq hashed',
         \A c \in CPUs : phase'[c] = "pick" => phase[c] = "pick"
  PROVE  Structure'
<1>1. Fate'
  BY DEF Structure, Fate, maps
<1>2. CurrRuns'
  BY DEF Structure, CurrRuns
<1>3. LocalWaits'
  BY DEF Structure, LocalWaits
<1> QED
  BY <1>1, <1>2, <1>3 DEF Structure

LEMMA LocalKept ==
  ASSUME TypeOK, LocalWaits, UNCHANGED local,
         \A q \in Tasks : loc[q] = "local" => loc'[q] = "local" /\ taskCpu'[q] = taskCpu[q]
  PROVE  LocalWaits'
<1> SUFFICES ASSUME NEW c \in CPUs, NEW i \in 1 .. Len(local[c])
             PROVE  /\ loc'[local[c][i]] = "local" /\ taskCpu'[local[c][i]] = c
                    /\ \A j \in 1 .. Len(local[c]) : local[c][i] = local[c][j] => i = j
  BY DEF LocalWaits
<1>1. local[c][i] \in Tasks
  BY LocalTasks
<1> QED
  BY <1>1 DEF LocalWaits

(* A task that is neither in a local DSQ nor outside the class goes to a   *)
(* place that is no CPU and no local DSQ.                                  *)
LEMMA StructureMoved ==
  ASSUME TypeOK, Structure, NEW p \in Tasks, NEW x, NEW c \in CPUs,
         loc[p] \notin {"local", "fair", "dead"},
         loc' = [loc EXCEPT ![p] = x],
         x \notin {"local", "running", "fair"},
         taskCpu' = [taskCpu EXCEPT ![p] = c],
         \A d \in CPUs : curr'[d] = IF curr[d] = p THEN NoTask ELSE curr[d],
         \A d \in CPUs : phase'[d] = "pick" => phase[d] = "pick" \/ curr'[d] = NoTask,
         UNCHANGED <<local, hashed>>,
         \/ x # "dead" /\ UNCHANGED maps
         \/ x = "dead" /\ p \in Exiters /\ admitted' = admitted \ {p} /\ timed' = timed \ {p}
  PROVE  Structure'
<1>t. /\ loc \in [Tasks -> Places] /\ taskCpu \in [Tasks -> CPUs]
      /\ curr \in [CPUs -> Tasks \cup {NoTask}]
  BY DEF TypeOK
<1>1. Fate'
  BY <1>t DEF Structure, Fate, maps
<1>2. CurrRuns'
  <2>1. ASSUME NEW d \in CPUs, curr'[d] # NoTask
        PROVE  loc'[curr'[d]] = "running" /\ taskCpu'[curr'[d]] = d
    BY <1>t, <2>1 DEF Structure, CurrRuns
  <2>2. ASSUME NEW q \in Tasks, loc'[q] = "running" PROVE curr'[taskCpu'[q]] = q
    BY <1>t, <2>2 DEF Structure, CurrRuns
  <2>3. ASSUME NEW d \in CPUs, phase'[d] = "pick" PROVE curr'[d] = NoTask
    BY <2>3 DEF Structure, CurrRuns
  <2> QED
    BY <2>1, <2>2, <2>3 DEF CurrRuns
<1>3. LocalWaits'
  <2>1. \A q \in Tasks : loc[q] = "local" => loc'[q] = "local" /\ taskCpu'[q] = taskCpu[q]
    BY <1>t
  <2>2. LocalWaits
    BY DEF Structure
  <2> QED
    BY <2>1, <2>2, LocalKept
<1> QED
  BY <1>1, <1>2, <1>3 DEF Structure

LEMMA StructureEnter ==
  ASSUME TypeOK, Structure, NEW p \in Tasks, EnterExt(p) PROVE Structure'
<1> PICK c \in mask[p] :
      /\ loc[p] = "fair" /\ phase[c] = "run"
      /\ timed' = timed \cup {p}
      /\ taskCpu' = [taskCpu EXCEPT ![p] = c]
      /\ curr' = [curr EXCEPT ![c] = p]
      /\ IF curr[c] = NoTask
         THEN loc' = [loc EXCEPT ![p] = "running"] /\ UNCHANGED local
         ELSE /\ loc' = [loc EXCEPT ![p] = "running", ![curr[c]] = "local"]
              /\ local' = [local EXCEPT ![c] = <<curr[c]>> \o @]
      /\ UNCHANGED <<hashed, phase, admitted>>
  BY DEF EnterExt
<1>t. /\ loc \in [Tasks -> Places] /\ taskCpu \in [Tasks -> CPUs]
      /\ curr \in [CPUs -> Tasks \cup {NoTask}] /\ local \in [CPUs -> Seq(Tasks)]
      /\ c \in CPUs
  BY DEF TypeOK
<1>1. CASE curr[c] = NoTask
  <2>0. loc' = [loc EXCEPT ![p] = "running"] /\ UNCHANGED local
    BY <1>1
  <2>1. Fate'
    BY <1>t, <2>0 DEF Structure, Fate
  <2>2. CurrRuns'
    BY <1>t, <1>1, <2>0 DEF Structure, CurrRuns
  <2>3. LocalWaits'
    <3>1. LocalWaits /\ UNCHANGED local
      BY <2>0 DEF Structure
    <3>2. \A q \in Tasks : loc[q] = "local" => loc'[q] = "local" /\ taskCpu'[q] = taskCpu[q]
      BY <1>t, <2>0
    <3> QED
      BY <3>1, <3>2, LocalKept
  <2> QED
    BY <2>1, <2>2, <2>3 DEF Structure
<1>2. CASE curr[c] # NoTask
  <2> DEFINE r == curr[c]
  <2>0. /\ loc' = [loc EXCEPT ![p] = "running", ![r] = "local"]
        /\ local' = [local EXCEPT ![c] = <<r>> \o @]
        /\ r \in Tasks /\ loc[r] = "running" /\ taskCpu[r] = c /\ r # p
    BY <1>t, <1>2 DEF Structure, CurrRuns
  <2>a. curr' = [curr EXCEPT ![c] = p] /\ curr[c] = r
    OBVIOUS
  <2> HIDE DEF r
  <2>1. Fate'
    BY <1>t, <2>0 DEF Structure, Fate
  <2>2. CurrRuns'
    <3>1. ASSUME NEW d \in CPUs, curr'[d] # NoTask
          PROVE  loc'[curr'[d]] = "running" /\ taskCpu'[curr'[d]] = d
      BY <1>t, <2>0, <2>a, <3>1 DEF Structure, CurrRuns
    <3>2. ASSUME NEW q \in Tasks, loc'[q] = "running" PROVE curr'[taskCpu'[q]] = q
      BY <1>t, <2>0, <2>a, <3>2 DEF Structure, CurrRuns
    <3>3. ASSUME NEW d \in CPUs, phase'[d] = "pick" PROVE curr'[d] = NoTask
      BY <1>t, <3>3 DEF Structure, CurrRuns
    <3> QED
      BY <3>1, <3>2, <3>3 DEF CurrRuns
  <2>3. LocalWaits'
    <3> SUFFICES ASSUME NEW d \in CPUs, NEW i \in 1 .. Len(local'[d])
                 PROVE  /\ loc'[local'[d][i]] = "local" /\ taskCpu'[local'[d][i]] = d
                        /\ \A j \in 1 .. Len(local'[d]) :
                             local'[d][i] = local'[d][j] => i = j
      BY DEF LocalWaits
    <3>1. ASSUME NEW e \in CPUs, NEW k \in 1 .. Len(local[e])
          PROVE  /\ local[e][k] \in Tasks /\ loc[local[e][k]] = "local"
                 /\ taskCpu[local[e][k]] = e
                 /\ loc'[local[e][k]] = "local" /\ taskCpu'[local[e][k]] = e
      <4>1. local[e][k] \in Tasks
        BY LocalTasks
      <4>2. loc[local[e][k]] = "local" /\ taskCpu[local[e][k]] = e
        BY DEF Structure, LocalWaits
      <4>3. local[e][k] # p /\ local[e][k] # r
        BY <2>0, <4>2
      <4> QED
        BY <1>t, <2>0, <4>1, <4>2, <4>3
    <3>2. CASE d # c
      <4>1. local'[d] = local[d]
        BY <1>t, <2>0, <3>2
      <4>2. \A j \in 1 .. Len(local[d]) : local[d][i] = local[d][j] => i = j
        BY <4>1 DEF Structure, LocalWaits
      <4> QED
        BY <3>1, <4>1, <4>2
    <3>3. CASE d = c
      <4>1. /\ <<r>> \in Seq(Tasks) /\ local[c] \in Seq(Tasks)
            /\ local'[c] = <<r>> \o local[c]
        BY <1>t, <2>0
      <4>2. /\ Len(local'[c]) = Len(local[c]) + 1
            /\ local'[c][1] = r
            /\ \A k \in 2 .. Len(local[c]) + 1 : local'[c][k] = local[c][k - 1]
            /\ Len(local[c]) \in Nat
        BY <4>1, ConcatProperties, LenProperties
      <4>3. loc'[r] = "local" /\ taskCpu'[r] = c /\ loc[r] # "local"
        BY <1>t, <2>0
      <4>4. ASSUME NEW k \in 2 .. Len(local[c]) + 1
            PROVE  /\ k - 1 \in 1 .. Len(local[c]) /\ local'[c][k] # r
                   /\ loc'[local'[c][k]] = "local" /\ taskCpu'[local'[c][k]] = c
        <5>1. k - 1 \in 1 .. Len(local[c])
          BY <4>2
        <5>2. local'[c][k] = local[c][k - 1]
          BY <4>2
        <5>3. /\ loc'[local[c][k - 1]] = "local" /\ taskCpu'[local[c][k - 1]] = c
              /\ loc[local[c][k - 1]] = "local"
          <6> DEFINE n == k - 1
          <6>1. n \in 1 .. Len(local[c]) /\ c \in CPUs
            BY <1>t, <5>1
          <6> HIDE DEF n
          <6>2. /\ loc'[local[c][n]] = "local" /\ taskCpu'[local[c][n]] = c
                /\ loc[local[c][n]] = "local"
            BY <3>1, <6>1
          <6> QED
            BY <6>2 DEF n
        <5> QED
          BY <4>3, <5>1, <5>2, <5>3
      <4>8. \A a, b \in 1 .. Len(local[c]) : local[c][a] = local[c][b] => a = b
        BY <1>t DEF Structure, LocalWaits
      <4>5. \A k \in 1 .. Len(local'[c]) : k = 1 \/ k \in 2 .. Len(local[c]) + 1
        BY <4>2
      <4>6. loc'[local'[c][i]] = "local" /\ taskCpu'[local'[c][i]] = c
        <5>1. CASE i = 1
          BY <4>2, <4>3, <5>1
        <5>2. CASE i \in 2 .. Len(local[c]) + 1
          BY <4>4, <5>2
        <5> QED
          BY <3>3, <4>5, <5>1, <5>2
      <4>7. ASSUME NEW j \in 1 .. Len(local'[c]), local'[c][i] = local'[c][j] PROVE i = j
        <5>1. CASE i = 1 \/ j = 1
          BY <3>3, <4>2, <4>4, <4>5, <4>7, <5>1
        <5>2. CASE i # 1 /\ j # 1
          <6>1. local[c][i - 1] = local[c][j - 1]
            BY <3>3, <4>2, <4>5, <4>7, <5>2
          <6>2. i - 1 \in 1 .. Len(local[c]) /\ j - 1 \in 1 .. Len(local[c])
            BY <3>3, <4>4, <4>5, <5>2
          <6>3. i - 1 = j - 1
            BY <4>8, <6>1, <6>2
          <6> QED
            BY <3>3, <4>2, <6>3
        <5> QED
          BY <5>1, <5>2
      <4> QED
        BY <3>3, <4>6, <4>7
    <3> QED
      BY <3>2, <3>3
  <2> QED
    BY <2>1, <2>2, <2>3 DEF Structure
<1> QED
  BY <1>1, <1>2

LEMMA StructureDispatch ==
  ASSUME TypeOK, Structure, NEW c \in CPUs, Dispatch(c) PROVE Structure'
<1>t. /\ loc \in [Tasks -> Places] /\ taskCpu \in [Tasks -> CPUs]
      /\ curr \in [CPUs -> Tasks \cup {NoTask}] /\ local \in [CPUs -> Seq(Tasks)]
      /\ phase \in [CPUs -> {"run", "put", "pick"}]
  BY DEF TypeOK
<1>a. UNCHANGED <<hashed, curr, admitted, timed>> /\ local[c] = <<>> /\ phase[c] = "run"
  BY DEF Dispatch, maps
<1> DEFINE queued == [p \in Tasks |-> IF p \in Inserted(c) THEN "queued" ELSE loc[p]]
<1>b. \A p \in Tasks : queued[p] = loc[p] \/ (loc[p] = "limbo" /\ queued[p] = "queued")
  BY DEF Inserted
<1>c. DOMAIN queued = Tasks
  OBVIOUS
<1>1. CASE First(c) = {}
  <2>1. loc' = queued /\ UNCHANGED <<taskCpu, local>>
    BY <1>1 DEF Dispatch
  <2>2. phase' = [phase EXCEPT ![c] = IF Dispatched(c) # {} THEN "run" ELSE "put"]
    BY <1>1 DEF Dispatch
  <2> HIDE DEF queued
  <2>3. Fate'
    BY <1>a, <1>b, <2>1 DEF Structure, Fate
  <2>4. CurrRuns'
    BY <1>t, <1>a, <1>b, <2>1, <2>2 DEF Structure, CurrRuns
  <2>5. LocalWaits /\ \A q \in Tasks : loc[q] = "local" => loc'[q] = "local"
    BY <1>b, <2>1 DEF Structure
  <2>6. LocalWaits'
    BY <2>1, <2>5, LocalKept
  <2> QED
    BY <2>3, <2>4, <2>6 DEF Structure
<1>2. CASE First(c) # {}
  <2> PICK p \in First(c) :
        /\ loc' = [queued EXCEPT ![p] = "local"]
        /\ taskCpu' = [taskCpu EXCEPT ![p] = c]
        /\ local' = [local EXCEPT ![c] = <<p>>]
        /\ phase' = [phase EXCEPT ![c] = "put"]
    BY <1>2 DEF Dispatch
  <2>1. p \in Tasks /\ loc[p] \in {"queued", "limbo"}
    BY DispatchTypes DEF First, Inserted
  <2> HIDE DEF queued
  <2>2. loc'[p] = "local" /\ \A q \in Tasks \ {p} : loc'[q] = queued[q]
    BY <1>c, <2>1
  <2>3. Fate'
    BY <1>a, <1>b, <2>1, <2>2 DEF Structure, Fate
  <2>4. CurrRuns'
    <3>1. ASSUME NEW d \in CPUs, curr[d] # NoTask
          PROVE  loc'[curr[d]] = "running" /\ taskCpu'[curr[d]] = d
      <4>1. curr[d] \in Tasks /\ loc[curr[d]] = "running" /\ taskCpu[curr[d]] = d
        BY <1>t, <3>1 DEF Structure, CurrRuns
      <4> QED
        BY <1>b, <1>t, <2>1, <2>2, <4>1
    <3>2. ASSUME NEW q \in Tasks, loc'[q] = "running" PROVE curr[taskCpu'[q]] = q
      BY <1>b, <1>t, <2>1, <2>2, <3>2 DEF Structure, CurrRuns
    <3>3. ASSUME NEW d \in CPUs, phase'[d] = "pick" PROVE curr[d] = NoTask
      BY <1>t, <3>3 DEF Structure, CurrRuns
    <3> QED
      BY <1>a, <3>1, <3>2, <3>3 DEF CurrRuns
  <2>5. LocalWaits'
    <3> SUFFICES ASSUME NEW d \in CPUs, NEW i \in 1 .. Len(local'[d])
                 PROVE  /\ loc'[local'[d][i]] = "local" /\ taskCpu'[local'[d][i]] = d
                        /\ \A j \in 1 .. Len(local'[d]) :
                             local'[d][i] = local'[d][j] => i = j
      BY DEF LocalWaits
    <3>1. CASE d = c
      <4>1. local'[c] = <<p>>
        BY <1>t
      <4> QED
        BY <1>t, <2>1, <2>2, <3>1, <4>1
    <3>2. CASE d # c
      <4>1. local'[d] = local[d]
        BY <1>t, <3>2
      <4>2. /\ loc[local[d][i]] = "local" /\ taskCpu[local[d][i]] = d
            /\ \A j \in 1 .. Len(local[d]) : local[d][i] = local[d][j] => i = j
        BY <4>1 DEF Structure, LocalWaits
      <4>3. local[d][i] \in Tasks
        BY <4>1, LocalTasks
      <4>4. local[d][i] # p
        BY <2>1, <4>2
      <4> QED
        BY <1>b, <1>t, <2>2, <4>1, <4>2, <4>3, <4>4
    <3> QED
      BY <3>1, <3>2
  <2> QED
    BY <2>3, <2>4, <2>5 DEF Structure
<1> QED
  BY <1>1, <1>2

(* The head of a local DSQ and what remains of the DSQ without it.         *)
LEMMA LocalHead ==
  ASSUME TypeOK, Structure, NEW c \in CPUs, local[c] # <<>>
  PROVE  /\ Head(local[c]) \in Tasks /\ Tail(local[c]) \in Seq(Tasks)
         /\ loc[Head(local[c])] = "local" /\ taskCpu[Head(local[c])] = c
         /\ \A i \in 1 .. Len(Tail(local[c])) :
              /\ i + 1 \in 1 .. Len(local[c])
              /\ Tail(local[c])[i] = local[c][i + 1]
              /\ Tail(local[c])[i] # Head(local[c])
<1>1. local[c] \in Seq(Tasks) /\ Len(local[c]) \in Nat
  BY LocalTasks
<1>2. Head(local[c]) \in Tasks /\ Tail(local[c]) \in Seq(Tasks)
  BY <1>1, HeadTailProperties
<1>3. /\ Len(Tail(local[c])) = Len(local[c]) - 1 /\ Head(local[c]) = local[c][1]
      /\ \A i \in 1 .. Len(Tail(local[c])) : Tail(local[c])[i] = local[c][i + 1]
  BY <1>1, HeadTailProperties
<1>4. Len(local[c]) > 0
  BY <1>1, EmptySeq
<1>5. 1 \in 1 .. Len(local[c])
  BY <1>1, <1>4
<1>6. loc[local[c][1]] = "local" /\ taskCpu[local[c][1]] = c
  BY <1>5 DEF Structure, LocalWaits
<1>7. ASSUME NEW i \in 1 .. Len(Tail(local[c]))
      PROVE  i + 1 \in 1 .. Len(local[c]) /\ local[c][i + 1] # local[c][1]
  <2>1. i + 1 \in 1 .. Len(local[c]) /\ i + 1 # 1
    BY <1>1, <1>3
  <2>2. \A a, b \in 1 .. Len(local[c]) : local[c][a] = local[c][b] => a = b
    BY DEF Structure, LocalWaits
  <2> QED
    BY <1>5, <2>1, <2>2
<1> QED
  BY <1>2, <1>3, <1>6, <1>7

LEMMA StructurePick ==
  ASSUME TypeOK, Structure, NEW c \in CPUs, PickNext(c) PROVE Structure'
<1>t. /\ loc \in [Tasks -> Places] /\ taskCpu \in [Tasks -> CPUs]
      /\ curr \in [CPUs -> Tasks \cup {NoTask}] /\ local \in [CPUs -> Seq(Tasks)]
      /\ phase \in [CPUs -> {"run", "put", "pick"}]
  BY DEF TypeOK
<1>a. /\ UNCHANGED <<hashed, admitted, timed, taskCpu>>
      /\ phase' = [phase EXCEPT ![c] = "run"]
      /\ curr[c] = NoTask
  BY DEF PickNext, maps, Structure, CurrRuns
<1>1. CASE local[c] = <<>>
  <2>1. UNCHANGED <<loc, local, curr>>
    BY <1>1 DEF PickNext
  <2>2. \A d \in CPUs : phase'[d] = "pick" => phase[d] = "pick"
    BY <1>a, <1>t
  <2>3. UNCHANGED maps
    BY DEF PickNext
  <2> QED
    BY <1>a, <2>1, <2>2, <2>3, StructureStill
<1>2. CASE local[c] # <<>>
  <2> DEFINE p == Head(local[c])
             rest == Tail(local[c])
  <2>1. /\ p \in Tasks /\ rest \in Seq(Tasks) /\ loc[p] = "local" /\ taskCpu[p] = c
        /\ \A i \in 1 .. Len(rest) :
             i + 1 \in 1 .. Len(local[c]) /\ rest[i] = local[c][i + 1] /\ rest[i] # p
    BY <1>2, LocalHead
  <2>2. /\ loc' = [loc EXCEPT ![p] = "running"]
        /\ curr' = [curr EXCEPT ![c] = p]
        /\ local' = [local EXCEPT ![c] = rest]
    BY <1>2 DEF PickNext
  <2> HIDE DEF p, rest
  <2>3. Fate'
    BY <1>t, <1>a, <2>1, <2>2 DEF Structure, Fate
  <2>4. CurrRuns'
    BY <1>t, <1>a, <2>1, <2>2 DEF Structure, CurrRuns
  <2>5. LocalWaits'
    <3> SUFFICES ASSUME NEW d \in CPUs, NEW i \in 1 .. Len(local'[d])
                 PROVE  /\ loc'[local'[d][i]] = "local" /\ taskCpu'[local'[d][i]] = d
                        /\ \A j \in 1 .. Len(local'[d]) :
                             local'[d][i] = local'[d][j] => i = j
      BY DEF LocalWaits
    <3>0. \A e \in CPUs : \A a, b \in 1 .. Len(local[e]) : local[e][a] = local[e][b] => a = b
      BY DEF Structure, LocalWaits
    <3>1. CASE d = c
      <4>1. local'[c] = rest
        BY <1>t, <2>2
      <4>2. i \in 1 .. Len(rest)
        BY <3>1, <4>1
      <4> DEFINE n == i + 1
      <4>3. n \in 1 .. Len(local[c]) /\ rest[i] = local[c][n] /\ rest[i] # p
        BY <2>1, <4>2
      <4>4. ASSUME NEW j \in 1 .. Len(rest), rest[i] = rest[j] PROVE i = j
        <5>1. /\ i + 1 \in 1 .. Len(local[c]) /\ rest[i] = local[c][i + 1]
              /\ j + 1 \in 1 .. Len(local[c]) /\ rest[j] = local[c][j + 1]
          BY <2>1, <4>2
        <5>2. i + 1 = j + 1
          BY <3>0, <4>4, <5>1
        <5>3. i \in Int /\ j \in Int
          BY <4>2
        <5> QED
          BY <5>2, <5>3
      <4> HIDE DEF n
      <4>5. loc[local[c][n]] = "local" /\ taskCpu[local[c][n]] = c /\ local[c][n] \in Tasks
        BY <4>3, LocalTasks DEF Structure, LocalWaits
      <4> QED
        BY <1>t, <1>a, <2>2, <3>1, <4>1, <4>3, <4>4, <4>5
    <3>2. CASE d # c
      <4>1. local'[d] = local[d]
        BY <1>t, <2>2, <3>2
      <4>2. loc[local[d][i]] = "local" /\ taskCpu[local[d][i]] = d /\ local[d][i] \in Tasks
        BY <4>1, LocalTasks DEF Structure, LocalWaits
      <4>3. local[d][i] # p
        BY <2>1, <3>2, <4>2
      <4>4. loc'[local[d][i]] = "local" /\ taskCpu'[local[d][i]] = d
        BY <1>t, <1>a, <2>2, <4>2, <4>3
      <4>5. i \in 1 .. Len(local[d])
        BY <4>1
      <4>6. \A j \in 1 .. Len(local[d]) : local[d][i] = local[d][j] => i = j
        BY <3>0, <4>5
      <4> QED
        BY <4>1, <4>4, <4>6
    <3> QED
      BY <3>1, <3>2
  <2> QED
    BY <2>3, <2>4, <2>5 DEF Structure
<1> QED
  BY <1>1, <1>2

(* rms_enqueue refuses a task that yielded, and no other in the maps.      *)
LEMMA EnqueueMoves ==
  ASSUME TypeOK, NEW p \in Tasks, NEW c \in CPUs, rms_enqueue(p, c)
  PROVE  /\ loc' = [loc EXCEPT ![p] = loc'[p]]
         /\ loc'[p] \in {"queued", "limbo"}
         /\ loc'[p] = "limbo" => p \notin admitted \ is_yield
<1>1. loc \in [Tasks -> Places]
  BY DEF TypeOK
<1>2. CASE p \in admitted \ is_yield
  <2>1. loc' = [loc EXCEPT ![p] = "queued"]
    BY <1>2 DEF rms_enqueue
  <2> QED
    BY <1>1, <2>1
<1>3. CASE p \notin admitted \ is_yield
  <2>1. loc' = [loc EXCEPT ![p] = "limbo"]
    BY <1>3 DEF rms_enqueue
  <2> QED
    BY <1>1, <1>3, <2>1
<1> QED
  BY <1>2, <1>3

(* The task that leaves its CPU was the current one.                       *)
LEMMA LeaveMoves ==
  ASSUME TypeOK, Structure, NEW p \in Tasks, IsCurrent(p), LeaveCpu(taskCpu[p])
  PROVE  /\ curr[taskCpu[p]] = p
         /\ \A d \in CPUs : curr'[d] = IF curr[d] = p THEN NoTask ELSE curr[d]
         /\ resched' = [resched EXCEPT ![taskCpu[p]] = TRUE]
         /\ UNCHANGED <<local, phase>>
<1>1. curr \in [CPUs -> Tasks \cup {NoTask}] /\ taskCpu \in [Tasks -> CPUs]
  BY DEF TypeOK
<1>2. curr[taskCpu[p]] = p /\ \A d \in CPUs : curr[d] = p => d = taskCpu[p]
  BY DEF IsCurrent, Structure, CurrRuns
<1> QED
  BY <1>1, <1>2 DEF LeaveCpu, Kick

LEMMA StructureTaskStep ==
  ASSUME TypeOK, Structure, NEW p \in Tasks, TaskStep(p) PROVE Structure'
<1>t. /\ loc \in [Tasks -> Places] /\ taskCpu \in [Tasks -> CPUs] /\ mask \in [Tasks -> SUBSET CPUs]
      /\ curr \in [CPUs -> Tasks \cup {NoTask}]
      /\ p \in Tasks /\ taskCpu[p] \in CPUs
      /\ taskCpu = [taskCpu EXCEPT ![p] = taskCpu[p]]
  BY DEF TypeOK
<1>1. ASSUME Yield(p) PROVE Structure'
  BY <1>1, StructureStill DEF Yield, tasks
<1>2. ASSUME Unhash(p) PROVE Structure'
  BY <1>2, StructureStill DEF Unhash, cpus
<1>3. ASSUME Block(p) PROVE Structure'
  <2>1. /\ IsCurrent(p) /\ LeaveCpu(taskCpu[p]) /\ loc[p] = "running"
        /\ loc' = [loc EXCEPT ![p] = "blocked"]
        /\ UNCHANGED <<taskCpu, hashed, maps>>
    BY <1>3 DEF Block, Calls, IsCurrent
  <2>2. /\ \A d \in CPUs : curr'[d] = IF curr[d] = p THEN NoTask ELSE curr[d]
        /\ UNCHANGED <<local, phase>>
    BY <2>1, LeaveMoves
  <2> DEFINE c == taskCpu[p]
  <2>3. c \in CPUs /\ taskCpu' = [taskCpu EXCEPT ![p] = c]
    BY <1>t, <2>1
  <2> HIDE DEF c
  <2> QED
    BY <2>1, <2>2, <2>3, StructureMoved
<1>4. ASSUME Leave(p) PROVE Structure'
  <2>1. /\ IsCurrent(p) /\ LeaveCpu(taskCpu[p]) /\ loc[p] = "running"
        /\ loc' = [loc EXCEPT ![p] = "left"]
        /\ UNCHANGED <<taskCpu, hashed, maps>>
    BY <1>4 DEF Leave, Calls, IsCurrent
  <2>2. /\ \A d \in CPUs : curr'[d] = IF curr[d] = p THEN NoTask ELSE curr[d]
        /\ UNCHANGED <<local, phase>>
    BY <2>1, LeaveMoves
  <2> DEFINE c == taskCpu[p]
  <2>3. c \in CPUs /\ taskCpu' = [taskCpu EXCEPT ![p] = c]
    BY <1>t, <2>1
  <2> HIDE DEF c
  <2> QED
    BY <2>1, <2>2, <2>3, StructureMoved
<1>5. ASSUME Exit(p) PROVE Structure'
  <2>1. /\ IsCurrent(p) /\ LeaveCpu(taskCpu[p]) /\ loc[p] = "running"
        /\ loc' = [loc EXCEPT ![p] = "dead"] /\ p \in Exiters
        /\ admitted' = admitted \ {p} /\ timed' = timed \ {p}
        /\ UNCHANGED <<taskCpu, hashed>>
    BY <1>5 DEF Exit, Calls, IsCurrent
  <2>2. /\ \A d \in CPUs : curr'[d] = IF curr[d] = p THEN NoTask ELSE curr[d]
        /\ UNCHANGED <<local, phase>>
    BY <2>1, LeaveMoves
  <2> DEFINE c == taskCpu[p]
  <2>3. c \in CPUs /\ taskCpu' = [taskCpu EXCEPT ![p] = c]
    BY <1>t, <2>1
  <2> HIDE DEF c
  <2> QED
    BY <2>1, <2>2, <2>3, StructureMoved
<1>6. ASSUME Wake(p) PROVE Structure'
  <2> PICK c \in rms_select_cpu(p), cur \in CPUs :
        /\ loc[p] = "blocked"
        /\ Activate(p, c, cur)
        /\ UNCHANGED <<hashed, local, curr, phase, maps>>
    BY <1>6 DEF Wake
  <2>1. c \in CPUs
    BY <1>t DEF rms_select_cpu
  <2>2. /\ loc' = [loc EXCEPT ![p] = loc'[p]] /\ loc'[p] \in {"queued", "limbo"}
        /\ taskCpu' = [taskCpu EXCEPT ![p] = c]
    BY <2>1, EnqueueMoves DEF Activate
  <2>3. \A d \in CPUs : curr'[d] = IF curr[d] = p THEN NoTask ELSE curr[d]
    BY <1>t DEF Structure, CurrRuns
  <2> DEFINE x == loc'[p]
  <2>4. loc' = [loc EXCEPT ![p] = x] /\ x \in {"queued", "limbo"}
    BY <2>2
  <2> HIDE DEF x
  <2> QED
    BY <2>1, <2>2, <2>3, <2>4, StructureMoved
<1>7. ASSUME SetCpumask(p) PROVE Structure'
  <2> PICK m \in SUBSET CPUs \ {{}}, cur \in CPUs :
        /\ loc[p] \in {"queued", "limbo", "blocked", "running"}
        /\ IF loc[p] = "blocked"
           THEN UNCHANGED <<loc, dsq, taskCpu, curr, resched>>
           ELSE \E c \in m :
                  /\ rms_enqueue(p, c)
                  /\ taskCpu' = [taskCpu EXCEPT ![p] = c]
                  /\ curr' = [d \in CPUs |-> IF curr[d] = p THEN NoTask ELSE curr[d]]
        /\ UNCHANGED <<hashed, local, phase, maps>>
    BY <1>7 DEF SetCpumask
  <2>1. CASE loc[p] = "blocked"
    BY <2>1, StructureStill
  <2>2. CASE loc[p] # "blocked"
    <3> PICK c \in m :
          /\ rms_enqueue(p, c)
          /\ taskCpu' = [taskCpu EXCEPT ![p] = c]
          /\ curr' = [d \in CPUs |-> IF curr[d] = p THEN NoTask ELSE curr[d]]
      BY <2>2
    <3> DEFINE x == loc'[p]
    <3>1. loc' = [loc EXCEPT ![p] = x] /\ x \in {"queued", "limbo"}
      BY EnqueueMoves
    <3> HIDE DEF x
    <3> QED
      BY <3>1, StructureMoved
  <2> QED
    BY <2>1, <2>2
<1> QED
  BY <1>1, <1>2, <1>3, <1>4, <1>5, <1>6, <1>7, StructureEnter DEF TaskStep

LEMMA StructurePutPrev ==
  ASSUME TypeOK, Structure, NEW c \in CPUs, PutPrev(c) PROVE Structure'
<1>t. /\ loc \in [Tasks -> Places] /\ taskCpu \in [Tasks -> CPUs]
      /\ curr \in [CPUs -> Tasks \cup {NoTask}] /\ phase \in [CPUs -> {"run", "put", "pick"}]
  BY DEF TypeOK
<1>a. /\ phase' = [phase EXCEPT ![c] = "pick"] /\ curr' = [curr EXCEPT ![c] = NoTask]
      /\ UNCHANGED <<taskCpu, hashed, local, maps>>
  BY DEF PutPrev
<1>1. CASE curr[c] = NoTask
  <2>1. UNCHANGED loc
    BY <1>1 DEF PutPrev
  <2>2. UNCHANGED <<admitted, timed>>
    BY <1>a DEF maps
  <2>3. Fate'
    BY <1>a, <2>1, <2>2 DEF Structure, Fate
  <2>4. CurrRuns'
    BY <1>1, <1>a, <1>t, <2>1 DEF Structure, CurrRuns
  <2>5. LocalWaits'
    BY <1>a, <2>1 DEF Structure, LocalWaits
  <2> QED
    BY <2>3, <2>4, <2>5 DEF Structure
<1>2. CASE curr[c] # NoTask
  <2> DEFINE p == curr[c]
             x == loc'[p]
  <2>1. /\ p \in Tasks /\ loc[p] = "running" /\ taskCpu[p] = c
        /\ \A d \in CPUs : curr[d] = p => d = c
    BY <1>2, <1>t DEF Structure, CurrRuns
  <2>2. loc' = [loc EXCEPT ![p] = x] /\ x \in {"queued", "limbo"}
    BY <1>2, <2>1, EnqueueMoves DEF PutPrev
  <2>3. taskCpu' = [taskCpu EXCEPT ![p] = c]
    BY <1>a, <1>t, <2>1
  <2>4. \A d \in CPUs : curr'[d] = IF curr[d] = p THEN NoTask ELSE curr[d]
    BY <1>a, <1>t, <2>1
  <2>5. \A d \in CPUs : phase'[d] = "pick" => phase[d] = "pick" \/ curr'[d] = NoTask
    BY <1>a, <1>t
  <2> HIDE DEF p, x
  <2> QED
    BY <1>a, <2>1, <2>2, <2>3, <2>4, <2>5, StructureMoved
<1> QED
  BY <1>1, <1>2

LEMMA StructureStep == TypeOK /\ Structure /\ [Next]_vars => Structure'
<1> SUFFICES ASSUME TypeOK, Structure, [Next]_vars PROVE Structure'
  OBVIOUS
<1>1. ASSUME NEW p \in Tasks, Callback(p) PROVE Structure'
  <2>1. UNCHANGED <<loc, taskCpu, local, curr, maps, hashed, phase>>
    BY <1>1 DEF Callback, PeriodCallback, PeriodCallbackExited, BudgetCallback, tasks, cpus
  <2> QED
    BY <2>1, StructureStill
<1>2. ASSUME NEW c \in CPUs, SkipDispatch(c) PROVE Structure'
  <2>1. /\ UNCHANGED <<loc, taskCpu, local, curr, maps, hashed>>
        /\ phase' = [phase EXCEPT ![c] = "put"]
    BY <1>2 DEF SkipDispatch, tasks
  <2>2. phase \in [CPUs -> {"run", "put", "pick"}]
    BY DEF TypeOK
  <2>3. \A d \in CPUs : phase'[d] = "pick" => phase[d] = "pick"
    BY <2>1, <2>2
  <2> QED
    BY <2>1, <2>3, StructureStill
<1>3. CASE Tick \/ UNCHANGED vars
  <2>1. UNCHANGED <<loc, taskCpu, local, curr, maps, hashed, phase>>
    BY <1>3 DEF Tick, vars, tasks, cpus
  <2> QED
    BY <2>1, StructureStill
<1> QED
  BY <1>1, <1>2, <1>3, StructureTaskStep, StructureDispatch, StructurePutPrev, StructurePick
     DEF Next, Schedule

LEMMA StructureInv == Spec => [](TypeOK /\ Structure)
<1>1. Init => TypeOK /\ Structure
  <2> SUFFICES ASSUME Init PROVE Structure
    BY InitTypes
  <2>1. Fate
    BY DEF Init, Fate
  <2>2. CurrRuns
    BY DEF Init, CurrRuns
  <2>3. LocalWaits
    BY DEF Init, LocalWaits
  <2> QED
    BY <2>1, <2>2, <2>3 DEF Structure
<1>2. TypeOK /\ Structure /\ [Next]_vars => (TypeOK /\ Structure)'
  BY TypeStep, StructureStep
<1> QED
  BY <1>1, <1>2, PTL DEF Spec

-----------------------------------------------------------------------------
(* The period timer of a task in the class is armed, from rms_set_cpumask  *)
(* on, and each of its callbacks arms it again.                            *)

InClass == {"running", "local", "queued", "limbo", "blocked"}

Recurs(p) == sched[p].armed /\ sched[p].periodic = Period[p]

PeriodArmed ==
  \A p \in Tasks \ Movers : p \in hashed /\ loc[p] \in InClass => Recurs(p)

(* A task comes into the class only by EnterExt.                           *)
LEMMA ClassKept ==
  ASSUME TypeOK, Structure, [Next]_vars, NEW q \in Tasks, ~EnterExt(q), loc'[q] \in InClass
  PROVE  loc[q] \in InClass
<1>t. loc \in [Tasks -> Places] /\ taskCpu \in [Tasks -> CPUs] /\ mask \in [Tasks -> SUBSET CPUs]
  BY DEF TypeOK
<1>1. ASSUME NEW p \in Tasks, EnterExt(p) PROVE loc[q] \in InClass
  <2> PICK c \in mask[p] :
        IF curr[c] = NoTask
        THEN loc' = [loc EXCEPT ![p] = "running"] /\ UNCHANGED local
        ELSE /\ loc' = [loc EXCEPT ![p] = "running", ![curr[c]] = "local"]
             /\ local' = [local EXCEPT ![c] = <<curr[c]>> \o @]
    BY <1>1 DEF EnterExt
  <2>1. p # q /\ c \in CPUs
    BY <1>t, <1>1
  <2>2. CASE curr[c] = NoTask
    BY <1>t, <2>1, <2>2
  <2>3. CASE curr[c] # NoTask
    <3>1. loc[curr[c]] = "running"
      BY <2>1, <2>3 DEF Structure, CurrRuns
    <3>2. loc' = [loc EXCEPT ![p] = "running", ![curr[c]] = "local"]
      BY <2>3
    <3> QED
      BY <1>t, <2>1, <3>1, <3>2 DEF InClass
  <2> QED
    BY <2>2, <2>3
<1>2. ASSUME NEW p \in Tasks, Block(p) \/ Leave(p) \/ Exit(p) PROVE loc[q] \in InClass
  BY <1>t, <1>2 DEF Block, Leave, Exit, Calls, IsCurrent, InClass
<1>3. ASSUME NEW p \in Tasks, Wake(p) PROVE loc[q] \in InClass
  <2> PICK c \in rms_select_cpu(p) : loc[p] = "blocked" /\ rms_enqueue(p, c)
    BY <1>3 DEF Wake, Activate
  <2>1. c \in CPUs
    BY <1>t DEF rms_select_cpu
  <2> QED
    BY <1>t, <2>1, EnqueueMoves DEF InClass
<1>4. ASSUME NEW p \in Tasks, SetCpumask(p) PROVE loc[q] \in InClass
  <2>1. loc[p] \in InClass
    BY <1>4 DEF SetCpumask, InClass
  <2>2. UNCHANGED loc \/ \E c \in CPUs : rms_enqueue(p, c)
    BY <1>4 DEF SetCpumask
  <2> QED
    BY <1>t, <2>1, <2>2, EnqueueMoves
<1>5. ASSUME NEW c \in CPUs, Dispatch(c) PROVE loc[q] \in InClass
  <2> DEFINE queued == [p \in Tasks |-> IF p \in Inserted(c) THEN "queued" ELSE loc[p]]
  <2>1. queued[q] \in InClass => loc[q] \in InClass
    BY DEF Inserted, InClass
  <2>2. loc' = queued \/ \E p \in First(c) : loc' = [queued EXCEPT ![p] = "local"]
    BY <1>5 DEF Dispatch
  <2>3. DOMAIN queued = Tasks
    OBVIOUS
  <2>4. \A p \in First(c) : loc[p] \in InClass
    BY DEF First, Inserted, InClass
  <2> HIDE DEF queued
  <2> QED
    BY <2>1, <2>2, <2>3, <2>4
<1>6. ASSUME NEW c \in CPUs, PutPrev(c) PROVE loc[q] \in InClass
  <2>1. CASE curr[c] = NoTask
    BY <1>6, <2>1 DEF PutPrev
  <2>2. CASE curr[c] # NoTask
    <3>1. curr[c] \in Tasks /\ loc[curr[c]] = "running"
      BY <2>2 DEF TypeOK, Structure, CurrRuns
    <3> QED
      BY <1>6, <1>t, <2>2, <3>1, EnqueueMoves DEF PutPrev, InClass
  <2> QED
    BY <2>1, <2>2
<1>7. ASSUME NEW c \in CPUs, PickNext(c) PROVE loc[q] \in InClass
  <2>1. CASE local[c] = <<>>
    BY <1>7, <2>1 DEF PickNext
  <2>2. CASE local[c] # <<>>
    <3>1. loc' = [loc EXCEPT ![Head(local[c])] = "running"]
      BY <1>7, <2>2 DEF PickNext
    <3> QED
      BY <1>t, <2>2, <3>1, LocalHead DEF InClass
  <2> QED
    BY <2>1, <2>2
<1>8. CASE UNCHANGED loc
  BY <1>8
<1> QED
  BY <1>1, <1>2, <1>3, <1>4, <1>5, <1>6, <1>7, <1>8
     DEF Next, TaskStep, Callback, Schedule, Yield, Unhash, PeriodCallback, PeriodCallbackExited,
         BudgetCallback, SkipDispatch, Tick, vars, tasks

LEMMA HashedShrinks == ASSUME [Next]_vars PROVE hashed' \subseteq hashed
<1>1. ASSUME NEW p \in Tasks, TaskStep(p) PROVE hashed' \subseteq hashed
  BY <1>1 DEF TaskStep, EnterExt, Yield, Block, Wake, SetCpumask, Unhash, Exit, Leave, tasks
<1>2. ASSUME NEW p \in Tasks, Callback(p) PROVE hashed' \subseteq hashed
  BY <1>2 DEF Callback, PeriodCallback, PeriodCallbackExited, BudgetCallback, tasks
<1>3. ASSUME NEW c \in CPUs, Schedule(c) PROVE hashed' \subseteq hashed
  BY <1>3 DEF Schedule, SkipDispatch, Dispatch, PutPrev, PickNext, tasks
<1>4. CASE Tick \/ UNCHANGED vars
  BY <1>4 DEF Tick, vars, tasks
<1> QED
  BY <1>1, <1>2, <1>3, <1>4 DEF Next

(* Only an exit and a move of its own stop the period timer of a task.     *)
LEMMA PeriodKept ==
  ASSUME TypeOK, Structure, [Next]_vars, NEW q \in Tasks \ Movers, ~EnterExt(q),
         q \in hashed, loc[q] \in InClass, loc'[q] \in InClass, Recurs(q)
  PROVE  Recurs(q)'
<1>t. /\ sched \in [Tasks -> Timers] /\ sched[q] \in Timers /\ Period[q] > 0
      /\ loc \in [Tasks -> Places]
  BY DEF TypeOK
<1>1. ASSUME NEW p \in Tasks, EnterExt(p) PROVE Recurs(q)'
  BY <1>t, <1>1 DEF EnterExt, Recurs
<1>2. ASSUME NEW p \in Tasks, SetCpumask(p) PROVE Recurs(q)'
  BY <1>t, <1>2 DEF SetCpumask, Recurs
<1>3. ASSUME NEW p \in Tasks, Exit(p) PROVE Recurs(q)'
  <2>1. p # q
    BY <1>3, <1>t DEF Exit, InClass
  <2> QED
    BY <1>t, <1>3, <2>1 DEF Exit, Recurs
<1>4. ASSUME NEW p \in Tasks, PeriodCallback(p) PROVE Recurs(q)'
  <2>1. sched' = [sched EXCEPT ![p] = refresh_timer(@)]
    BY <1>4 DEF PeriodCallback
  <2>2. refresh_timer(sched[q]).armed /\ refresh_timer(sched[q]).periodic = Period[q]
    BY <1>t DEF refresh_timer, Recurs, Timers
  <2> QED
    BY <1>t, <2>1, <2>2 DEF Recurs
<1>5. ASSUME NEW p \in Tasks, PeriodCallbackExited(p) PROVE Recurs(q)'
  <2>1. q \in hashed \cap admitted \cap timed /\ loc[q] # "left"
    BY DEF Structure, Fate, InClass
  <2>2. p # q
    BY <1>5, <2>1 DEF PeriodCallbackExited
  <2> QED
    BY <1>t, <1>5, <2>2 DEF PeriodCallbackExited, Recurs
<1>6. ASSUME NEW c \in CPUs, Dispatch(c) PROVE Recurs(q)'
  <2>1. sched'[q] = IF q \in Restarted(c)
                    THEN rms_timer_start(RemainOr(sched[q], Period[q]), Period[q], c)
                    ELSE sched[q]
    BY <1>6 DEF Dispatch
  <2>2. CASE q \in Restarted(c)
    BY <2>1, <2>2 DEF rms_timer_start, Recurs
  <2>3. CASE q \notin Restarted(c)
    BY <2>1, <2>3 DEF Recurs
  <2> QED
    BY <2>2, <2>3
<1>7. ASSUME Tick PROVE Recurs(q)'
  <2>1. sched'[q] = Elapsed(sched[q])
    BY <1>7 DEF Tick
  <2>2. Elapsed(sched[q]).armed = sched[q].armed /\ Elapsed(sched[q]).periodic = sched[q].periodic
    BY <1>t DEF Elapsed, Timers
  <2> QED
    BY <2>1, <2>2 DEF Recurs
<1>8. CASE UNCHANGED sched
  BY <1>8 DEF Recurs
<1> QED
  BY <1>1, <1>2, <1>3, <1>4, <1>5, <1>6, <1>7, <1>8
     DEF Next, TaskStep, Callback, Schedule, Yield, Block, Wake, Unhash, Leave, BudgetCallback,
         SkipDispatch, PutPrev, PickNext, vars

LEMMA PeriodStep == TypeOK /\ Structure /\ PeriodArmed /\ [Next]_vars => PeriodArmed'
<1> SUFFICES ASSUME TypeOK, Structure, PeriodArmed, [Next]_vars,
                    NEW q \in Tasks \ Movers, q \in hashed', loc'[q] \in InClass
             PROVE  Recurs(q)'
  BY DEF PeriodArmed
<1>1. q \in hashed
  BY HashedShrinks
<1>2. CASE EnterExt(q)
  <2> PICK c \in mask[q] :
        sched' = [sched EXCEPT ![q] = rms_timer_start(Period[q], Period[q], c)]
    BY <1>2 DEF EnterExt
  <2> QED
    BY DEF TypeOK, rms_timer_start, Recurs
<1>3. CASE ~EnterExt(q)
  <2>1. loc[q] \in InClass
    BY <1>3, ClassKept
  <2>2. Recurs(q)
    BY <1>1, <2>1 DEF PeriodArmed
  <2> QED
    BY <1>1, <1>3, <2>1, <2>2, PeriodKept
<1> QED
  BY <1>2, <1>3

(* A task that rms_enqueue refused comes back: its period timer is armed   *)
(* (rms_set_cpumask, rms_callback_period, exit_rms_task, rms_enqueue).     *)
THEOREM RefusedTaskIsNotLost == Spec => []NoLostTask
<1>1. Init => PeriodArmed
  BY DEF Init, PeriodArmed, InClass
<1>2. TypeOK /\ Structure /\ PeriodArmed /\ [Next]_vars => PeriodArmed'
  BY PeriodStep
<1>3. PeriodArmed => NoLostTask
  BY DEF PeriodArmed, NoLostTask, Recurs, InClass
<1> QED
  BY <1>1, <1>2, <1>3, StructureInv, PTL DEF Spec

-----------------------------------------------------------------------------
(* A budget timer fires only for a task that is in the maps.               *)

BudgetOwned ==
  /\ \A p \in Tasks : budget[p].armed => p \in admitted
  /\ scx_error => \E p \in Tasks : loc[p] = "left"

(* rms_running touches the timer of p alone, and starts it.                *)
LEMMA RunningStarts ==
  ASSUME NEW timers \in [Tasks -> Timers], NEW p \in Tasks, NEW c \in CPUs, NEW ours
  PROVE  /\ \A q \in Tasks \ {p} : rms_running(p, c, timers, ours)[q] = timers[q]
         /\ rms_running(p, c, timers, ours)[p] \in
              {timers[p], rms_timer_start(RemainOr(timers[p], Budget[p]), 0, c)}
         /\ p \notin admitted => rms_running(p, c, timers, ours)[p] = timers[p]
  BY DEF rms_running

LEMMA RunningArms ==
  ASSUME ~FEATURE_MIGRATION, NEW timers \in [Tasks -> Timers], NEW p \in Tasks, NEW c \in CPUs,
         NEW ours, p \in admitted, p \in ours
  PROVE  rms_running(p, c, timers, ours)[p].armed
<1>1. rms_running(p, c, timers, ours)
        = [timers EXCEPT ![p] = rms_timer_start(RemainOr(@, Budget[p]), 0, c)]
  BY DEF rms_running
<1> QED
  BY <1>1 DEF rms_timer_start

LEMMA LeftStays == ASSUME TypeOK, Structure, [Next]_vars, NEW p \in Tasks, loc[p] = "left"
                   PROVE  loc'[p] = "left"
<1>t. loc \in [Tasks -> Places] /\ taskCpu \in [Tasks -> CPUs] /\ mask \in [Tasks -> SUBSET CPUs]
  BY DEF TypeOK
<1>1. ASSUME NEW q \in Tasks, EnterExt(q) PROVE loc'[p] = "left"
  <2> PICK c \in mask[q] :
        IF curr[c] = NoTask
        THEN loc' = [loc EXCEPT ![q] = "running"] /\ UNCHANGED local
        ELSE /\ loc' = [loc EXCEPT ![q] = "running", ![curr[c]] = "local"]
             /\ local' = [local EXCEPT ![c] = <<curr[c]>> \o @]
    BY <1>1 DEF EnterExt
  <2>1. p # q /\ c \in CPUs
    BY <1>t, <1>1 DEF EnterExt
  <2>2. CASE curr[c] = NoTask
    BY <1>t, <2>1, <2>2
  <2>3. CASE curr[c] # NoTask
    <3>1. loc[curr[c]] = "running"
      BY <2>1, <2>3 DEF Structure, CurrRuns
    <3>2. loc' = [loc EXCEPT ![q] = "running", ![curr[c]] = "local"]
      BY <2>3
    <3> QED
      BY <1>t, <2>1, <3>1, <3>2
  <2> QED
    BY <2>2, <2>3
<1>2. ASSUME NEW q \in Tasks, Block(q) \/ Leave(q) \/ Exit(q) PROVE loc'[p] = "left"
  BY <1>t, <1>2 DEF Block, Leave, Exit, Calls, IsCurrent
<1>3. ASSUME NEW q \in Tasks, Wake(q) \/ SetCpumask(q) PROVE loc'[p] = "left"
  <2>1. p # q
    BY <1>3 DEF Wake, SetCpumask
  <2>2. UNCHANGED loc \/ \E c \in CPUs : rms_enqueue(q, c)
    BY <1>3, <1>t DEF Wake, Activate, rms_select_cpu, SetCpumask
  <2> QED
    BY <1>t, <2>1, <2>2, EnqueueMoves
<1>4. ASSUME NEW c \in CPUs, Dispatch(c) PROVE loc'[p] = "left"
  <2> DEFINE queued == [q \in Tasks |-> IF q \in Inserted(c) THEN "queued" ELSE loc[q]]
  <2>1. queued[p] = "left"
    BY DEF Inserted
  <2>2. loc' = queued \/ \E q \in First(c) : loc' = [queued EXCEPT ![q] = "local"]
    BY <1>4 DEF Dispatch
  <2>3. DOMAIN queued = Tasks
    OBVIOUS
  <2>4. p \notin First(c)
    BY DEF First, Inserted
  <2> HIDE DEF queued
  <2> QED
    BY <2>1, <2>2, <2>3, <2>4
<1>5. ASSUME NEW c \in CPUs, PutPrev(c) PROVE loc'[p] = "left"
  <2>1. CASE curr[c] = NoTask
    BY <1>5, <2>1 DEF PutPrev
  <2>2. CASE curr[c] # NoTask
    <3>1. curr[c] \in Tasks /\ loc[curr[c]] = "running"
      BY <2>2 DEF TypeOK, Structure, CurrRuns
    <3> QED
      BY <1>5, <1>t, <2>2, <3>1, EnqueueMoves DEF PutPrev
  <2> QED
    BY <2>1, <2>2
<1>6. ASSUME NEW c \in CPUs, PickNext(c) PROVE loc'[p] = "left"
  <2>1. CASE local[c] = <<>>
    BY <1>6, <2>1 DEF PickNext
  <2>2. CASE local[c] # <<>>
    <3>1. loc' = [loc EXCEPT ![Head(local[c])] = "running"]
      BY <1>6, <2>2 DEF PickNext
    <3> QED
      BY <1>t, <2>2, <3>1, LocalHead
  <2> QED
    BY <2>1, <2>2
<1>7. CASE UNCHANGED loc
  BY <1>7
<1> QED
  BY <1>1, <1>2, <1>3, <1>4, <1>5, <1>6, <1>7
     DEF Next, TaskStep, Callback, Schedule, Yield, Unhash, PeriodCallback, PeriodCallbackExited,
         BudgetCallback, SkipDispatch, Tick, vars, tasks

LEMMA OwnedStep ==
  ASSUME ~FEATURE_BUDGET_OVERRUN, TypeOK, Structure, BudgetOwned, [Next]_vars
  PROVE  BudgetOwned'
<1>t. /\ budget \in [Tasks -> Timers]
      /\ mask \in [Tasks -> SUBSET CPUs] /\ taskCpu \in [Tasks -> CPUs]
  BY DEF TypeOK
<1>1. ASSUME NEW q \in Tasks, budget'[q].armed PROVE q \in admitted'
  <2>1. ASSUME NEW p \in Tasks, EnterExt(p) PROVE q \in admitted'
    <3> PICK c \in mask[p] :
          budget' = rms_running(p, c,
            [budget EXCEPT ![p] = [EmptyTimer(c) EXCEPT !.remain = Budget[p]]], timed')
      BY <2>1 DEF EnterExt
    <3> DEFINE timers == [budget EXCEPT ![p] = [EmptyTimer(c) EXCEPT !.remain = Budget[p]]]
    <3>1. c \in CPUs /\ admitted' = admitted
      BY <1>t, <2>1 DEF EnterExt
    <3>2. /\ timers \in [Tasks -> Timers] /\ timers[p].armed = FALSE
          /\ \A r \in Tasks \ {p} : timers[r] = budget[r]
      BY <1>t, <3>1, StartTypes DEF EmptyTimer
    <3>3. budget' = rms_running(p, c, timers, timed')
      OBVIOUS
    <3> HIDE DEF timers
    <3>4. CASE p = q
      BY <1>1, <3>1, <3>2, <3>3, <3>4, RunningStarts
    <3>5. CASE p # q
      BY <1>1, <3>1, <3>2, <3>3, <3>5, RunningStarts DEF BudgetOwned
    <3> QED
      BY <3>4, <3>5
  <2>2. ASSUME NEW p \in Tasks, Yield(p) \/ SetCpumask(p) PROVE q \in admitted'
    <3>1. UNCHANGED admitted /\ (budget' = budget \/ budget' = [budget EXCEPT ![p] = rms_timer_cancel(@)])
      BY <2>2 DEF Yield, SetCpumask, maps
    <3>2. rms_timer_cancel(budget[p]).armed = FALSE
      BY <1>t DEF rms_timer_cancel, Timers
    <3> QED
      BY <1>1, <1>t, <3>1, <3>2 DEF BudgetOwned
  <2>3. ASSUME NEW p \in Tasks, Exit(p) PROVE q \in admitted'
    BY <1>1, <1>t, <2>3 DEF Exit, EmptyTimer, BudgetOwned
  <2>4. ASSUME NEW c \in CPUs, PickNext(c) PROVE q \in admitted'
    <3>1. UNCHANGED admitted
      BY <2>4 DEF PickNext, maps
    <3>2. CASE local[c] = <<>>
      BY <1>1, <2>4, <3>1, <3>2 DEF PickNext, BudgetOwned
    <3>3. CASE local[c] # <<>>
      <4> DEFINE p == Head(local[c])
      <4>1. p \in Tasks /\ budget' = rms_running(p, c, budget, timed)
        BY <2>4, <3>3, LocalHead DEF PickNext
      <4> HIDE DEF p
      <4>2. CASE p = q
        BY <1>1, <1>t, <3>1, <4>1, <4>2, RunningStarts DEF BudgetOwned
      <4>3. CASE p # q
        BY <1>1, <1>t, <3>1, <4>1, <4>3, RunningStarts DEF BudgetOwned
      <4> QED
        BY <4>2, <4>3
    <3> QED
      BY <3>2, <3>3
  <2>5. ASSUME NEW p \in Tasks, PeriodCallback(p) PROVE q \in admitted'
    <3>1. UNCHANGED admitted /\ budget' = [budget EXCEPT ![p].remain = Budget[p]]
      BY <2>5 DEF PeriodCallback, maps
    <3>2. budget'[q].armed = budget[q].armed
      BY <1>t, <3>1 DEF Timers
    <3> QED
      BY <1>1, <3>1, <3>2 DEF BudgetOwned
  <2>6. ASSUME NEW p \in Tasks, BudgetCallback(p) PROVE q \in admitted'
    <3>1. UNCHANGED admitted /\ (q = p => budget[p].armed)
      BY <2>6 DEF BudgetCallback, maps, Due
    <3>2. q # p => budget'[q] = budget[q] \/ budget'[q] = rms_timer_cancel(budget[q])
      BY <2>6 DEF BudgetCallback
    <3>3. rms_timer_cancel(budget[q]).armed = FALSE
      BY <1>t DEF rms_timer_cancel, Timers
    <3> QED
      BY <1>1, <3>1, <3>2, <3>3 DEF BudgetOwned
  <2>7. ASSUME Tick PROVE q \in admitted'
    <3>1. UNCHANGED admitted /\ budget'[q] = Elapsed(budget[q])
      BY <2>7 DEF Tick, maps
    <3>2. Elapsed(budget[q]).armed = budget[q].armed
      BY <1>t DEF Elapsed, Timers
    <3> QED
      BY <1>1, <3>1, <3>2 DEF BudgetOwned
  <2>8. CASE UNCHANGED <<budget, admitted>>
    BY <1>1, <2>8 DEF BudgetOwned
  <2> QED
    BY <2>1, <2>2, <2>3, <2>4, <2>5, <2>6, <2>7, <2>8
       DEF Next, TaskStep, Callback, Schedule, Block, Wake, Unhash, Leave, PeriodCallbackExited,
           SkipDispatch, Dispatch, PutPrev, vars, maps
<1>2. scx_error' => \E p \in Tasks : loc'[p] = "left"
  <2>1. ASSUME NEW p \in Tasks, PeriodCallbackExited(p), scx_error' PROVE loc'[p] = "left"
    BY <2>1 DEF PeriodCallbackExited, tasks
  <2>2. ASSUME NEW p \in Tasks, BudgetCallback(p) PROVE ~scx_error'
    <3>1. p \in admitted /\ Overrunning(p) = {}
      BY <2>2 DEF BudgetCallback, Due, BudgetOwned, Overrunning
    <3> QED
      BY <2>2, <3>1 DEF BudgetCallback
  <2>3. CASE UNCHANGED scx_error
    BY <2>3, LeftStays DEF BudgetOwned
  <2> QED
    BY <2>1, <2>2, <2>3
       DEF Next, TaskStep, Callback, Schedule, EnterExt, Yield, Block, Wake, SetCpumask, Unhash, Exit,
           Leave, PeriodCallback, SkipDispatch, Dispatch, PutPrev, PickNext, Tick, vars
<1> QED
  BY <1>1, <1>2 DEF BudgetOwned

(* As it is built, no handler or callback ends the scheduler by            *)
(* scx_bpf_error before a task goes back to a fair policy                  *)
(* (rms_callback_budget, rms_callback_period, exit_rms_task).              *)
THEOREM SchedulerIsNotEjected ==
  ASSUME ~FEATURE_BUDGET_OVERRUN
  PROVE  Spec => []NoScxError
<1>1. Init => BudgetOwned
  BY DEF Init, BudgetOwned, EmptyTimer
<1>2. TypeOK /\ Structure /\ BudgetOwned /\ [Next]_vars => BudgetOwned'
  BY OwnedStep
<1>3. BudgetOwned => NoScxError
  BY DEF BudgetOwned, NoScxError
<1> QED
  BY <1>1, <1>2, <1>3, StructureInv, PTL DEF Spec

-----------------------------------------------------------------------------
(* A budget timer fires once, and never holds more than the budget.        *)

Within(timer, time) ==
  timer.periodic = 0 /\ timer.remain <= time /\ timer.left <= time

LEMMA WithinKept ==
  ASSUME NEW timer \in Timers, NEW time \in Nat, Within(timer, time), NEW c \in CPUs
  PROVE  /\ Within(rms_timer_cancel(timer), time)
         /\ Within(refresh_timer([timer EXCEPT !.remain = time]), time)
         /\ Within([timer EXCEPT !.remain = time], time)
         /\ Within(Elapsed(timer), time)
         /\ Within(rms_timer_start(RemainOr(timer, time), 0, c), time)
<1>1. Within(rms_timer_cancel(timer), time)
  BY DEF Within, Timers, rms_timer_cancel
<1>2. Within([timer EXCEPT !.remain = time], time)
  BY DEF Within, Timers
<1>3. Within(refresh_timer([timer EXCEPT !.remain = time]), time)
  <2> DEFINE refilled == [timer EXCEPT !.remain = time]
  <2>1. refilled \in Timers /\ refilled.periodic = 0 /\ refilled.remain = time
    BY DEF Within, Timers
  <2> HIDE DEF refilled
  <2>2. Within(refresh_timer(refilled), time)
    BY <2>1 DEF Within, Timers, refresh_timer
  <2> QED
    BY <2>2 DEF refilled
<1>4. Within(Elapsed(timer), time)
  BY DEF Within, Timers, Elapsed
<1>5. Within(rms_timer_start(RemainOr(timer, time), 0, c), time)
  BY DEF Within, Timers, rms_timer_start, RemainOr, rms_timer_get_remain
<1> QED
  BY <1>1, <1>2, <1>3, <1>4, <1>5

Bounded == \A p \in Tasks : Within(budget[p], Budget[p])

LEMMA RunningWithin ==
  ASSUME NEW timers \in [Tasks -> Timers], \A q \in Tasks : Within(timers[q], Budget[q]),
         NEW p \in Tasks, NEW c \in CPUs, NEW ours, NEW q \in Tasks
  PROVE  Within(rms_running(p, c, timers, ours)[q], Budget[q])
<1>1. Within(timers[p], Budget[p]) /\ timers[p] \in Timers /\ Budget[p] \in Nat
  OBVIOUS
<1>2. Within(rms_timer_start(RemainOr(timers[p], Budget[p]), 0, c), Budget[p])
  BY <1>1, WithinKept
<1>3. CASE q = p
  BY <1>1, <1>2, <1>3, RunningStarts
<1>4. CASE q # p
  BY <1>4, RunningStarts
<1> QED
  BY <1>3, <1>4

LEMMA BoundedStep == TypeOK /\ Bounded /\ [Next]_vars => Bounded'
<1> SUFFICES ASSUME TypeOK, Bounded, [Next]_vars, NEW q \in Tasks
             PROVE  Within(budget[q], Budget[q])'
  BY DEF Bounded
<1>t. /\ budget \in [Tasks -> Timers]
      /\ mask \in [Tasks -> SUBSET CPUs] /\ taskCpu \in [Tasks -> CPUs]
      /\ local \in [CPUs -> Seq(Tasks)]
  BY DEF TypeOK
<1>b. Within(budget[q], Budget[q]) /\ budget[q] \in Timers /\ Budget[q] \in Nat
  BY <1>t DEF Bounded
<1>c. /\ Within(rms_timer_cancel(budget[q]), Budget[q])
      /\ Within(refresh_timer([budget[q] EXCEPT !.remain = Budget[q]]), Budget[q])
      /\ Within([budget[q] EXCEPT !.remain = Budget[q]], Budget[q])
      /\ Within(Elapsed(budget[q]), Budget[q])
  <2> DEFINE timer == budget[q]
             time == Budget[q]
  <2>1. timer \in Timers /\ time \in Nat /\ Within(timer, time) /\ taskCpu[q] \in CPUs
    BY <1>b, <1>t
  <2> HIDE DEF timer, time
  <2>2. /\ Within(rms_timer_cancel(timer), time)
        /\ Within(refresh_timer([timer EXCEPT !.remain = time]), time)
        /\ Within([timer EXCEPT !.remain = time], time)
        /\ Within(Elapsed(timer), time)
    BY <2>1, WithinKept
  <2> QED
    BY <2>2 DEF timer, time
<1>1. ASSUME NEW p \in Tasks, EnterExt(p) PROVE Within(budget'[q], Budget[q])
  <2> PICK c \in mask[p] :
        budget' = rms_running(p, c,
          [budget EXCEPT ![p] = [EmptyTimer(c) EXCEPT !.remain = Budget[p]]], timed')
    BY <1>1 DEF EnterExt
  <2> DEFINE timers == [budget EXCEPT ![p] = [EmptyTimer(c) EXCEPT !.remain = Budget[p]]]
  <2>1. c \in CPUs
    BY <1>t
  <2>2. timers \in [Tasks -> Timers]
    BY <1>t, <2>1, StartTypes
  <2>3. ASSUME NEW r \in Tasks PROVE Within(timers[r], Budget[r])
    <3>1. CASE r = p
      BY <1>t, <3>1 DEF Within, EmptyTimer
    <3>2. CASE r # p
      BY <1>t, <3>2 DEF Bounded
    <3> QED
      BY <3>1, <3>2
  <2>4. budget' = rms_running(p, c, timers, timed')
    OBVIOUS
  <2> HIDE DEF timers
  <2> QED
    BY <2>1, <2>2, <2>3, <2>4, RunningWithin
<1>2. ASSUME NEW p \in Tasks, Yield(p) \/ SetCpumask(p) PROVE Within(budget'[q], Budget[q])
  <2>1. budget' = budget \/ budget' = [budget EXCEPT ![p] = rms_timer_cancel(@)]
    BY <1>2 DEF Yield, SetCpumask
  <2>2. budget'[q] = budget[q] \/ budget'[q] = rms_timer_cancel(budget[q])
    BY <1>t, <2>1
  <2> QED
    BY <1>b, <1>c, <2>2
<1>3. ASSUME NEW p \in Tasks, Exit(p) PROVE Within(budget'[q], Budget[q])
  <2>1. budget' = [budget EXCEPT ![p] = EmptyTimer(taskCpu[p])]
    BY <1>3 DEF Exit
  <2>2. Within(EmptyTimer(taskCpu[p]), Budget[q])
    BY <1>b DEF Within, EmptyTimer
  <2> QED
    BY <1>t, <1>b, <2>1, <2>2
<1>4. ASSUME NEW c \in CPUs, PickNext(c) PROVE Within(budget'[q], Budget[q])
  <2>1. CASE local[c] = <<>>
    BY <1>4, <1>b, <2>1 DEF PickNext
  <2>2. CASE local[c] # <<>>
    <3> DEFINE p == Head(local[c])
    <3>1. p \in Tasks /\ budget' = rms_running(p, c, budget, timed)
      BY <1>4, <1>t, <2>2, HeadTailProperties DEF PickNext
    <3> HIDE DEF p
    <3> QED
      BY <1>t, <3>1, RunningWithin DEF Bounded
  <2> QED
    BY <2>1, <2>2
<1>5. ASSUME NEW p \in Tasks, PeriodCallback(p) PROVE Within(budget'[q], Budget[q])
  <2>1. budget' = [budget EXCEPT ![p] = [budget[p] EXCEPT !.remain = Budget[p]]]
    BY <1>5 DEF PeriodCallback
  <2>2. budget'[q] = budget[q] \/ budget'[q] = [budget[q] EXCEPT !.remain = Budget[q]]
    BY <1>t, <2>1
  <2> QED
    BY <1>b, <1>c, <2>2
<1>6. ASSUME NEW p \in Tasks, BudgetCallback(p) PROVE Within(budget'[q], Budget[q])
  <2>1. \/ budget'[q] = refresh_timer([budget[q] EXCEPT !.remain = Budget[q]])
        \/ budget'[q] = rms_timer_cancel(budget[q])
        \/ budget'[q] = budget[q]
    BY <1>6 DEF BudgetCallback
  <2> QED
    BY <1>b, <1>c, <2>1
<1>7. ASSUME Tick PROVE Within(budget'[q], Budget[q])
  <2>1. budget'[q] = Elapsed(budget[q])
    BY <1>7 DEF Tick
  <2> QED
    BY <1>b, <1>c, <2>1
<1>8. CASE UNCHANGED budget
  BY <1>8, <1>b
<1>9. Within(budget'[q], Budget[q])
  BY <1>1, <1>2, <1>3, <1>4, <1>5, <1>6, <1>7, <1>8
     DEF Next, TaskStep, Callback, Schedule, Block, Wake, Unhash, Leave, PeriodCallbackExited,
         SkipDispatch, Dispatch, PutPrev, vars
<1> QED
  BY <1>9 DEF Within

(* The CPU a task was admitted to runs it only while its timer is armed.   *)

Timed(p) ==
  IsCurrent(p) /\ taskCpu[p] = AttrCpu[p] /\ ~resched[taskCpu[p]] => budget[p].armed

AllTimed == \A p \in Tasks : Timed(p)

(* What leaves p on its CPU, does not stop its timer and asks no less for  *)
(* a rescheduling, keeps it timed.                                         *)
LEMMA TimedKept ==
  ASSUME TypeOK, NEW q \in Tasks, Timed(q),
         loc'[q] = "running" => loc[q] = "running",
         taskCpu'[q] = taskCpu[q],
         phase'[taskCpu[q]] = "run" => phase[taskCpu[q]] = "run",
         resched[taskCpu[q]] => resched'[taskCpu[q]],
         budget[q].armed => budget'[q].armed
  PROVE  Timed(q)'
  BY DEF Timed, IsCurrent

LEMMA EnterArms ==
  ASSUME ~FEATURE_MIGRATION, TypeOK, Structure, NEW p \in Tasks, EnterExt(p)
  PROVE  budget'[p].armed /\ \A q \in Tasks \ {p} : budget'[q] = budget[q]
<1> DEFINE timers(c) == [budget EXCEPT ![p] = [EmptyTimer(c) EXCEPT !.remain = Budget[p]]]
           ours == timed'
<1>1. PICK c \in CPUs : budget' = rms_running(p, c, timers(c), ours)
  BY DEF EnterExt, TypeOK
<1>2. timers(c) \in [Tasks -> Timers] /\ \A q \in Tasks \ {p} : timers(c)[q] = budget[q]
  BY StartTypes DEF TypeOK
<1>3. p \in admitted /\ p \in ours
  BY DEF EnterExt, Structure, Fate
<1> HIDE DEF timers, ours
<1>4. budget'[p].armed
  BY <1>1, <1>2, <1>3, RunningArms
<1>5. \A q \in Tasks \ {p} : budget'[q] = timers(c)[q]
  BY <1>1, <1>2, RunningStarts
<1> QED
  BY <1>2, <1>4, <1>5

LEMMA TimedTaskStep ==
  ASSUME ~FEATURE_MIGRATION, TypeOK, Structure, NEW p \in Tasks, TaskStep(p),
         NEW q \in Tasks, Timed(q)
  PROVE  Timed(q)'
<1>t. /\ loc \in [Tasks -> Places] /\ taskCpu \in [Tasks -> CPUs] /\ mask \in [Tasks -> SUBSET CPUs]
      /\ curr \in [CPUs -> Tasks \cup {NoTask}] /\ resched \in [CPUs -> BOOLEAN]
      /\ budget \in [Tasks -> Timers] /\ taskCpu[q] \in CPUs /\ taskCpu[p] \in CPUs
  BY DEF TypeOK
<1>1. ASSUME EnterExt(p) PROVE Timed(q)'
  <2> PICK c \in mask[p] :
        /\ taskCpu' = [taskCpu EXCEPT ![p] = c]
        /\ IF curr[c] = NoTask
           THEN loc' = [loc EXCEPT ![p] = "running"] /\ UNCHANGED local
           ELSE /\ loc' = [loc EXCEPT ![p] = "running", ![curr[c]] = "local"]
                /\ local' = [local EXCEPT ![c] = <<curr[c]>> \o @]
    BY <1>1 DEF EnterExt
  <2>1. UNCHANGED <<phase, resched>>
    BY <1>1 DEF EnterExt
  <2>2. CASE q = p
    BY <1>1, <2>2, EnterArms DEF Timed
  <2>3. CASE q # p
    <3>1. budget'[q] = budget[q] /\ taskCpu'[q] = taskCpu[q]
      BY <1>1, <1>t, <2>3, EnterArms
    <3>2. loc'[q] = "running" => loc[q] = "running"
      BY <1>t, <2>3
    <3> QED
      BY <2>1, <3>1, <3>2, TimedKept
  <2> QED
    BY <2>2, <2>3
<1>2. ASSUME Yield(p) PROVE Timed(q)'
  <2>1. /\ UNCHANGED <<loc, taskCpu, phase>> /\ resched' = [resched EXCEPT ![taskCpu[p]] = TRUE]
        /\ budget' = budget \/ budget' = [budget EXCEPT ![p] = rms_timer_cancel(@)]
    BY <1>2 DEF Yield, Kick, tasks
  <2>2. CASE q = p
    BY <1>t, <2>1, <2>2 DEF Timed
  <2>3. CASE q # p
    BY <1>t, <2>1, <2>3, TimedKept
  <2> QED
    BY <2>2, <2>3
<1>3. ASSUME Block(p) \/ Leave(p) \/ Exit(p) PROVE Timed(q)'
  <2>1. /\ UNCHANGED <<taskCpu, phase>> /\ resched' = [resched EXCEPT ![taskCpu[p]] = TRUE]
        /\ \E x \in {"blocked", "left", "dead"} : loc' = [loc EXCEPT ![p] = x]
        /\ budget' = budget \/ budget' = [budget EXCEPT ![p] = EmptyTimer(taskCpu[p])]
    BY <1>3 DEF Block, Leave, Exit, LeaveCpu, Kick
  <2>2. CASE q = p
    BY <1>t, <2>1, <2>2 DEF Timed, IsCurrent
  <2>3. CASE q # p
    BY <1>t, <2>1, <2>3, TimedKept
  <2> QED
    BY <2>2, <2>3
<1>4. ASSUME Wake(p) PROVE Timed(q)'
  <2> PICK c \in rms_select_cpu(p), cur \in CPUs :
        Activate(p, c, cur) /\ UNCHANGED <<phase, budget>>
    BY <1>4 DEF Wake
  <2>1. c \in CPUs
    BY <1>t DEF rms_select_cpu
  <2>2. /\ loc' = [loc EXCEPT ![p] = loc'[p]] /\ loc'[p] # "running"
        /\ taskCpu' = [taskCpu EXCEPT ![p] = c]
        /\ \A d \in CPUs : resched[d] => resched'[d]
    BY <1>t, <2>1, EnqueueMoves DEF Activate
  <2>3. CASE q = p
    BY <2>2, <2>3 DEF Timed, IsCurrent
  <2>4. CASE q # p
    BY <1>t, <2>2, <2>4, TimedKept
  <2> QED
    BY <2>3, <2>4
<1>5. ASSUME SetCpumask(p) PROVE Timed(q)'
  <2>0. UNCHANGED phase /\ budget' = [budget EXCEPT ![p] = rms_timer_cancel(@)]
    BY <1>5 DEF SetCpumask
  <2>1. CASE loc[p] = "blocked"
    <3>1. UNCHANGED <<loc, taskCpu, resched>>
      BY <1>5, <2>1 DEF SetCpumask
    <3>2. CASE q = p
      BY <2>1, <3>1, <3>2 DEF Timed, IsCurrent
    <3>3. CASE q # p
      BY <1>t, <2>0, <3>1, <3>3, TimedKept
    <3> QED
      BY <3>2, <3>3
  <2>2. CASE loc[p] # "blocked"
    <3> PICK c \in CPUs, cur \in CPUs :
          /\ rms_enqueue(p, c)
          /\ taskCpu' = [taskCpu EXCEPT ![p] = c]
          /\ resched' = [d \in CPUs |->
               \/ resched[d] \/ curr[d] = p
               \/ d = c /\ (curr[d] = NoTask \/ (c # cur /\ loc'[p] = "queued"))]
      BY <1>5, <2>2 DEF SetCpumask
    <3>1. loc' = [loc EXCEPT ![p] = loc'[p]] /\ loc'[p] # "running"
      BY EnqueueMoves
    <3>2. CASE q = p
      BY <3>1, <3>2 DEF Timed, IsCurrent
    <3>3. CASE q # p
      BY <1>t, <2>0, <3>1, <3>3, TimedKept
    <3> QED
      BY <3>2, <3>3
  <2> QED
    BY <2>1, <2>2
<1>6. ASSUME Unhash(p) PROVE Timed(q)'
  BY <1>6, TimedKept DEF Unhash, cpus
<1> QED
  BY <1>1, <1>2, <1>3, <1>4, <1>5, <1>6 DEF TaskStep

LEMMA TimedCallback ==
  ASSUME ~FEATURE_BUDGET_OVERRUN, TypeOK, NEW p \in Tasks, Callback(p), NEW q \in Tasks, Timed(q)
  PROVE  Timed(q)'
<1>t. /\ resched \in [CPUs -> BOOLEAN] /\ budget \in [Tasks -> Timers]
      /\ taskCpu[q] \in CPUs /\ AttrCpu[p] \in CPUs
  BY DEF TypeOK
<1>0. UNCHANGED <<loc, taskCpu, phase>>
  BY DEF Callback, PeriodCallback, PeriodCallbackExited, BudgetCallback, tasks, cpus
<1>1. ASSUME PeriodCallback(p) PROVE Timed(q)'
  <2>1. /\ budget' = [budget EXCEPT ![p].remain = Budget[p]]
        /\ resched' = [resched EXCEPT ![AttrCpu[p]] = TRUE]
    BY <1>1 DEF PeriodCallback, Kick
  <2>2. budget'[q].armed = budget[q].armed
    BY <1>t, <2>1 DEF Timers
  <2>3. resched[taskCpu[q]] => resched'[taskCpu[q]]
    BY <1>t, <2>1
  <2> QED
    BY <1>0, <2>2, <2>3, TimedKept
<1>2. ASSUME PeriodCallbackExited(p) PROVE Timed(q)'
  BY <1>0, <1>2, TimedKept DEF PeriodCallbackExited, cpus
<1>3. ASSUME BudgetCallback(p) PROVE Timed(q)'
  <2>1. /\ resched' = [resched EXCEPT ![AttrCpu[p]] = TRUE]
        /\ q # p => budget'[q] = budget[q]
    BY <1>3 DEF BudgetCallback, Kick, Overrunning
  <2>2. CASE q = p
    BY <1>0, <1>t, <2>1, <2>2 DEF Timed
  <2>3. CASE q # p
    BY <1>0, <1>t, <2>1, <2>3, TimedKept
  <2> QED
    BY <2>2, <2>3
<1> QED
  BY <1>1, <1>2, <1>3 DEF Callback

LEMMA TimedSchedule ==
  ASSUME ~FEATURE_MIGRATION, TypeOK, Structure, NEW c \in CPUs, Schedule(c),
         NEW q \in Tasks, Timed(q)
  PROVE  Timed(q)'
<1>t. /\ loc \in [Tasks -> Places] /\ taskCpu \in [Tasks -> CPUs]
      /\ curr \in [CPUs -> Tasks \cup {NoTask}] /\ resched \in [CPUs -> BOOLEAN]
      /\ phase \in [CPUs -> {"run", "put", "pick"}]
      /\ budget \in [Tasks -> Timers] /\ taskCpu[q] \in CPUs
  BY DEF TypeOK
<1>1. ASSUME SkipDispatch(c) PROVE Timed(q)'
  <2>1. /\ UNCHANGED <<loc, taskCpu, budget>> /\ phase' = [phase EXCEPT ![c] = "put"]
        /\ resched' = [resched EXCEPT ![c] = FALSE]
    BY <1>1 DEF SkipDispatch, tasks
  <2>2. CASE taskCpu[q] = c
    BY <1>t, <2>1, <2>2 DEF Timed, IsCurrent
  <2>3. CASE taskCpu[q] # c
    BY <1>t, <2>1, <2>3, TimedKept
  <2> QED
    BY <2>2, <2>3
<1>2. ASSUME Dispatch(c) PROVE Timed(q)'
  <2>0. UNCHANGED budget
    BY <1>2 DEF Dispatch
  <2> DEFINE queued == [p \in Tasks |-> IF p \in Inserted(c) THEN "queued" ELSE loc[p]]
  <2>1. queued[q] = "running" => loc[q] = "running"
    OBVIOUS
  <2>2. DOMAIN queued = Tasks
    OBVIOUS
  <2>3. CASE First(c) = {}
    <3>1. /\ loc' = queued /\ UNCHANGED taskCpu
          /\ resched' = [resched EXCEPT ![c] = Dispatched(c) # {}]
          /\ phase' = [phase EXCEPT ![c] = IF Dispatched(c) # {} THEN "run" ELSE "put"]
      BY <1>2, <2>3 DEF Dispatch
    <3> HIDE DEF queued
    <3>2. CASE taskCpu[q] = c
      BY <1>t, <3>1, <3>2 DEF Timed, IsCurrent
    <3>3. CASE taskCpu[q] # c
      BY <1>t, <2>0, <2>1, <3>1, <3>3, TimedKept
    <3> QED
      BY <3>2, <3>3
  <2>4. CASE First(c) # {}
    <3> PICK p \in First(c) :
          /\ loc' = [queued EXCEPT ![p] = "local"]
          /\ taskCpu' = [taskCpu EXCEPT ![p] = c]
          /\ resched' = [resched EXCEPT ![c] = FALSE]
          /\ phase' = [phase EXCEPT ![c] = "put"]
      BY <1>2, <2>4 DEF Dispatch
    <3> HIDE DEF queued
    <3>1. p \in Tasks
      BY DispatchTypes
    <3>2. CASE q = p \/ taskCpu[q] = c
      BY <1>t, <2>2, <3>1, <3>2 DEF Timed, IsCurrent
    <3>3. CASE q # p /\ taskCpu[q] # c
      <4>1. loc'[q] = "running" => loc[q] = "running"
        BY <2>1, <2>2, <3>1, <3>3
      <4> QED
        BY <1>t, <2>0, <3>1, <3>3, <4>1, TimedKept
    <3> QED
      BY <3>2, <3>3
  <2> QED
    BY <2>3, <2>4
<1>3. ASSUME PutPrev(c) PROVE Timed(q)'
  <2>1. UNCHANGED <<taskCpu, resched, budget>> /\ phase' = [phase EXCEPT ![c] = "pick"]
    BY <1>3 DEF PutPrev
  <2>2. loc'[q] = "running" => loc[q] = "running"
    <3>1. CASE curr[c] = NoTask
      BY <1>3, <3>1 DEF PutPrev
    <3>2. CASE curr[c] # NoTask
      <4>1. curr[c] \in Tasks /\ rms_enqueue(curr[c], c)
        BY <1>3, <1>t, <3>2 DEF PutPrev
      <4> QED
        BY <1>t, <4>1, EnqueueMoves
    <3> QED
      BY <3>1, <3>2
  <2>3. CASE taskCpu[q] = c
    BY <1>t, <2>1, <2>3 DEF Timed, IsCurrent
  <2>4. CASE taskCpu[q] # c
    BY <1>t, <2>1, <2>2, <2>4, TimedKept
  <2> QED
    BY <2>3, <2>4
<1>4. ASSUME PickNext(c) PROVE Timed(q)'
  <2>0. /\ UNCHANGED <<taskCpu, resched>> /\ phase' = [phase EXCEPT ![c] = "run"]
        /\ curr[c] = NoTask
    BY <1>4 DEF PickNext, Structure, CurrRuns
  <2>1. loc[q] = "running" => taskCpu[q] # c
    BY <2>0 DEF Structure, CurrRuns
  <2>2. CASE local[c] = <<>>
    <3>1. UNCHANGED <<loc, budget>>
      BY <1>4, <2>2 DEF PickNext
    <3>2. CASE taskCpu[q] = c
      BY <2>1, <3>1, <3>2, <2>0 DEF Timed, IsCurrent
    <3>3. CASE taskCpu[q] # c
      BY <1>t, <2>0, <3>1, <3>3, TimedKept
    <3> QED
      BY <3>2, <3>3
  <2>3. CASE local[c] # <<>>
    <3> DEFINE p == Head(local[c])
    <3>1. /\ p \in Tasks /\ loc[p] = "local"
          /\ loc' = [loc EXCEPT ![p] = "running"] /\ budget' = rms_running(p, c, budget, timed)
      BY <1>4, <2>3, LocalHead DEF PickNext
    <3> HIDE DEF p
    <3>2. p \in admitted /\ p \in timed
      BY <3>1 DEF Structure, Fate
    <3>3. CASE q = p
      <4>1. budget'[q].armed
        BY <1>t, <3>1, <3>2, <3>3, RunningArms
      <4> QED
        BY <4>1 DEF Timed
    <3>4. CASE q # p
      <4>1. budget'[q] = budget[q]
        BY <1>t, <3>1, <3>4, RunningStarts
      <4>2. loc'[q] = loc[q]
        BY <1>t, <3>1, <3>4
      <4>3. CASE taskCpu[q] = c
        BY <2>0, <2>1, <4>2, <4>3 DEF Timed, IsCurrent
      <4>4. CASE taskCpu[q] # c
        BY <1>t, <2>0, <4>1, <4>2, <4>4, TimedKept
      <4> QED
        BY <4>3, <4>4
    <3> QED
      BY <3>3, <3>4
  <2> QED
    BY <2>2, <2>3
<1> QED
  BY <1>1, <1>2, <1>3, <1>4 DEF Schedule

LEMMA TimedStep ==
  ASSUME ~FEATURE_MIGRATION, ~FEATURE_BUDGET_OVERRUN,
         TypeOK, Structure, AllTimed, [Next]_vars
  PROVE  AllTimed'
<1> SUFFICES ASSUME NEW q \in Tasks PROVE Timed(q)'
  BY DEF AllTimed
<1>0. Timed(q)
  BY DEF AllTimed
<1>1. CASE Tick
  <2>1. UNCHANGED <<loc, taskCpu, phase, resched>> /\ budget'[q] = Elapsed(budget[q])
    BY <1>1 DEF Tick, tasks, cpus
  <2>2. Elapsed(budget[q]).armed = budget[q].armed
    BY DEF TypeOK, Elapsed, Timers
  <2> QED
    BY <1>0, <2>1, <2>2, TimedKept
<1>2. CASE UNCHANGED vars
  BY <1>0, <1>2, TimedKept DEF vars, tasks, cpus
<1> QED
  BY <1>0, <1>1, <1>2, TimedTaskStep, TimedCallback, TimedSchedule DEF Next

(* As it is built, a task that runs on the CPU it was admitted to is going *)
(* to be stopped within its budget: rms_running started its budget timer,  *)
(* or the CPU is rescheduling (rms_running, rms_callback_budget, rms_yield,*)
(* rms_set_cpumask).                                                       *)
THEOREM RunningTaskIsBudgeted ==
  ASSUME ~FEATURE_MIGRATION, ~FEATURE_BUDGET_OVERRUN
  PROVE  Spec => []RunningIsBudgeted
<1>1. Init => Bounded /\ AllTimed
  <2> SUFFICES ASSUME Init, NEW p \in Tasks
               PROVE  Within(budget[p], Budget[p]) /\ Timed(p)
    BY DEF Bounded, AllTimed
  <2>1. loc[p] = "fair" /\ budget[p] = EmptyTimer(AttrCpu[p])
    BY DEF Init
  <2> QED
    BY <2>1 DEF Within, EmptyTimer, Timed, IsCurrent
<1>2. TypeOK /\ Bounded /\ [Next]_vars => Bounded'
  BY BoundedStep
<1>3. TypeOK /\ Structure /\ AllTimed /\ [Next]_vars => AllTimed'
  BY TimedStep
<1>4. Bounded /\ AllTimed => RunningIsBudgeted
  BY DEF Bounded, Within, AllTimed, Timed, RunningIsBudgeted
<1> QED
  BY <1>1, <1>2, <1>3, <1>4, StructureInv, PTL DEF Spec

-----------------------------------------------------------------------------
(* A ready queue holds pids of its own CPU, and a pid leaves it only when  *)
(* the CPU dispatches the task.                                            *)

OwnPids == \A c \in CPUs : \A i \in 1 .. Len(queue[c]) : AttrCpu[queue[c][i]] = c

Waits(p) == \E i \in 1 .. Len(queue[AttrCpu[p]]) : queue[AttrCpu[p]][i] = p

Released(p) ==
  p \in hashed \ is_yield /\ loc[p] = "limbo" =>
    Waits(p) /\ (Steady(AttrCpu[p]) => WillReschedule(AttrCpu[p]))

AllReleased == \A p \in Tasks : Released(p)

LEMMA OwnPidsStep == TypeOK /\ OwnPids /\ [Next]_vars => OwnPids'
<1> SUFFICES ASSUME TypeOK, OwnPids, [Next]_vars, NEW c \in CPUs, NEW i \in 1 .. Len(queue'[c])
             PROVE  AttrCpu[queue'[c][i]] = c
  BY DEF OwnPids
<1>t. queue \in [CPUs -> Seq(Tasks)] /\ queue[c] \in Seq(Tasks) /\ Len(queue[c]) \in Nat
  BY QueuedPids DEF TypeOK
<1>1. ASSUME NEW p \in Tasks, PeriodCallback(p) PROVE AttrCpu[queue'[c][i]] = c
  <2>1. queue' = [queue EXCEPT ![AttrCpu[p]] = Append(@, p)]
    BY <1>1 DEF PeriodCallback
  <2>2. CASE AttrCpu[p] # c
    BY <1>t, <2>1, <2>2 DEF OwnPids
  <2>3. CASE AttrCpu[p] = c
    <3>1. queue'[c] = Append(queue[c], p)
      BY <1>t, <2>1, <2>3
    <3>2. /\ Len(Append(queue[c], p)) = Len(queue[c]) + 1
          /\ \A j \in 1 .. Len(queue[c]) : Append(queue[c], p)[j] = queue[c][j]
          /\ Append(queue[c], p)[Len(queue[c]) + 1] = p
      BY <1>t, AppendProperties
    <3>3. i \in 1 .. Len(queue[c]) \/ i = Len(queue[c]) + 1
      BY <1>t, <3>1, <3>2
    <3> QED
      BY <2>3, <3>1, <3>2, <3>3 DEF OwnPids
  <2> QED
    BY <2>2, <2>3
<1>2. ASSUME NEW d \in CPUs, Dispatch(d) PROVE AttrCpu[queue'[c][i]] = c
  <2>1. queue' = [queue EXCEPT ![d] = SubSeq(@, Popped(d) + 1, Len(@))]
    BY <1>2 DEF Dispatch
  <2>2. CASE d # c
    BY <1>t, <2>1, <2>2 DEF OwnPids
  <2>3. CASE d = c
    <3> DEFINE n == Popped(c)
               rest == SubSeq(queue[c], n + 1, Len(queue[c]))
    <3>1. queue'[c] = rest
      BY <1>t, <2>1, <2>3
    <3>2. n \in Nat
      BY DispatchTypes
    <3>3. CASE n + 1 <= Len(queue[c])
      <4>1. /\ Len(rest) = Len(queue[c]) - n
            /\ \A j \in 1 .. Len(queue[c]) - n : rest[j] = queue[c][n + j]
        <5> HIDE DEF n
        <5> QED
          BY <1>t, <3>2, <3>3, SubSeqProperties
      <4> HIDE DEF n, rest
      <4>0. i \in 1 .. Len(rest)
        BY <3>1
      <4>2. i \in 1 .. Len(queue[c]) - n /\ n + i \in 1 .. Len(queue[c])
        <5>1. /\ Len(queue[c]) \in Nat
              /\ i \in 1 .. Len(queue[c]) - n
          BY <1>t, <4>0, <4>1
        <5> DEFINE l == Len(queue[c])
        <5>2. l \in Nat /\ i \in 1 .. l - n
          BY <5>1
        <5> HIDE DEF l
        <5>3. n + i \in 1 .. l
          BY <3>2, <5>2
        <5> QED
          BY <5>1, <5>3 DEF l
      <4>3. queue'[c][i] = queue[c][n + i]
        BY <3>1, <4>1, <4>2
      <4> QED
        BY <4>2, <4>3 DEF OwnPids
    <3>4. CASE ~(n + 1 <= Len(queue[c]))
      <4>1. Len(rest) = 0
        <5> HIDE DEF n
        <5> QED
          BY <1>t, <3>2, <3>4, SubSeqProperties
      <4> HIDE DEF n, rest
      <4> QED
        BY <3>1, <4>1
    <3> QED
      BY <3>3, <3>4
  <2> QED
    BY <2>2, <2>3
<1>3. CASE UNCHANGED queue
  BY <1>3 DEF OwnPids
<1> QED
  BY <1>1, <1>2, <1>3
     DEF Next, TaskStep, Callback, Schedule, EnterExt, Yield, Block, Wake, SetCpumask, Unhash, Exit,
         Leave, PeriodCallbackExited, BudgetCallback, SkipDispatch, PutPrev, PickNext, Tick, vars

(* What does not release p and leaves its CPU going to reschedule, keeps   *)
(* the released job.                                                       *)
LEMMA ReleasedKept ==
  ASSUME TypeOK, NEW q \in Tasks, Released(q),
         hashed' \subseteq hashed, admitted' \subseteq admitted,
         q \in is_yield => q \in is_yield',
         loc'[q] = "limbo" => loc[q] = "limbo",
         WillReschedule(AttrCpu[q]) => WillReschedule(AttrCpu[q])',
         queue'[AttrCpu[q]] = queue[AttrCpu[q]]
  PROVE  Released(q)'
  BY DEF Released, Waits, Steady, Gone

LEMMA WillKept ==
  ASSUME TypeOK, NEW c \in CPUs, WillReschedule(c),
         resched[c] => resched'[c],
         local'[c] = local[c], phase'[c] = phase[c], curr'[c] = curr[c] \/ resched'[c]
  PROVE  WillReschedule(c)'
  BY DEF WillReschedule

LEMMA ReleasedTaskStep ==
  ASSUME TypeOK, Structure, NEW p \in Tasks, TaskStep(p), NEW q \in Tasks, Released(q)
  PROVE  Released(q)'
<1>t. /\ loc \in [Tasks -> Places] /\ taskCpu \in [Tasks -> CPUs] /\ mask \in [Tasks -> SUBSET CPUs]
      /\ curr \in [CPUs -> Tasks \cup {NoTask}] /\ resched \in [CPUs -> BOOLEAN]
      /\ local \in [CPUs -> Seq(Tasks)]
      /\ taskCpu[p] \in CPUs /\ AttrCpu[q] \in CPUs
  BY DEF TypeOK
<1>h. hashed' \subseteq hashed /\ admitted' \subseteq admitted
  BY DEF TaskStep, EnterExt, Yield, Block, Wake, SetCpumask, Unhash, Exit, Leave, tasks, maps
<1>q. UNCHANGED queue
  BY DEF TaskStep, EnterExt, Yield, Block, Wake, SetCpumask, Unhash, Exit, Leave
<1>1. ASSUME EnterExt(p) PROVE Released(q)'
  <2> PICK c \in mask[p] :
        /\ phase[c] = "run"
        /\ curr' = [curr EXCEPT ![c] = p]
        /\ IF curr[c] = NoTask
           THEN loc' = [loc EXCEPT ![p] = "running"] /\ UNCHANGED local
           ELSE /\ loc' = [loc EXCEPT ![p] = "running", ![curr[c]] = "local"]
                /\ local' = [local EXCEPT ![c] = <<curr[c]>> \o @]
    BY <1>1 DEF EnterExt
  <2>1. UNCHANGED <<phase, resched, is_yield>> /\ c \in CPUs /\ p # NoTask
    BY <1>1, <1>t DEF EnterExt, flags
  <2>2. loc'[q] = "limbo" => loc[q] = "limbo"
    <3>1. CASE curr[c] = NoTask
      BY <1>t, <3>1
    <3>2. CASE curr[c] # NoTask
      <4>1. loc' = [loc EXCEPT ![p] = "running", ![curr[c]] = "local"]
        BY <3>2
      <4> QED
        BY <1>t, <4>1
    <3> QED
      BY <3>1, <3>2
  <2>3. WillReschedule(AttrCpu[q]) => WillReschedule(AttrCpu[q])'
    <3>1. CASE AttrCpu[q] = c
      BY <1>t, <2>1, <3>1 DEF WillReschedule
    <3>2. CASE AttrCpu[q] # c
      <4>1. local'[AttrCpu[q]] = local[AttrCpu[q]] /\ curr'[AttrCpu[q]] = curr[AttrCpu[q]]
        BY <1>t, <3>2
      <4> QED
        BY <1>t, <2>1, <4>1, WillKept
    <3> QED
      BY <3>1, <3>2
  <2> QED
    BY <1>h, <1>q, <2>1, <2>2, <2>3, ReleasedKept
<1>2. ASSUME Yield(p) PROVE Released(q)'
  <2>1. /\ UNCHANGED <<loc, local, phase, curr>> /\ is_yield \subseteq is_yield'
        /\ resched' = [resched EXCEPT ![taskCpu[p]] = TRUE]
    BY <1>2 DEF Yield, Kick, tasks
  <2>2. WillReschedule(AttrCpu[q]) => WillReschedule(AttrCpu[q])'
    BY <1>t, <2>1, WillKept
  <2> QED
    BY <1>h, <1>q, <2>1, <2>2, ReleasedKept
<1>3. ASSUME Block(p) \/ Leave(p) \/ Exit(p) PROVE Released(q)'
  <2>1. /\ UNCHANGED <<local, phase>> /\ resched' = [resched EXCEPT ![taskCpu[p]] = TRUE]
        /\ curr' = [curr EXCEPT ![taskCpu[p]] = NoTask]
        /\ \E x \in {"blocked", "left", "dead"} : loc' = [loc EXCEPT ![p] = x]
        /\ is_yield' = is_yield \/ is_yield' = is_yield \ {p}
    BY <1>3 DEF Block, Leave, Exit, LeaveCpu, Kick, flags
  <2>2. WillReschedule(AttrCpu[q]) => WillReschedule(AttrCpu[q])'
    BY <1>t, <2>1, WillKept
  <2>3. CASE q = p
    BY <1>t, <2>1, <2>3 DEF Released
  <2>4. CASE q # p
    <3>1. loc'[q] = loc[q] /\ (q \in is_yield => q \in is_yield')
      BY <1>t, <2>1, <2>4
    <3> QED
      BY <1>h, <1>q, <2>2, <3>1, ReleasedKept
  <2> QED
    BY <2>3, <2>4
<1>4. ASSUME Wake(p) PROVE Released(q)'
  <2> PICK c \in rms_select_cpu(p), cur \in CPUs :
        Activate(p, c, cur) /\ UNCHANGED <<local, curr, phase>>
    BY <1>4 DEF Wake
  <2>1. c \in CPUs
    BY <1>t DEF rms_select_cpu
  <2>2. /\ loc' = [loc EXCEPT ![p] = loc'[p]]
        /\ loc'[p] = "limbo" => p \notin admitted \ is_yield
        /\ \A d \in CPUs : resched[d] => resched'[d]
    BY <1>t, <2>1, EnqueueMoves DEF Activate
  <2>3. UNCHANGED is_yield /\ p \in admitted
    BY <1>4 DEF Wake, flags, Structure, Fate
  <2>4. WillReschedule(AttrCpu[q]) => WillReschedule(AttrCpu[q])'
    BY <1>t, <2>2, WillKept
  <2>5. CASE q = p
    BY <2>2, <2>3, <2>5 DEF Released
  <2>6. CASE q # p
    <3>1. loc'[q] = loc[q]
      BY <1>t, <2>2, <2>6
    <3> QED
      BY <1>h, <1>q, <2>3, <2>4, <3>1, ReleasedKept
  <2> QED
    BY <2>5, <2>6
<1>5. ASSUME SetCpumask(p) PROVE Released(q)'
  <2>0. UNCHANGED <<local, phase, is_yield>> /\ p \in admitted
    BY <1>5 DEF SetCpumask
  <2>1. CASE q = p
    <3>1. loc'[p] = "limbo" => p \in is_yield
      <4>1. CASE loc[p] = "blocked"
        BY <1>5, <4>1 DEF SetCpumask
      <4>2. CASE loc[p] # "blocked"
        <5> PICK c \in CPUs : rms_enqueue(p, c)
          BY <1>5, <4>2 DEF SetCpumask
        <5> QED
          BY <2>0, EnqueueMoves
      <4> QED
        BY <4>1, <4>2
    <3> QED
      BY <2>0, <2>1, <3>1 DEF Released
  <2>2. CASE q # p
    <3>1. CASE loc[p] = "blocked"
      <4>1. UNCHANGED <<loc, curr, resched>>
        BY <1>5, <3>1 DEF SetCpumask
      <4>2. WillReschedule(AttrCpu[q]) => WillReschedule(AttrCpu[q])'
        BY <1>t, <2>0, <4>1, WillKept
      <4> QED
        BY <1>h, <1>q, <2>0, <4>1, <4>2, ReleasedKept
    <3>2. CASE loc[p] # "blocked"
      <4> PICK c \in CPUs, cur \in CPUs :
            /\ rms_enqueue(p, c)
            /\ curr' = [d \in CPUs |-> IF curr[d] = p THEN NoTask ELSE curr[d]]
            /\ resched' = [d \in CPUs |->
                 \/ resched[d] \/ curr[d] = p
                 \/ d = c /\ (curr[d] = NoTask \/ (c # cur /\ loc'[p] = "queued"))]
        BY <1>5, <3>2 DEF SetCpumask
      <4>1. loc'[q] = loc[q]
        BY <1>t, <2>2, EnqueueMoves
      <4>2. /\ resched[AttrCpu[q]] => resched'[AttrCpu[q]]
            /\ curr'[AttrCpu[q]] = curr[AttrCpu[q]] \/ resched'[AttrCpu[q]]
        BY <1>t
      <4>3. WillReschedule(AttrCpu[q]) => WillReschedule(AttrCpu[q])'
        BY <1>t, <2>0, <4>2, WillKept
      <4> QED
        BY <1>h, <1>q, <2>0, <4>1, <4>3, ReleasedKept
    <3> QED
      BY <3>1, <3>2
  <2> QED
    BY <2>1, <2>2
<1>6. ASSUME Unhash(p) PROVE Released(q)'
  <2>1. UNCHANGED <<loc, local, phase, curr, resched, is_yield>>
    BY <1>6 DEF Unhash, cpus, flags
  <2>2. WillReschedule(AttrCpu[q]) => WillReschedule(AttrCpu[q])'
    BY <2>1 DEF WillReschedule
  <2> QED
    BY <1>h, <1>q, <2>1, <2>2, ReleasedKept
<1> QED
  BY <1>1, <1>2, <1>3, <1>4, <1>5, <1>6 DEF TaskStep

LEMMA ReleasedCallback ==
  ASSUME TypeOK, NEW p \in Tasks, Callback(p), NEW q \in Tasks, Released(q)
  PROVE  Released(q)'
<1>t. /\ resched \in [CPUs -> BOOLEAN] /\ queue \in [CPUs -> Seq(Tasks)]
      /\ AttrCpu[q] \in CPUs /\ AttrCpu[p] \in CPUs
      /\ queue[AttrCpu[q]] \in Seq(Tasks) /\ Len(queue[AttrCpu[q]]) \in Nat
  BY QueuedPids DEF TypeOK
<1>0. UNCHANGED <<loc, local, phase, curr, hashed, admitted>>
  BY DEF Callback, PeriodCallback, PeriodCallbackExited, BudgetCallback, tasks, cpus, maps
<1>1. ASSUME PeriodCallback(p) PROVE Released(q)'
  <2>1. /\ resched' = [resched EXCEPT ![AttrCpu[p]] = TRUE]
        /\ queue' = [queue EXCEPT ![AttrCpu[p]] = Append(@, p)]
        /\ is_yield' = is_yield \ {p}
    BY <1>1 DEF PeriodCallback, Kick
  <2>2. WillReschedule(AttrCpu[q]) => WillReschedule(AttrCpu[q])'
    BY <1>0, <1>t, <2>1, WillKept
  <2>3. /\ Len(Append(queue[AttrCpu[q]], p)) = Len(queue[AttrCpu[q]]) + 1
        /\ \A j \in 1 .. Len(queue[AttrCpu[q]]) :
             Append(queue[AttrCpu[q]], p)[j] = queue[AttrCpu[q]][j]
        /\ Append(queue[AttrCpu[q]], p)[Len(queue[AttrCpu[q]]) + 1] = p
    BY <1>t, AppendProperties
  <2>4. CASE q = p
    <3>1. queue'[AttrCpu[q]] = Append(queue[AttrCpu[q]], p) /\ resched'[AttrCpu[q]]
      BY <1>t, <2>1, <2>4
    <3>2. Waits(q)'
      <4> DEFINE i == Len(queue[AttrCpu[q]]) + 1
      <4>1. i \in 1 .. i
        BY <1>t
      <4>2. Len(queue'[AttrCpu[q]]) = i /\ queue'[AttrCpu[q]][i] = q
        BY <2>3, <2>4, <3>1
      <4> HIDE DEF i
      <4> QED
        BY <4>1, <4>2 DEF Waits
    <3> QED
      BY <3>1, <3>2 DEF Released, WillReschedule
  <2>5. CASE q # p
    <3>1. \/ queue'[AttrCpu[q]] = Append(queue[AttrCpu[q]], p)
          \/ queue'[AttrCpu[q]] = queue[AttrCpu[q]]
      BY <1>t, <2>1
    <3>2. ASSUME Waits(q) PROVE Waits(q)'
      <4> PICK i \in 1 .. Len(queue[AttrCpu[q]]) : queue[AttrCpu[q]][i] = q
        BY <3>2 DEF Waits
      <4> DEFINE l == Len(queue[AttrCpu[q]])
      <4>2. l \in Nat /\ i \in 1 .. l
        BY <1>t
      <4>3. Len(queue'[AttrCpu[q]]) = l + 1 \/ Len(queue'[AttrCpu[q]]) = l
        BY <2>3, <3>1
      <4>4. queue'[AttrCpu[q]][i] = q
        BY <2>3, <3>1
      <4> HIDE DEF l
      <4>1. i \in 1 .. Len(queue'[AttrCpu[q]]) /\ queue'[AttrCpu[q]][i] = q
        BY <4>2, <4>3, <4>4
      <4> QED
        BY <4>1 DEF Waits
    <3>3. q \in hashed' \ is_yield' => q \in hashed \ is_yield
      BY <1>0, <2>1, <2>5
    <3> QED
      BY <1>0, <2>2, <3>2, <3>3 DEF Released, Steady, Gone
  <2> QED
    BY <2>4, <2>5
<1>2. ASSUME PeriodCallbackExited(p) PROVE Released(q)'
  <2>1. UNCHANGED <<queue, resched, is_yield>>
    BY <1>2 DEF PeriodCallbackExited, cpus, flags
  <2>2. WillReschedule(AttrCpu[q]) => WillReschedule(AttrCpu[q])'
    BY <1>0, <2>1 DEF WillReschedule
  <2> QED
    BY <1>0, <2>1, <2>2, ReleasedKept
<1>3. ASSUME BudgetCallback(p) PROVE Released(q)'
  <2>1. /\ UNCHANGED queue /\ is_yield \subseteq is_yield'
        /\ resched' = [resched EXCEPT ![AttrCpu[p]] = TRUE]
    BY <1>3 DEF BudgetCallback, Kick
  <2>2. WillReschedule(AttrCpu[q]) => WillReschedule(AttrCpu[q])'
    BY <1>0, <1>t, <2>1, WillKept
  <2> QED
    BY <1>0, <2>1, <2>2, ReleasedKept
<1> QED
  BY <1>1, <1>2, <1>3 DEF Callback

(* dispatch_loop does not stop on a CPU none of whose tasks is on its way  *)
(* out: it inserts every refused task of its queue.                        *)
LEMMA AllInserted ==
  ASSUME TypeOK, OwnPids, NEW q \in Tasks, Steady(AttrCpu[q]), loc[q] = "limbo", Waits(q)
  PROVE  q \in Inserted(AttrCpu[q])
<1> DEFINE c == AttrCpu[q]
<1>1. c \in CPUs
  OBVIOUS
<1>2. \A i \in DOMAIN queue[c] : queue[c][i] \in hashed \cap admitted
  <2> SUFFICES ASSUME NEW i \in DOMAIN queue[c] PROVE queue[c][i] \in hashed \cap admitted
    OBVIOUS
  <2>1. queue[c][i] \in Tasks /\ AttrCpu[queue[c][i]] = c
    BY <1>1, QueuedPids DEF OwnPids
  <2> QED
    BY <2>1 DEF Steady, Gone
<1>3. Stops(c) = {}
  BY <1>2 DEF Stops
<1>4. \E i \in DOMAIN queue[c] : queue[c][i] = q
  BY <1>1, QueuedPids DEF Waits
<1> QED
  BY <1>3, <1>4 DEF Dispatched, Inserted

(* Where dispatch_loop stops, it has popped no pid behind the one at which *)
(* it stopped: those of tasks it did not insert are still in the queue.    *)
LEMMA StaysBehind ==
  ASSUME TypeOK, NEW q \in hashed \cap admitted, loc[q] = "limbo", Waits(q),
         Dispatch(AttrCpu[q]), q \notin Inserted(AttrCpu[q])
  PROVE  Waits(q)'
<1> DEFINE c == AttrCpu[q]
           heads == {i \in DOMAIN queue[c] : \A j \in Stops(c) : i <= j}
<1>0. q \in Tasks /\ c \in CPUs
  BY DEF TypeOK
<1>t. /\ queue \in [CPUs -> Seq(Tasks)] /\ queue[c] \in Seq(Tasks) /\ Len(queue[c]) \in Nat
      /\ DOMAIN queue[c] = 1 .. Len(queue[c])
  BY <1>0, QueuedPids DEF TypeOK
<1> PICK k \in 1 .. Len(queue[c]) : queue[c][k] = q
  BY DEF Waits
<1>1. PICK j \in Stops(c) : ~(k < j)
  BY <1>t DEF Inserted, Dispatched
<1>2. j \in 1 .. Len(queue[c]) /\ j # k
  BY <1>t, <1>1 DEF Stops
<1>3. Popped(c) \in Nat /\ Popped(c) <= j
  <2>1. heads \subseteq 1 .. j
    BY <1>t, <1>1, <1>2
  <2>2. IsFiniteSet(1 .. j) /\ Cardinality(1 .. j) = j
    BY <1>t, <1>2, FS_Interval
  <2>3. Popped(c) = Cardinality(heads)
    BY DEF Popped
  <2> HIDE DEF heads
  <2>4. Cardinality(heads) <= Cardinality(1 .. j)
    BY <2>1, <2>2, FS_Subset
  <2> QED
    BY <1>0, <2>2, <2>3, <2>4, DispatchTypes
<1> DEFINE n == Popped(c)
           l == Len(queue[c])
           rest == SubSeq(queue[c], n + 1, l)
<1>4. queue'[c] = rest
  BY <1>0, <1>t DEF Dispatch
<1> HIDE DEF n
<1>5. n \in Nat /\ n < k
  <2>1. n \in Nat /\ n <= j /\ j < k
    <3>1. j \in Nat /\ k \in Nat /\ j <= k /\ j # k
      BY <1>t, <1>1, <1>2
    <3> QED
      BY <1>3, <3>1 DEF n
  <2> QED
    BY <1>2, <2>1
<1>6. n + 1 <= l /\ k - n \in 1 .. l - n /\ n + (k - n) = k
  <2>1. l \in Nat /\ k \in 1 .. l
    BY <1>t
  <2> HIDE DEF l
  <2> QED
    BY <1>5, <2>1
<1>7. Len(rest) = l - n /\ \A i \in 1 .. l - n : rest[i] = queue[c][n + i]
  BY <1>t, <1>5, <1>6, SubSeqProperties
<1>8. k - n \in 1 .. Len(rest) /\ rest[k - n] = q
  BY <1>6, <1>7
<1> HIDE DEF rest
<1> QED
  BY <1>4, <1>8 DEF Waits

LEMMA ReleasedSchedule ==
  ASSUME TypeOK, Structure, OwnPids, NEW c \in CPUs, Schedule(c), NEW q \in Tasks, Released(q)
  PROVE  Released(q)'
<1>t. /\ loc \in [Tasks -> Places]
      /\ curr \in [CPUs -> Tasks \cup {NoTask}] /\ resched \in [CPUs -> BOOLEAN]
      /\ local \in [CPUs -> Seq(Tasks)] /\ queue \in [CPUs -> Seq(Tasks)]
      /\ phase \in [CPUs -> {"run", "put", "pick"}] /\ AttrCpu[q] \in CPUs
  BY DEF TypeOK
<1>0. UNCHANGED <<hashed, admitted, is_yield>>
  BY DEF Schedule, SkipDispatch, Dispatch, PutPrev, PickNext, tasks, flags, maps
<1>1. ASSUME SkipDispatch(c) PROVE Released(q)'
  <2>1. /\ UNCHANGED <<loc, local, curr, queue>> /\ local[c] # <<>>
        /\ phase' = [phase EXCEPT ![c] = "put"] /\ resched' = [resched EXCEPT ![c] = FALSE]
    BY <1>1 DEF SkipDispatch, tasks
  <2>2. WillReschedule(AttrCpu[q]) => WillReschedule(AttrCpu[q])'
    BY <1>t, <2>1 DEF WillReschedule
  <2> QED
    BY <1>0, <2>1, <2>2, ReleasedKept
<1>2. ASSUME Dispatch(c) PROVE Released(q)'
  <2> DEFINE queued == [p \in Tasks |-> IF p \in Inserted(c) THEN "queued" ELSE loc[p]]
  <2>1. queued[q] = "limbo" => loc[q] = "limbo" /\ q \notin Inserted(c)
    OBVIOUS
  <2>2. loc' = queued \/ \E p \in First(c) : loc' = [queued EXCEPT ![p] = "local"]
    BY <1>2 DEF Dispatch
  <2>3. DOMAIN queued = Tasks /\ First(c) \subseteq Tasks
    BY DispatchTypes
  <2> HIDE DEF queued
  <2>4. loc'[q] = "limbo" => loc[q] = "limbo" /\ q \notin Inserted(c)
    BY <2>1, <2>2, <2>3
  <2>5. CASE AttrCpu[q] = c
    <3> SUFFICES ASSUME q \in hashed' \ is_yield', loc'[q] = "limbo"
                 PROVE  Waits(q)' /\ ~Steady(AttrCpu[q])
      BY <1>0 DEF Released, Steady, Gone
    <3>1. Waits(q) /\ loc[q] = "limbo" /\ q \notin Inserted(AttrCpu[q]) /\ q \in hashed
      BY <1>0, <2>4, <2>5 DEF Released
    <3>2. q \in admitted
      BY <3>1 DEF Structure, Fate
    <3>3. Waits(q)'
      BY <1>2, <2>5, <3>1, <3>2, StaysBehind
    <3>4. ~Steady(AttrCpu[q])
      BY <3>1, AllInserted
    <3> QED
      BY <3>3, <3>4
  <2>6. CASE AttrCpu[q] # c
    <3>1. /\ queue' = [queue EXCEPT ![c] = SubSeq(@, Popped(c) + 1, Len(@))]
          /\ UNCHANGED curr
          /\ local' = local \/ \E p \in First(c) : local' = [local EXCEPT ![c] = <<p>>]
          /\ \E b \in BOOLEAN : resched' = [resched EXCEPT ![c] = b]
          /\ \E x \in {"run", "put"} : phase' = [phase EXCEPT ![c] = x]
      <4>1. (Dispatched(c) # {}) \in BOOLEAN
        OBVIOUS
      <4> QED
        BY <1>2, <4>1 DEF Dispatch
    <3>2. /\ queue'[AttrCpu[q]] = queue[AttrCpu[q]] /\ local'[AttrCpu[q]] = local[AttrCpu[q]]
          /\ resched'[AttrCpu[q]] = resched[AttrCpu[q]] /\ phase'[AttrCpu[q]] = phase[AttrCpu[q]]
      BY <1>t, <2>6, <3>1
    <3>3. WillReschedule(AttrCpu[q]) => WillReschedule(AttrCpu[q])'
      BY <3>1, <3>2 DEF WillReschedule
    <3> QED
      BY <1>0, <2>4, <3>2, <3>3, ReleasedKept
  <2> QED
    BY <2>5, <2>6
<1>3. ASSUME PutPrev(c) PROVE Released(q)'
  <2>1. /\ phase' = [phase EXCEPT ![c] = "pick"] /\ phase[c] = "put"
        /\ curr' = [curr EXCEPT ![c] = NoTask] /\ UNCHANGED <<local, resched, queue>>
    BY <1>3 DEF PutPrev
  <2>2. WillReschedule(AttrCpu[q]) => WillReschedule(AttrCpu[q])'
    BY <1>t, <2>1 DEF WillReschedule
  <2>3. CASE q # curr[c] \/ curr[c] = NoTask
    <3>1. loc'[q] = loc[q]
      <4>1. CASE curr[c] = NoTask
        BY <1>3, <4>1 DEF PutPrev
      <4>2. CASE curr[c] # NoTask
        <5>1. curr[c] \in Tasks /\ rms_enqueue(curr[c], c)
          BY <1>3, <1>t, <4>2 DEF PutPrev
        <5> QED
          BY <1>t, <2>3, <4>2, <5>1, EnqueueMoves
      <4> QED
        BY <4>1, <4>2
    <3> QED
      BY <1>0, <2>1, <2>2, <3>1, ReleasedKept
  <2>4. CASE q = curr[c] /\ curr[c] # NoTask
    <3>1. rms_enqueue(q, c) /\ loc[q] = "running"
      BY <1>3, <2>4 DEF PutPrev, Structure, CurrRuns
    <3>2. q \in admitted
      BY <3>1 DEF Structure, Fate
    <3>3. loc'[q] = "limbo" => q \in is_yield
      BY <3>1, <3>2, EnqueueMoves
    <3> QED
      BY <1>0, <3>3 DEF Released
  <2> QED
    BY <2>3, <2>4
<1>4. ASSUME PickNext(c) PROVE Released(q)'
  <2>0. /\ phase[c] = "pick" /\ phase' = [phase EXCEPT ![c] = "run"]
        /\ UNCHANGED <<resched, queue>>
    BY <1>4 DEF PickNext
  <2>1. CASE local[c] = <<>>
    <3>1. UNCHANGED <<loc, local, curr>>
      BY <1>4, <2>1 DEF PickNext
    <3>2. WillReschedule(AttrCpu[q]) => WillReschedule(AttrCpu[q])'
      BY <1>t, <2>0, <2>1, <3>1 DEF WillReschedule
    <3> QED
      BY <1>0, <2>0, <3>1, <3>2, ReleasedKept
  <2>2. CASE local[c] # <<>>
    <3> DEFINE p == Head(local[c])
               rest == Tail(local[c])
    <3>1. /\ p \in Tasks /\ p # NoTask /\ loc' = [loc EXCEPT ![p] = "running"]
          /\ curr' = [curr EXCEPT ![c] = p] /\ local' = [local EXCEPT ![c] = rest]
      BY <1>4, <2>2, LocalHead DEF PickNext
    <3> HIDE DEF p, rest
    <3>2. loc'[q] = "limbo" => loc[q] = "limbo"
      BY <1>t, <3>1
    <3>3. WillReschedule(AttrCpu[q]) => WillReschedule(AttrCpu[q])'
      <4>1. CASE AttrCpu[q] = c
        BY <1>t, <2>0, <3>1, <4>1 DEF WillReschedule
      <4>2. CASE AttrCpu[q] # c
        BY <1>t, <2>0, <3>1, <4>2 DEF WillReschedule
      <4> QED
        BY <4>1, <4>2
    <3> QED
      BY <1>0, <2>0, <3>2, <3>3, ReleasedKept
  <2> QED
    BY <2>1, <2>2
<1> QED
  BY <1>1, <1>2, <1>3, <1>4 DEF Schedule

LEMMA ReleasedStep ==
  TypeOK /\ Structure /\ OwnPids /\ AllReleased /\ [Next]_vars => AllReleased'
<1> SUFFICES ASSUME TypeOK, Structure, OwnPids, AllReleased, [Next]_vars, NEW q \in Tasks
             PROVE  Released(q)'
  BY DEF AllReleased
<1>0. Released(q)
  BY DEF AllReleased
<1>1. CASE Tick \/ UNCHANGED vars
  <2>1. UNCHANGED <<hashed, admitted, is_yield, loc, local, phase, curr, resched, queue>>
    BY <1>1 DEF Tick, vars, tasks, cpus, flags, maps
  <2>2. WillReschedule(AttrCpu[q]) => WillReschedule(AttrCpu[q])'
    BY <2>1 DEF WillReschedule
  <2> QED
    BY <1>0, <2>1, <2>2, ReleasedKept
<1> QED
  BY <1>0, <1>1, ReleasedTaskStep, ReleasedCallback, ReleasedSchedule DEF Next

(* The release of a refused task is not lost between rms_callback_period,  *)
(* rms_enqueue and dispatch_loop, whatever tasks are moved or exit: its pid*)
(* is in the ready queue and, unless a task of that CPU is on its way out, *)
(* the CPU is going to reschedule.                                         *)
THEOREM ReleaseIsNotLost == Spec => []ReleasedWillBeDispatched
<1>1. Init => OwnPids /\ AllReleased
  BY DEF Init, OwnPids, AllReleased, Released
<1>2. TypeOK /\ OwnPids /\ [Next]_vars => OwnPids'
  BY OwnPidsStep
<1>3. TypeOK /\ Structure /\ OwnPids /\ AllReleased /\ [Next]_vars => AllReleased'
  BY ReleasedStep
<1>4. TypeOK /\ AllReleased => ReleasedWillBeDispatched
  <2> SUFFICES ASSUME TypeOK, AllReleased, NEW p \in hashed \ is_yield, loc[p] = "limbo"
               PROVE  /\ \E i \in DOMAIN queue[AttrCpu[p]] : queue[AttrCpu[p]][i] = p
                      /\ Steady(AttrCpu[p]) => WillReschedule(AttrCpu[p])
    BY DEF ReleasedWillBeDispatched
  <2>1. p \in Tasks /\ AttrCpu[p] \in CPUs
    BY DEF TypeOK
  <2>2. Waits(p) /\ (Steady(AttrCpu[p]) => WillReschedule(AttrCpu[p]))
    BY <2>1 DEF AllReleased, Released
  <2> QED
    BY <2>1, <2>2, QueuedPids DEF Waits
<1> QED
  BY <1>1, <1>2, <1>3, <1>4, StructureInv, PTL DEF Spec

-----------------------------------------------------------------------------
(* How often a pid is queued: what still comes before its CPU has worked   *)
(* off the queue, of the tasks in its local DSQ, of those that may enter   *)
(* the class and displace others, and of the pids at which dispatch_loop   *)
(* stops, is counted together with the copies of the pid.                  *)

Outside == {q \in Tasks : loc[q] = "fair"}

InWay(p, c) == {i \in DOMAIN queue[c] : queue[c][i] = p \/ i \in Stops(c)}

(* The tasks of the local DSQ that a later rescheduling picks.             *)
Ahead(c) ==
  IF phase[c] # "run" /\ local[c] # <<>> THEN Len(local[c]) - 1 ELSE Len(local[c])

Backlog(p, c) == Cardinality(InWay(p, c)) + Ahead(c) + Cardinality(Outside)

Limit(c) == Cardinality(Tasks) * Cardinality(SUBSET Gone(c))

(* The CPU has nothing to do, or goes to it.                               *)
Idle(c) == local[c] = <<>> /\ (phase[c] # "run" \/ (curr[c] = NoTask /\ ~resched[c]))

(* One more copy may come from a timer that is due, and only a rescheduling*)
(* takes it back.                                                          *)
Short(p) ==
  LET c == AttrCpu[p]
  IN  /\ Backlog(p, c) <= Limit(c)
      /\ Due(sched[p]) => Backlog(p, c) < Limit(c)
      /\ ~resched[c] => Backlog(p, c) < Limit(c) \/ (Idle(c) /\ queue[c] = <<>>)

(* A task outside the class has no timer.                                  *)
Apart == \A p \in Tasks : loc[p] = "fair" => ~sched[p].armed /\ p \notin is_migrate

AllShort == \A p \in Tasks : Short(p)

(* One element more doubles the number of subsets.                         *)
LEMMA SubsetsDouble ==
  ASSUME NEW S, NEW x, IsFiniteSet(S), x \notin S
  PROVE  /\ Cardinality(SUBSET S) \in Nat
         /\ Cardinality(SUBSET (S \cup {x})) >= 2 * Cardinality(SUBSET S)
<1> DEFINE f == [T \in SUBSET S |-> T \cup {x}]
           with == {f[T] : T \in SUBSET S}
<1>1. IsFiniteSet(SUBSET S) /\ IsFiniteSet(SUBSET (S \cup {x}))
  BY FS_SUBSET, FS_AddElement
<1>2. ExistsBijection(SUBSET S, with)
  <2>1. f \in [SUBSET S -> with]
    OBVIOUS
  <2>2. \A T, U \in SUBSET S : f[T] = f[U] => T = U
    <3> SUFFICES ASSUME NEW T \in SUBSET S, NEW U \in SUBSET S, f[T] = f[U] PROVE T = U
      OBVIOUS
    <3>1. T \cup {x} = U \cup {x}
      OBVIOUS
    <3>2. \A y \in S : y \in T <=> y \in U
      BY <3>1
    <3> QED
      BY <3>2
  <2>3. \A W \in with : \E T \in SUBSET S : f[T] = W
    OBVIOUS
  <2> HIDE DEF f, with
  <2>4. f \in Bijection(SUBSET S, with)
    BY <2>1, <2>2, <2>3 DEF Bijection, Injection, Surjection, IsInjective
  <2> QED
    BY <2>4 DEF ExistsBijection
<1>3. IsFiniteSet(with) /\ Cardinality(with) = Cardinality(SUBSET S)
  BY <1>1, <1>2, FS_Bijection
<1>w. \A W \in with : \E T \in SUBSET S : W = T \cup {x}
  OBVIOUS
<1> DEFINE old == SUBSET S
           new == SUBSET (S \cup {x})
<1>4. old \cap with = {}
  <2> HIDE DEF with
  <2>1. \A W \in with : x \in W
    BY <1>w
  <2>2. \A W \in old : x \notin W
    OBVIOUS
  <2> HIDE DEF old
  <2> QED
    BY <2>1, <2>2
<1>5. old \cup with \subseteq new
  <2> HIDE DEF with
  <2>1. ASSUME NEW W \in with PROVE W \in new
    BY <1>w
  <2>2. ASSUME NEW W \in old PROVE W \in new
    OBVIOUS
  <2> HIDE DEF old, new
  <2> QED
    BY <2>1, <2>2
<1>8. IsFiniteSet(old) /\ IsFiniteSet(new) /\ Cardinality(with) = Cardinality(old)
  BY <1>1, <1>3
<1> HIDE DEF f, with, old, new
<1>9. Cardinality(old) \in Nat
  BY <1>8, FS_CardinalityType
<1>6. IsFiniteSet(old \cup with) /\ Cardinality(old \cup with) = Cardinality(old) + Cardinality(with)
  <2>1. /\ IsFiniteSet(old \cup with)
        /\ Cardinality(old \cup with)
             = Cardinality(old) + Cardinality(with) - Cardinality(old \cap with)
    BY <1>3, <1>8, FS_Union
  <2>2. Cardinality(old \cap with) = 0
    BY <1>4, FS_EmptySet
  <2> QED
    BY <1>8, <1>9, <2>1, <2>2
<1>7. Cardinality(old \cup with) <= Cardinality(new)
  BY <1>5, <1>8, FS_Subset
<1>10. Cardinality(new) \in Nat
  BY <1>8, FS_CardinalityType
<1>11. Cardinality(new) >= 2 * Cardinality(old)
  BY <1>6, <1>7, <1>8, <1>9, <1>10
<1> QED
  BY <1>9, <1>11 DEF old, new

LEMMA Products ==
  ASSUME NEW n \in Nat, NEW k \in Nat
  PROVE  /\ n * k \in Nat
         /\ k > 0 => n * k >= n
         /\ \A m \in Nat : m >= 2 * k => n * m >= 2 * (n * k)
<1>1. n * k \in Nat
  OBVIOUS
<1>2. ASSUME k > 0 PROVE n * k >= n
  BY <1>2
<1>3. ASSUME NEW m \in Nat, m >= 2 * k PROVE n * m >= 2 * (n * k)
  <2>1. PICK d \in Nat : m = 2 * k + d
    <3>1. m - 2 * k \in Nat /\ m = 2 * k + (m - 2 * k)
      BY <1>3
    <3> QED
      BY <3>1
  <2>2. n * m = 2 * (n * k) + n * d
    BY <2>1
  <2>3. n * d \in Nat
    OBVIOUS
  <2> QED
    BY <1>1, <2>2, <2>3
<1> QED
  BY <1>1, <1>2, <1>3

(* The numbers that are compared.                                          *)
LEMMA Sizes ==
  ASSUME TypeOK, NEW p \in Tasks, NEW c \in CPUs
  PROVE  /\ IsFiniteSet(InWay(p, c)) /\ Cardinality(InWay(p, c)) \in Nat
         /\ IsFiniteSet(Outside) /\ Cardinality(Outside) \in Nat
         /\ Ahead(c) \in Nat
         /\ IsFiniteSet(Gone(c)) /\ Cardinality(SUBSET Gone(c)) \in Nat
         /\ Cardinality(Tasks) \in Nat /\ Cardinality(Outside) <= Cardinality(Tasks)
         /\ Backlog(p, c) \in Nat /\ Limit(c) \in Nat
         /\ Cardinality(Tasks) <= Limit(c)
         /\ \A q \in Tasks : loc[q] # "fair" => Cardinality(Outside) < Cardinality(Tasks)
<1>1. IsFiniteSet(InWay(p, c)) /\ Cardinality(InWay(p, c)) \in Nat
  <2>1. Len(queue[c]) \in Nat /\ DOMAIN queue[c] = 1 .. Len(queue[c])
    BY QueuedPids
  <2> DEFINE l == Len(queue[c])
  <2>4. l \in Int /\ 1 \in Int
    BY <2>1
  <2> HIDE DEF l
  <2>5. IsFiniteSet(1 .. l)
    BY <2>4, FS_Interval
  <2>2. IsFiniteSet(1 .. Len(queue[c]))
    BY <2>5 DEF l
  <2>3. InWay(p, c) \subseteq 1 .. Len(queue[c])
    BY <2>1 DEF InWay
  <2> QED
    BY <2>2, <2>3, FS_Subset, FS_CardinalityType
<1>2. /\ IsFiniteSet(Outside) /\ Cardinality(Outside) \in Nat
      /\ Cardinality(Tasks) \in Nat /\ Cardinality(Outside) <= Cardinality(Tasks)
      /\ Cardinality(Outside) = Cardinality(Tasks) => Outside = Tasks
  <2>1. IsFiniteSet(Tasks) /\ Outside \subseteq Tasks
    BY DEF Outside
  <2> QED
    BY <2>1, FS_Subset, FS_CardinalityType
<1>3. Ahead(c) \in Nat
  <2>1. local[c] \in Seq(Tasks) /\ Len(local[c]) \in Nat
    BY LocalTasks
  <2>2. local[c] # <<>> => Len(local[c]) > 0
    BY <2>1, EmptySeq
  <2> QED
    BY <2>1, <2>2 DEF Ahead
<1>4. /\ IsFiniteSet(Gone(c)) /\ Cardinality(SUBSET Gone(c)) \in Nat
      /\ Cardinality(SUBSET Gone(c)) > 0
  <2>1. IsFiniteSet(Gone(c))
    BY FS_Subset DEF Gone
  <2>2. IsFiniteSet(SUBSET Gone(c))
    BY <2>1, FS_SUBSET
  <2> DEFINE sets == SUBSET Gone(c)
  <2>4. IsFiniteSet(sets) /\ sets # {}
    BY <2>2
  <2> HIDE DEF sets
  <2>5. Cardinality(sets) \in Nat /\ Cardinality(sets) # 0
    BY <2>4, FS_CardinalityType, FS_EmptySet
  <2>3. Cardinality(SUBSET Gone(c)) \in Nat /\ Cardinality(SUBSET Gone(c)) # 0
    BY <2>5 DEF sets
  <2> QED
    BY <2>1, <2>3
<1>5. Limit(c) \in Nat /\ Cardinality(Tasks) <= Limit(c)
  BY <1>2, <1>4, Products DEF Limit
<1>6. Backlog(p, c) \in Nat
  BY <1>1, <1>2, <1>3 DEF Backlog
<1>7. ASSUME NEW q \in Tasks, loc[q] # "fair"
      PROVE  Cardinality(Outside) < Cardinality(Tasks)
  BY <1>2, <1>7 DEF Outside
<1> QED
  BY <1>1, <1>2, <1>3, <1>4, <1>5, <1>6, <1>7

AllSizes ==
  \A p \in Tasks, c \in CPUs :
    /\ IsFiniteSet(InWay(p, c)) /\ Cardinality(InWay(p, c)) \in Nat
    /\ IsFiniteSet(Outside) /\ Cardinality(Outside) \in Nat
    /\ Ahead(c) \in Nat
    /\ Backlog(p, c) \in Nat /\ Limit(c) \in Nat
    /\ Cardinality(Tasks) <= Limit(c) /\ Cardinality(Outside) <= Cardinality(Tasks)
    /\ \A q \in Tasks : loc[q] # "fair" => Cardinality(Outside) < Cardinality(Tasks)

LEMMA SizesStay == TypeOK' => AllSizes'
<1>1. TypeOK => AllSizes
  BY Sizes DEF AllSizes
<1> QED
  BY <1>1, PTL

(* What does not lengthen the queue keeps it short.                        *)
LEMMA ShortKept ==
  ASSUME TypeOK, TypeOK', NEW p \in Tasks, Short(p),
         Backlog(p, AttrCpu[p])' <= Backlog(p, AttrCpu[p]),
         Limit(AttrCpu[p])' = Limit(AttrCpu[p]),
         Due(sched'[p]) => Due(sched[p]),
         ~resched'[AttrCpu[p]] =>
            /\ ~resched[AttrCpu[p]]
            /\ queue'[AttrCpu[p]] = queue[AttrCpu[p]]
            /\ Idle(AttrCpu[p]) => Idle(AttrCpu[p])'
  PROVE  Short(p)'
<1> DEFINE c == AttrCpu[p]
<1>1. c \in CPUs
  OBVIOUS
<1>2. Backlog(p, c) \in Nat /\ Limit(c) \in Nat
  BY <1>1, Sizes
<1>3. Backlog(p, c)' \in Nat
  BY <1>1, SizesStay DEF AllSizes
<1>4. Backlog(p, c)' <= Backlog(p, c) /\ Limit(c)' = Limit(c)
  OBVIOUS
<1>5. /\ Backlog(p, c) <= Limit(c)
      /\ Due(sched[p]) => Backlog(p, c) < Limit(c)
      /\ ~resched[c] => Backlog(p, c) < Limit(c) \/ (Idle(c) /\ queue[c] = <<>>)
  BY DEF Short
<1>6. Backlog(p, c)' <= Limit(c)'
  BY <1>2, <1>3, <1>4, <1>5
<1>7. Due(sched'[p]) => Backlog(p, c)' < Limit(c)'
  BY <1>2, <1>3, <1>4, <1>5
<1>8. ~resched'[c] => Backlog(p, c)' < Limit(c)' \/ (Idle(c)' /\ queue'[c] = <<>>)
  BY <1>2, <1>3, <1>4, <1>5
<1> QED
  BY <1>6, <1>7, <1>8 DEF Short

(* Fewer pids and tasks before the queue is worked off.                    *)
LEMMA BacklogShrinks ==
  ASSUME TypeOK, TypeOK', NEW p \in Tasks, NEW c \in CPUs,
         InWay(p, c)' \subseteq InWay(p, c), Ahead(c)' <= Ahead(c), Outside' \subseteq Outside
  PROVE  Backlog(p, c)' <= Backlog(p, c)
<1>1. /\ IsFiniteSet(InWay(p, c)) /\ IsFiniteSet(Outside)
      /\ Cardinality(InWay(p, c)) \in Nat /\ Cardinality(Outside) \in Nat /\ Ahead(c) \in Nat
  BY Sizes
<1>2. /\ Cardinality(InWay(p, c))' \in Nat /\ Cardinality(Outside)' \in Nat
      /\ Ahead(c)' \in Nat
  BY SizesStay DEF AllSizes
<1>3. /\ Cardinality(InWay(p, c))' <= Cardinality(InWay(p, c))
      /\ Cardinality(Outside)' <= Cardinality(Outside)
  BY <1>1, FS_Subset
<1> QED
  BY <1>1, <1>2, <1>3 DEF Backlog

LEMMA LimitKept ==
  ASSUME NEW c \in CPUs, UNCHANGED <<hashed, admitted>>
  PROVE  Limit(c)' = Limit(c)
<1>1. Gone(c)' = Gone(c)
  BY DEF Gone
<1> QED
  BY <1>1 DEF Limit

(* Short(p) holds where the backlog stays below the limit.                 *)
LEMMA ShortBelow ==
  ASSUME TypeOK', NEW p \in Tasks, Backlog(p, AttrCpu[p])' < Limit(AttrCpu[p])'
  PROVE  Short(p)'
<1>1. Backlog(p, AttrCpu[p])' \in Nat /\ Limit(AttrCpu[p])' \in Nat
  BY SizesStay DEF AllSizes
<1> QED
  BY <1>1 DEF Short

(* What leaves the maps and the ready queue alone and brings no task to    *)
(* the CPU.                                                                *)
LEMMA StillShort ==
  ASSUME TypeOK, TypeOK', NEW p \in Tasks, Short(p),
         UNCHANGED <<hashed, admitted>>,
         queue'[AttrCpu[p]] = queue[AttrCpu[p]],
         Outside' \subseteq Outside,
         Ahead(AttrCpu[p])' <= Ahead(AttrCpu[p]),
         Due(sched'[p]) => Due(sched[p]),
         ~resched'[AttrCpu[p]] =>
           ~resched[AttrCpu[p]] /\ (Idle(AttrCpu[p]) => Idle(AttrCpu[p])')
  PROVE  Short(p)'
<1>1. AttrCpu[p] \in CPUs
  OBVIOUS
<1>2. InWay(p, AttrCpu[p])' \subseteq InWay(p, AttrCpu[p])
  BY DEF InWay, Stops
<1>3. Backlog(p, AttrCpu[p])' <= Backlog(p, AttrCpu[p])
  BY <1>1, <1>2, BacklogShrinks
<1>4. Limit(AttrCpu[p])' = Limit(AttrCpu[p])
  BY <1>1, LimitKept
<1> QED
  BY <1>3, <1>4, ShortKept

(* A task that is in the class, or was, is outside of it no more.          *)
LEMMA NoneGetsFair ==
  ASSUME TypeOK, Structure, [Next]_vars
  PROVE  Outside' \subseteq Outside
<1> SUFFICES ASSUME NEW q \in Tasks, loc[q] # "fair" PROVE loc'[q] # "fair"
  BY DEF Outside
<1>t. loc \in [Tasks -> Places] /\ taskCpu \in [Tasks -> CPUs] /\ mask \in [Tasks -> SUBSET CPUs]
  BY DEF TypeOK
<1>1. ASSUME NEW p \in Tasks, EnterExt(p) PROVE loc'[q] # "fair"
  <2> PICK c \in mask[p] :
        IF curr[c] = NoTask
        THEN loc' = [loc EXCEPT ![p] = "running"] /\ UNCHANGED local
        ELSE /\ loc' = [loc EXCEPT ![p] = "running", ![curr[c]] = "local"]
             /\ local' = [local EXCEPT ![c] = <<curr[c]>> \o @]
    BY <1>1 DEF EnterExt
  <2>2. CASE curr[c] = NoTask
    BY <1>t, <2>2
  <2>3. CASE curr[c] # NoTask
    <3>2. loc' = [loc EXCEPT ![p] = "running", ![curr[c]] = "local"]
      BY <2>3
    <3> QED
      BY <1>t, <3>2
  <2> QED
    BY <2>2, <2>3
<1>2. ASSUME NEW p \in Tasks, Block(p) \/ Leave(p) \/ Exit(p) PROVE loc'[q] # "fair"
  BY <1>t, <1>2 DEF Block, Leave, Exit
<1>3. ASSUME NEW p \in Tasks, Wake(p) PROVE loc'[q] # "fair"
  <2> PICK c \in rms_select_cpu(p) : rms_enqueue(p, c)
    BY <1>3 DEF Wake, Activate
  <2>1. c \in CPUs
    BY <1>t DEF rms_select_cpu
  <2> QED
    BY <1>t, <2>1, EnqueueMoves
<1>4. ASSUME NEW p \in Tasks, SetCpumask(p) PROVE loc'[q] # "fair"
  <2>2. UNCHANGED loc \/ \E c \in CPUs : rms_enqueue(p, c)
    BY <1>4 DEF SetCpumask
  <2> QED
    BY <1>t, <2>2, EnqueueMoves
<1>5. ASSUME NEW c \in CPUs, Dispatch(c) PROVE loc'[q] # "fair"
  <2> DEFINE queued == [p \in Tasks |-> IF p \in Inserted(c) THEN "queued" ELSE loc[p]]
  <2>1. queued[q] # "fair" /\ DOMAIN queued = Tasks
    OBVIOUS
  <2>2. loc' = queued \/ \E p \in First(c) : loc' = [queued EXCEPT ![p] = "local"]
    BY <1>5 DEF Dispatch
  <2> HIDE DEF queued
  <2> QED
    BY <2>1, <2>2
<1>6. ASSUME NEW c \in CPUs, PutPrev(c) PROVE loc'[q] # "fair"
  <2>1. CASE curr[c] = NoTask
    BY <1>6, <2>1 DEF PutPrev
  <2>2. CASE curr[c] # NoTask
    <3>1. curr[c] \in Tasks
      BY <2>2 DEF TypeOK
    <3> QED
      BY <1>6, <1>t, <2>2, <3>1, EnqueueMoves DEF PutPrev
  <2> QED
    BY <2>1, <2>2
<1>7. ASSUME NEW c \in CPUs, PickNext(c) PROVE loc'[q] # "fair"
  <2>1. CASE local[c] = <<>>
    BY <1>7, <2>1 DEF PickNext
  <2>2. CASE local[c] # <<>>
    <3>1. loc' = [loc EXCEPT ![Head(local[c])] = "running"]
      BY <1>7, <2>2 DEF PickNext
    <3> QED
      BY <1>t, <3>1
  <2> QED
    BY <2>1, <2>2
<1>8. CASE UNCHANGED loc
  BY <1>8
<1> QED
  BY <1>1, <1>2, <1>3, <1>4, <1>5, <1>6, <1>7, <1>8
     DEF Next, TaskStep, Callback, Schedule, Yield, Unhash, PeriodCallback, PeriodCallbackExited,
         BudgetCallback, SkipDispatch, Tick, vars, tasks

(* A task outside the class gets no timer.                                 *)
LEMMA ApartStep == TypeOK /\ Structure /\ Apart /\ [Next]_vars => Apart'
<1> SUFFICES ASSUME TypeOK, Structure, Apart, [Next]_vars, NEW q \in Tasks, loc'[q] = "fair"
             PROVE  ~sched'[q].armed /\ q \notin is_migrate'
  BY DEF Apart
<1>t. /\ sched \in [Tasks -> Timers] /\ sched[q] \in Timers /\ loc \in [Tasks -> Places]
  BY DEF TypeOK
<1>0. loc[q] = "fair"
  BY NoneGetsFair DEF Outside
<1>m. ~sched[q].armed /\ q \notin is_migrate
  BY <1>0 DEF Apart
<1> DEFINE Stays == ~sched'[q].armed /\ q \notin is_migrate'
<1>1. ASSUME NEW p \in Tasks, EnterExt(p) PROVE Stays
  <2> PICK c \in mask[p] :
        /\ sched' = [sched EXCEPT ![p] = rms_timer_start(Period[p], Period[p], c)]
        /\ IF curr[c] = NoTask
           THEN loc' = [loc EXCEPT ![p] = "running"]
           ELSE loc' = [loc EXCEPT ![p] = "running", ![curr[c]] = "local"]
        /\ UNCHANGED is_migrate
    BY <1>1 DEF EnterExt, flags
  <2>1. p # q
    <3>1. CASE curr[c] = NoTask
      BY <1>t, <3>1
    <3>2. CASE curr[c] # NoTask
      <4>1. loc' = [loc EXCEPT ![p] = "running", ![curr[c]] = "local"]
        BY <3>2
      <4> QED
        BY <1>t, <4>1
    <3> QED
      BY <3>1, <3>2
  <2> QED
    BY <1>t, <1>m, <2>1
<1>2. ASSUME NEW p \in Tasks, SetCpumask(p) PROVE Stays
  <2>1. p # q
    BY <1>0, <1>2 DEF SetCpumask
  <2> QED
    BY <1>t, <1>m, <1>2, <2>1 DEF SetCpumask
<1>3. ASSUME NEW p \in Tasks, Exit(p) PROVE Stays
  BY <1>t, <1>m, <1>3 DEF Exit, EmptyTimer
<1>4. ASSUME NEW p \in Tasks, PeriodCallback(p) \/ PeriodCallbackExited(p) PROVE Stays
  <2>1. p # q
    BY <1>4, <1>m DEF PeriodCallback, PeriodCallbackExited, Due
  <2> QED
    BY <1>t, <1>m, <1>4, <2>1 DEF PeriodCallback, PeriodCallbackExited, flags
<1>5. ASSUME NEW c \in CPUs, Dispatch(c) PROVE Stays
  <2>1. q \notin Restarted(c)
    BY <1>m DEF Restarted
  <2> QED
    BY <1>m, <1>5, <2>1 DEF Dispatch
<1>6. ASSUME Tick PROVE Stays
  <2>1. sched'[q] = Elapsed(sched[q]) /\ UNCHANGED is_migrate
    BY <1>6 DEF Tick, flags
  <2>2. Elapsed(sched[q]).armed = sched[q].armed
    BY <1>t DEF Elapsed, Timers
  <2> QED
    BY <1>m, <2>1, <2>2
<1>7. CASE UNCHANGED <<sched, is_migrate>>
  BY <1>7, <1>m
<1> QED
  BY <1>1, <1>2, <1>3, <1>4, <1>5, <1>6, <1>7
     DEF Next, TaskStep, Callback, Schedule, Yield, Block, Wake, Unhash, Leave, BudgetCallback,
         SkipDispatch, PutPrev, PickNext, vars, flags

(* A task that enters the class leaves the number of those that may: the   *)
(* one it displaces takes its place.                                       *)
LEMMA ShortEnter ==
  ASSUME TypeOK, TypeOK', Structure, NEW q \in Tasks, EnterExt(q), Outside' \subseteq Outside,
         NEW p \in Tasks, Short(p)
  PROVE  Short(p)'
<1> PICK c \in mask[q] :
      /\ loc[q] = "fair" /\ phase[c] = "run" /\ ~resched[c]
      /\ sched' = [sched EXCEPT ![q] = rms_timer_start(Period[q], Period[q], c)]
      /\ curr' = [curr EXCEPT ![c] = q]
      /\ IF curr[c] = NoTask
         THEN loc' = [loc EXCEPT ![q] = "running"] /\ UNCHANGED local
         ELSE /\ loc' = [loc EXCEPT ![q] = "running", ![curr[c]] = "local"]
              /\ local' = [local EXCEPT ![c] = <<curr[c]>> \o @]
      /\ UNCHANGED <<hashed, resched, phase, admitted, queue>>
  BY DEF EnterExt
<1> DEFINE d == AttrCpu[p]
<1>t. /\ loc \in [Tasks -> Places] /\ curr \in [CPUs -> Tasks \cup {NoTask}]
      /\ local \in [CPUs -> Seq(Tasks)] /\ sched \in [Tasks -> Timers]
      /\ c \in CPUs /\ d \in CPUs
  BY DEF TypeOK
<1>1. Due(sched'[p]) => Due(sched[p])
  <2>1. CASE p = q
    BY <1>t, <2>1 DEF Due, rms_timer_start
  <2>2. CASE p # q
    BY <1>t, <2>2
  <2> QED
    BY <2>1, <2>2
<1>2. CASE c # d
  <2>1. local'[d] = local[d] /\ curr'[d] = curr[d]
    BY <1>t, <1>2
  <2>2. Ahead(d)' = Ahead(d) /\ Idle(d)' = Idle(d)
    BY <2>1 DEF Ahead, Idle
  <2>3. Ahead(d) \in Nat
    BY <1>t, Sizes
  <2>4. Ahead(d)' <= Ahead(d)
    BY <2>2, <2>3
  <2>5. UNCHANGED <<hashed, admitted>> /\ queue'[d] = queue[d]
        /\ (~resched'[d] => ~resched[d] /\ (Idle(d) => Idle(d)'))
    BY <2>2
  <2> QED
    BY <1>1, <2>4, <2>5, StillShort
<1>3. CASE c = d
  <2>a. /\ Backlog(p, d) \in Nat /\ Limit(d) \in Nat /\ Ahead(d) \in Nat
        /\ Cardinality(Outside) \in Nat /\ Cardinality(InWay(p, d)) \in Nat
        /\ IsFiniteSet(Outside)
    BY <1>t, Sizes
  <2>b. /\ Backlog(p, d)' \in Nat /\ Cardinality(Outside)' \in Nat
        /\ Ahead(d)' \in Nat
    BY <1>t, SizesStay DEF AllSizes
  <2>1. Cardinality(Outside)' < Cardinality(Outside)
    <3>1. q \in Outside /\ q \notin Outside'
      <4>1. CASE curr[c] = NoTask
        BY <1>t, <4>1 DEF Outside
      <4>2. CASE curr[c] # NoTask
        <5>1. loc' = [loc EXCEPT ![q] = "running", ![curr[c]] = "local"]
          BY <4>2
        <5> QED
          BY <1>t, <5>1 DEF Outside
      <4> QED
        BY <4>1, <4>2
    <3>2. /\ Cardinality(Outside)' <= Cardinality(Outside)
          /\ Cardinality(Outside)' # Cardinality(Outside)
      BY <2>a, <3>1, FS_Subset
    <3> QED
      BY <2>a, <2>b, <3>2
  <2>2. InWay(p, d)' = InWay(p, d) /\ Limit(d)' = Limit(d)
    BY <1>t, LimitKept DEF InWay, Stops
  <2>3. Cardinality(InWay(p, d))' = Cardinality(InWay(p, d))
    BY <2>2
  <2>4. CASE curr[c] = NoTask
    <3>1. Ahead(d)' = Ahead(d)
      BY <1>3, <1>t, <2>4 DEF Ahead
    <3>2. Backlog(p, d)' < Backlog(p, d)
      BY <2>a, <2>b, <2>1, <2>3, <3>1 DEF Backlog
    <3>3. Backlog(p, d) <= Limit(d)
      BY DEF Short
    <3>4. Backlog(p, d)' < Limit(d)'
      BY <2>a, <2>b, <2>2, <3>2, <3>3
    <3> QED
      BY <3>4, ShortBelow
  <2>5. CASE curr[c] # NoTask
    <3>1. Ahead(d)' = Ahead(d) + 1
      <4>1. Len(<<curr[c]>> \o local[c]) = Len(local[c]) + 1
        <5>1. <<curr[c]>> \in Seq(Tasks) /\ local[c] \in Seq(Tasks)
          BY <1>t, <2>5
        <5>2. Len(local[c]) \in Nat /\ Len(<<curr[c]>>) = 1
          BY <5>1, LenProperties
        <5> QED
          BY <5>1, <5>2, ConcatProperties
      <4>2. Len(local'[c]) = Len(local[c]) + 1
        BY <1>t, <2>5, <4>1
      <4> QED
        BY <1>3, <4>2 DEF Ahead
    <3>2. Backlog(p, d)' <= Backlog(p, d)
      BY <2>a, <2>b, <2>1, <2>3, <3>1 DEF Backlog
    <3>3. Backlog(p, d) < Limit(d)
      BY <1>3, <2>5 DEF Short, Idle
    <3>4. Backlog(p, d)' < Limit(d)'
      BY <2>a, <2>b, <2>2, <3>2, <3>3
    <3> QED
      BY <3>4, ShortBelow
  <2> QED
    BY <2>4, <2>5
<1> QED
  BY <1>2, <1>3

(* A rescheduling that is asked for, and a task that goes, change nothing  *)
(* of the queue.                                                           *)
LEMMA ShortWhenCalled ==
  ASSUME TypeOK, TypeOK', Structure, NEW q \in Tasks,
         Yield(q) \/ Block(q) \/ Leave(q) \/ Wake(q) \/ SetCpumask(q),
         Outside' \subseteq Outside, NEW p \in Tasks, Short(p)
  PROVE  Short(p)'
<1> DEFINE d == AttrCpu[p]
<1>t. /\ loc \in [Tasks -> Places] /\ curr \in [CPUs -> Tasks \cup {NoTask}]
      /\ resched \in [CPUs -> BOOLEAN] /\ taskCpu \in [Tasks -> CPUs]
      /\ sched \in [Tasks -> Timers] /\ d \in CPUs
  BY DEF TypeOK
<1>0. UNCHANGED <<hashed, admitted, queue, local, phase>>
  BY DEF Yield, Block, Leave, Wake, SetCpumask, LeaveCpu, tasks, maps
<1>1. Ahead(d)' <= Ahead(d)
  <2>1. Ahead(d)' = Ahead(d)
    BY <1>0 DEF Ahead
  <2>2. Ahead(d) \in Nat
    BY <1>t, Sizes
  <2> QED
    BY <2>1, <2>2
<1>2. Due(sched'[p]) => Due(sched[p])
  <2>1. CASE SetCpumask(q)
    <3>1. sched' = [sched EXCEPT ![q] = rms_timer_cancel(@)]
      BY <2>1 DEF SetCpumask
    <3>2. ~rms_timer_cancel(sched[q]).armed
      BY <1>t DEF rms_timer_cancel, Timers
    <3> QED
      BY <1>t, <3>1, <3>2 DEF Due
  <2>2. CASE UNCHANGED sched
    BY <2>2
  <2> QED
    BY <2>1, <2>2 DEF Yield, Block, Leave, Wake
<1>3. /\ resched[d] => resched'[d]
      /\ curr'[d] = curr[d] \/ curr'[d] = NoTask
  <2>1. CASE Yield(q)
    BY <1>t, <2>1 DEF Yield, Kick
  <2>2. CASE Block(q) \/ Leave(q)
    BY <1>t, <2>2 DEF Block, Leave, LeaveCpu, Kick
  <2>3. CASE Wake(q)
    BY <1>t, <2>3 DEF Wake, Activate
  <2>4. CASE SetCpumask(q)
    <3>1. CASE loc[q] = "blocked"
      BY <2>4, <3>1 DEF SetCpumask
    <3>2. CASE loc[q] # "blocked"
      <4> PICK c \in CPUs, cur \in CPUs :
            /\ curr' = [e \in CPUs |-> IF curr[e] = q THEN NoTask ELSE curr[e]]
            /\ resched' = [e \in CPUs |->
                 \/ resched[e] \/ curr[e] = q
                 \/ e = c /\ (curr[e] = NoTask \/ (c # cur /\ loc'[q] = "queued"))]
        BY <2>4, <3>2 DEF SetCpumask
      <4> QED
        BY <1>t
    <3> QED
      BY <3>1, <3>2
  <2> QED
    BY <2>1, <2>2, <2>3, <2>4
<1>4. ~resched'[d] => ~resched[d] /\ (Idle(d) => Idle(d)')
  BY <1>0, <1>3 DEF Idle
<1> QED
  BY <1>0, <1>1, <1>2, <1>4, StillShort

(* A pid that its period callback pushes had room: the timer was due.      *)
LEMMA ShortCallback ==
  ASSUME TypeOK, TypeOK', Structure, NEW q \in Tasks, Callback(q),
         Outside' \subseteq Outside, NEW p \in Tasks, Short(p)
  PROVE  Short(p)'
<1> DEFINE d == AttrCpu[p]
<1>t. /\ resched \in [CPUs -> BOOLEAN] /\ queue \in [CPUs -> Seq(Tasks)]
      /\ sched \in [Tasks -> Timers] /\ \A r \in Tasks : sched[r] \in Timers
      /\ d \in CPUs /\ AttrCpu[q] \in CPUs
      /\ queue[d] \in Seq(Tasks) /\ Len(queue[d]) \in Nat /\ DOMAIN queue[d] = 1 .. Len(queue[d])
  BY QueuedPids DEF TypeOK
<1>0. UNCHANGED <<loc, local, phase, curr, hashed, admitted>>
  BY DEF Callback, PeriodCallback, PeriodCallbackExited, BudgetCallback, tasks, cpus, maps
<1>1. Ahead(d)' = Ahead(d) /\ Ahead(d) \in Nat /\ Ahead(d)' <= Ahead(d)
  <2>1. Ahead(d)' = Ahead(d)
    BY <1>0 DEF Ahead
  <2>2. Ahead(d) \in Nat
    BY <1>t, Sizes
  <2> QED
    BY <2>1, <2>2
<1>2. CASE PeriodCallbackExited(q) \/ BudgetCallback(q)
  <2>1. UNCHANGED queue /\ (resched[d] => resched'[d])
    BY <1>t, <1>2 DEF PeriodCallbackExited, BudgetCallback, Kick, cpus
  <2>2. Due(sched'[p]) => Due(sched[p])
    <3>1. CASE PeriodCallbackExited(q)
      <4>1. sched' = [sched EXCEPT ![q] = rms_timer_cancel_self(@)]
        BY <3>1 DEF PeriodCallbackExited
      <4>2. ~rms_timer_cancel_self(sched[q]).armed
        BY <1>t DEF rms_timer_cancel_self, Timers
      <4> QED
        BY <1>t, <4>1, <4>2 DEF Due
    <3>2. CASE BudgetCallback(q)
      BY <3>2 DEF BudgetCallback
    <3> QED
      BY <1>2, <3>1, <3>2
  <2>3. ~resched'[d] => ~resched[d] /\ (Idle(d) => Idle(d)')
    BY <1>0, <2>1 DEF Idle
  <2> QED
    BY <1>0, <1>1, <2>1, <2>2, <2>3, StillShort
<1>3. CASE PeriodCallback(q)
  <2>0. /\ Due(sched[q]) /\ q \in hashed \cap admitted
        /\ queue' = [queue EXCEPT ![AttrCpu[q]] = Append(@, q)]
        /\ resched' = [resched EXCEPT ![AttrCpu[q]] = TRUE]
        /\ sched' = [sched EXCEPT ![q] = refresh_timer(@)]
    BY <1>3 DEF PeriodCallback, Kick
  <2>1. Due(sched'[p]) => Due(sched[p])
    <3>1. CASE p = q
      BY <2>0, <3>1
    <3>2. CASE p # q
      BY <1>t, <2>0, <3>2
    <3> QED
      BY <3>1, <3>2
  <2>2. CASE AttrCpu[q] # d
    <3>1. queue'[d] = queue[d] /\ resched'[d] = resched[d]
      BY <1>t, <2>0, <2>2
    <3>2. ~resched'[d] => ~resched[d] /\ (Idle(d) => Idle(d)')
      BY <1>0, <3>1 DEF Idle
    <3> QED
      BY <1>0, <1>1, <2>1, <3>1, <3>2, StillShort
  <2>3. CASE AttrCpu[q] = d
    <3> DEFINE n == Len(queue[d])
    <3>1. queue'[d] = Append(queue[d], q) /\ resched'[d]
      BY <1>t, <2>0, <2>3
    <3>2. /\ DOMAIN queue'[d] = 1 .. n + 1
          /\ \A i \in 1 .. n : queue'[d][i] = queue[d][i]
          /\ queue'[d][n + 1] = q
      <4>1. /\ Append(queue[d], q) \in Seq(Tasks)
            /\ Len(Append(queue[d], q)) = Len(queue[d]) + 1
            /\ \A i \in 1 .. Len(queue[d]) : Append(queue[d], q)[i] = queue[d][i]
            /\ Append(queue[d], q)[Len(queue[d]) + 1] = q
        BY <1>t, AppendProperties
      <4>2. DOMAIN Append(queue[d], q) = 1 .. Len(queue[d]) + 1
        BY <4>1, LenProperties
      <4> QED
        BY <3>1, <4>1, <4>2
    <3>3. n \in Nat /\ DOMAIN queue[d] = 1 .. n
      BY <1>t
    <3>4. Limit(d)' = Limit(d)
      BY <1>0, <1>t, LimitKept
    <3> HIDE DEF n
    <3>5. InWay(p, d)' \subseteq InWay(p, d) \cup (IF p = q THEN {n + 1} ELSE {})
      <4> SUFFICES ASSUME NEW i \in InWay(p, d)', p # q \/ i # n + 1
                   PROVE  i \in InWay(p, d)
        OBVIOUS
      <4>1. /\ i \in 1 .. n + 1
            /\ queue'[d][i] = p \/ queue'[d][i] \notin hashed \cap admitted
        BY <1>0, <3>2 DEF InWay, Stops
      <4>2. i # n + 1
        BY <2>0, <3>2, <4>1
      <4>3. i \in 1 .. n
        BY <3>3, <4>1, <4>2
      <4> QED
        BY <3>2, <3>3, <4>1, <4>3 DEF InWay, Stops
    <3>6. CASE p # q
      <4>1. InWay(p, d)' \subseteq InWay(p, d)
        BY <3>5, <3>6
      <4>2. Backlog(p, d)' <= Backlog(p, d)
        BY <1>1, <1>t, <4>1, BacklogShrinks
      <4> QED
        BY <2>1, <3>1, <3>4, <4>2, ShortKept
    <3>7. CASE p = q
      <4>a. /\ Backlog(p, d) \in Nat /\ Limit(d) \in Nat
            /\ Cardinality(Outside) \in Nat /\ Cardinality(InWay(p, d)) \in Nat
            /\ IsFiniteSet(Outside) /\ IsFiniteSet(InWay(p, d))
        BY <1>t, Sizes
      <4>b. /\ Backlog(p, d)' \in Nat /\ Cardinality(Outside)' \in Nat
            /\ Cardinality(InWay(p, d))' \in Nat
        BY <1>t, SizesStay DEF AllSizes
      <4>1. Cardinality(Outside)' <= Cardinality(Outside)
        BY <4>a, FS_Subset
      <4>2. Cardinality(InWay(p, d))' <= Cardinality(InWay(p, d)) + 1
        <5> DEFINE more == InWay(p, d) \cup {n + 1}
        <5>4. IsFiniteSet(more)
              /\ (Cardinality(more) = Cardinality(InWay(p, d))
                    \/ Cardinality(more) = Cardinality(InWay(p, d)) + 1)
          BY <4>a, FS_AddElement
        <5>1. IsFiniteSet(more) /\ Cardinality(more) <= Cardinality(InWay(p, d)) + 1
          BY <4>a, <5>4
        <5>2. InWay(p, d)' \subseteq more
          BY <3>5, <3>7
        <5> HIDE DEF more
        <5>3. Cardinality(InWay(p, d))' <= Cardinality(more) /\ Cardinality(more) \in Nat
          BY <5>1, <5>2, FS_Subset, FS_CardinalityType
        <5> QED
          BY <4>a, <4>b, <5>1, <5>3
      <4>3. Backlog(p, d)' <= Backlog(p, d) + 1
        BY <1>1, <4>a, <4>b, <4>1, <4>2 DEF Backlog
      <4>4. Backlog(p, d) < Limit(d)
        BY <2>0, <3>7 DEF Short
      <4>5. ~Due(sched'[p])
        <5>1. sched'[p] = refresh_timer(sched[p])
          BY <1>t, <2>0, <3>7
        <5>2. /\ refresh_timer(sched[p]).armed <=> sched[p].periodic > 0
              /\ refresh_timer(sched[p]).left = sched[p].periodic
          BY <1>t DEF refresh_timer, Timers
        <5> QED
          BY <1>t, <5>1, <5>2 DEF Timers, Due
      <4>6. Backlog(p, d)' <= Limit(d)'
        BY <3>4, <4>a, <4>b, <4>3, <4>4
      <4> QED
        BY <3>1, <4>5, <4>6 DEF Short
    <3> QED
      BY <3>6, <3>7
  <2> QED
    BY <2>2, <2>3
<1> QED
  BY <1>2, <1>3 DEF Callback

(* The pid of a task that exits stops dispatch_loop wherever it is queued. *)
LEMMA ShortGone ==
  ASSUME TypeOK, TypeOK', OwnPids, NEW q \in Tasks, Unhash(q) \/ Exit(q),
         Outside' \subseteq Outside, NEW p \in Tasks, Short(p), Short(q)
  PROVE  Short(p)'
<1> DEFINE d == AttrCpu[p]
<1>t. /\ resched \in [CPUs -> BOOLEAN] /\ curr \in [CPUs -> Tasks \cup {NoTask}]
      /\ sched \in [Tasks -> Timers] /\ taskCpu \in [Tasks -> CPUs]
      /\ d \in CPUs /\ DOMAIN queue[d] = 1 .. Len(queue[d])
      /\ \A i \in DOMAIN queue[d] : queue[d][i] \in Tasks
  BY QueuedPids DEF TypeOK
<1>0. /\ UNCHANGED <<queue, local, phase>>
      /\ hashed' \cap admitted' = (hashed \cap admitted) \ {q}
  BY DEF Unhash, Exit, LeaveCpu, cpus, maps
<1>1. Ahead(d)' = Ahead(d) /\ Ahead(d) \in Nat /\ Ahead(d)' <= Ahead(d)
  <2>1. Ahead(d)' = Ahead(d)
    BY <1>0 DEF Ahead
  <2>2. Ahead(d) \in Nat
    BY <1>t, Sizes
  <2> QED
    BY <2>1, <2>2
<1>2. Due(sched'[p]) => Due(sched[p])
  <2>1. CASE Exit(q)
    <3>1. sched' = [sched EXCEPT ![q] = EmptyTimer(taskCpu[q])]
      BY <2>1 DEF Exit
    <3> QED
      BY <1>t, <3>1 DEF Due, EmptyTimer
  <2>2. CASE Unhash(q)
    BY <2>2 DEF Unhash
  <2> QED
    BY <2>1, <2>2
<1>3. ~resched'[d] => ~resched[d] /\ (Idle(d) => Idle(d)')
  <2>1. (resched[d] => resched'[d]) /\ (curr'[d] = curr[d] \/ curr'[d] = NoTask)
    BY <1>t DEF Unhash, Exit, LeaveCpu, Kick, cpus
  <2> QED
    BY <1>0, <2>1 DEF Idle
<1>4. CASE q \in hashed \cap admitted /\ AttrCpu[q] = d
  <2>a. /\ Backlog(p, d) \in Nat /\ Limit(d) \in Nat
        /\ Cardinality(Outside) \in Nat /\ Cardinality(InWay(p, d)) \in Nat
        /\ IsFiniteSet(Outside) /\ IsFiniteSet(InWay(p, d))
        /\ IsFiniteSet(Gone(d)) /\ Cardinality(Tasks) \in Nat
    BY <1>t, Sizes
  <2>q. /\ Backlog(q, d) \in Nat /\ Cardinality(InWay(q, d)) \in Nat /\ IsFiniteSet(InWay(q, d))
    BY <1>t, Sizes
  <2>b. /\ Backlog(p, d)' \in Nat /\ Limit(d)' \in Nat /\ Cardinality(Outside)' \in Nat
        /\ Cardinality(InWay(p, d))' \in Nat
    BY <1>t, SizesStay DEF AllSizes
  <2>1. Limit(d)' >= 2 * Limit(d)
    <3>1. Gone(d)' = Gone(d) \cup {q} /\ q \notin Gone(d)
      BY <1>0, <1>4 DEF Gone
    <3> DEFINE k == Cardinality(SUBSET Gone(d))
               m == Cardinality(SUBSET (Gone(d) \cup {q}))
    <3>2. k \in Nat /\ m >= 2 * k
      BY <2>a, <3>1, SubsetsDouble
    <3>3. Limit(d) = Cardinality(Tasks) * k /\ Limit(d)' = Cardinality(Tasks) * m
      BY <3>1 DEF Limit
    <3>4. m \in Nat
      <4>1. IsFiniteSet(SUBSET (Gone(d) \cup {q}))
        BY <2>a, FS_AddElement, FS_SUBSET
      <4> QED
        BY <4>1, FS_CardinalityType
    <3> HIDE DEF k, m
    <3> QED
      BY <2>a, <3>2, <3>3, <3>4, Products
  <2>2. Cardinality(InWay(p, d))' <= Cardinality(InWay(p, d)) + Cardinality(InWay(q, d))
    <3> DEFINE A == InWay(p, d)
               B == InWay(q, d)
    <3>1. InWay(p, d)' \subseteq A \cup B
      BY <1>0, <1>t DEF InWay, Stops
    <3> HIDE DEF A, B
    <3>2. IsFiniteSet(A) /\ IsFiniteSet(B) /\ Cardinality(A) \in Nat /\ Cardinality(B) \in Nat
      BY <2>a, <2>q DEF A, B
    <3>3. /\ IsFiniteSet(A \cup B)
          /\ Cardinality(A \cup B) = Cardinality(A) + Cardinality(B) - Cardinality(A \cap B)
      BY <3>2, FS_Union
    <3>4. Cardinality(A \cap B) \in Nat
      BY <3>2, FS_Subset, FS_CardinalityType
    <3>5. Cardinality(InWay(p, d))' <= Cardinality(A \cup B)
      BY <3>1, <3>3, FS_Subset
    <3>6. Cardinality(InWay(p, d))' <= Cardinality(A) + Cardinality(B)
      BY <2>b, <3>2, <3>3, <3>4, <3>5
    <3> QED
      BY <3>6 DEF A, B
  <2>3. Cardinality(InWay(q, d)) <= Limit(d)
    <3>1. Backlog(q, d) <= Limit(d)
      BY <1>4 DEF Short
    <3> QED
      BY <1>1, <2>a, <2>q, <3>1 DEF Backlog
  <2>4. Cardinality(Outside)' <= Cardinality(Outside)
    BY <2>a, FS_Subset
  <2>5. Backlog(p, d)' <= Backlog(p, d) + Limit(d)
    BY <1>1, <2>a, <2>b, <2>q, <2>2, <2>3, <2>4 DEF Backlog
  <2>6. /\ Backlog(p, d) <= Limit(d)
        /\ Due(sched[p]) => Backlog(p, d) < Limit(d)
        /\ ~resched[d] => Backlog(p, d) < Limit(d) \/ (Idle(d) /\ queue[d] = <<>>)
    BY DEF Short
  <2>7. Backlog(p, d)' <= Limit(d)'
    BY <2>a, <2>b, <2>1, <2>5, <2>6
  <2>8. Backlog(p, d) < Limit(d) => Backlog(p, d)' < Limit(d)'
    BY <2>a, <2>b, <2>1, <2>5
  <2>9. ~resched'[d] => Backlog(p, d)' < Limit(d)' \/ (Idle(d)' /\ queue'[d] = <<>>)
    BY <1>0, <1>3, <2>6, <2>8
  <2> QED
    BY <1>2, <2>6, <2>7, <2>8, <2>9 DEF Short
<1>5. CASE ~(q \in hashed \cap admitted /\ AttrCpu[q] = d)
  <2>1. InWay(p, d)' \subseteq InWay(p, d)
    <3> SUFFICES ASSUME NEW i \in DOMAIN queue[d], queue[d][i] \notin hashed' \cap admitted'
                 PROVE  queue[d][i] \notin hashed \cap admitted
      BY <1>0 DEF InWay, Stops
    <3>1. AttrCpu[queue[d][i]] = d
      BY <1>t DEF OwnPids
    <3> QED
      BY <1>0, <1>5, <3>1
  <2>2. Backlog(p, d)' <= Backlog(p, d)
    BY <1>1, <1>t, <2>1, BacklogShrinks
  <2>3. Limit(d)' = Limit(d)
    <3>1. Gone(d)' = Gone(d)
      BY <1>0, <1>5 DEF Gone
    <3> QED
      BY <3>1 DEF Limit
  <2> QED
    BY <1>0, <1>2, <1>3, <2>2, <2>3, ShortKept
<1> QED
  BY <1>4, <1>5

(* Time passes only when every CPU has worked off its queue or has room.   *)
LEMMA ShortTick ==
  ASSUME TypeOK, TypeOK', Apart, Tick, NEW p \in Tasks, Short(p)
  PROVE  Short(p)'
<1> DEFINE d == AttrCpu[p]
<1>t. d \in CPUs /\ sched[p] \in Timers
  BY DEF TypeOK
<1>0. /\ UNCHANGED <<queue, hashed, admitted, loc, local, phase, curr, resched>>
      /\ ~resched[d] /\ sched'[p] = Elapsed(sched[p])
  BY <1>t DEF Tick, tasks, cpus, maps
<1>1. Backlog(p, d)' = Backlog(p, d) /\ Limit(d)' = Limit(d) /\ (Idle(d) => Idle(d)')
  <2>1. InWay(p, d)' = InWay(p, d) /\ Ahead(d)' = Ahead(d) /\ Outside' = Outside
    BY <1>0 DEF InWay, Stops, Ahead, Outside
  <2>2. Limit(d)' = Limit(d)
    BY <1>0, <1>t, LimitKept
  <2> QED
    BY <1>0, <2>1, <2>2 DEF Backlog, Idle
<1>a. Backlog(p, d) \in Nat /\ Limit(d) \in Nat /\ Cardinality(Tasks) <= Limit(d)
      /\ Cardinality(Tasks) \in Nat /\ Cardinality(Outside) \in Nat
  BY <1>t, Sizes
<1>2. CASE Backlog(p, d) < Limit(d)
  BY <1>1, <1>2, ShortBelow
<1>3. CASE Idle(d) /\ queue[d] = <<>>
  <2>1. Backlog(p, d) = Cardinality(Outside)
    <3>1. InWay(p, d) = {}
      BY <1>3 DEF InWay
    <3>2. Cardinality(InWay(p, d)) = 0
      BY <3>1, FS_EmptySet
    <3>3. Ahead(d) = 0
      BY <1>3 DEF Ahead, Idle
    <3> QED
      BY <1>a, <3>2, <3>3 DEF Backlog
  <2>2. Due(sched'[p]) => Backlog(p, d) < Limit(d)
    <3> SUFFICES ASSUME Due(sched'[p]) PROVE Backlog(p, d) < Limit(d)
      OBVIOUS
    <3>1. Elapsed(sched[p]).armed = sched[p].armed
      BY <1>t DEF Elapsed, Timers
    <3>2. sched[p].armed
      BY <1>0, <3>1 DEF Due
    <3>3. loc[p] # "fair"
      BY <3>2 DEF Apart
    <3>4. Cardinality(Outside) < Cardinality(Tasks)
      BY <1>t, <3>3, Sizes
    <3> QED
      BY <1>a, <2>1, <3>4
  <2>3. Backlog(p, d) <= Limit(d)
    BY DEF Short
  <2>4. Due(sched'[p]) => Backlog(p, d)' < Limit(d)'
    BY <1>1, <2>2
  <2>5. Backlog(p, d)' <= Limit(d)'
    BY <1>1, <2>3
  <2>6. Idle(d)' /\ queue'[d] = <<>>
    BY <1>0, <1>1, <1>3
  <2> QED
    BY <2>4, <2>5, <2>6 DEF Short
<1> QED
  BY <1>0, <1>2, <1>3 DEF Short

(* rms_dispatch leaves the queue behind the pids it popped: the one at     *)
(* which it stopped is gone, or there was none and the queue is empty.     *)
LEMMA PoppedStop ==
  ASSUME TypeOK, NEW c \in CPUs
  PROVE  /\ Stops(c) = {} => Popped(c) = Len(queue[c])
         /\ Stops(c) # {} => \E j \in Stops(c) : j <= Popped(c)
<1> DEFINE n == Popped(c)
           l == Len(queue[c])
           heads == {i \in 1 .. l : \A j \in Stops(c) : i <= j}
<1>0. /\ n \in Nat /\ l \in Nat /\ Stops(c) \subseteq 1 .. l
      /\ n = Cardinality(heads)
  BY QueuedPids, DispatchTypes DEF Stops, Popped
<1> HIDE DEF n, l
<1>1. IsFiniteSet(1 .. l) /\ Cardinality(1 .. l) = l
  <2>1. l \in Int /\ 1 \in Int
    BY <1>0
  <2>2. IsFiniteSet(1 .. l) /\ Cardinality(1 .. l) = IF 1 > l THEN 0 ELSE l - 1 + 1
    BY <2>1, FS_Interval
  <2> QED
    BY <1>0, <2>2
<1>2. ASSUME Stops(c) = {} PROVE n = l
  <2>1. heads = 1 .. l
    BY <1>2
  <2> HIDE DEF heads
  <2> QED
    BY <1>0, <1>1, <2>1
<1>3. ASSUME Stops(c) # {} PROVE \E j \in Stops(c) : j <= n
  <2> SUFFICES ASSUME \A j \in Stops(c) : ~(j <= n) PROVE FALSE
    OBVIOUS
  <2> PICK j \in Stops(c) : TRUE
    BY <1>3
  <2>0. j \in 1 .. l /\ ~(j <= n)
    BY <1>0
  <2>1. j \in 1 .. l /\ n + 1 <= j
    BY <1>0, <2>0
  <2>2. 1 .. n + 1 \subseteq heads
    <3> SUFFICES ASSUME NEW i \in 1 .. n + 1 PROVE i \in heads
      OBVIOUS
    <3>1. i \in 1 .. l
      BY <1>0, <2>1
    <3>2. ASSUME NEW k \in Stops(c) PROVE i <= k
      <4>1. k \in 1 .. l /\ ~(k <= n)
        BY <1>0
      <4> QED
        BY <1>0, <4>1
    <3> QED
      BY <3>1, <3>2
  <2>3. heads \subseteq 1 .. l
    OBVIOUS
  <2> HIDE DEF heads
  <2>4. Cardinality(1 .. n + 1) <= Cardinality(heads)
    BY <1>1, <2>2, <2>3, FS_Subset
  <2>5. Cardinality(1 .. n + 1) = n + 1
    <3>1. n + 1 \in Int /\ 1 \in Int /\ 1 <= n + 1
      BY <1>0
    <3> DEFINE m == n + 1
    <3>2. m \in Int /\ 1 <= m
      BY <3>1
    <3> HIDE DEF m
    <3>3. Cardinality(1 .. m) = m - 1 + 1
      BY <3>2, FS_Interval
    <3> QED
      BY <3>2, <3>3 DEF m
  <2> QED
    BY <1>0, <2>4, <2>5
<1> QED
  BY <1>2, <1>3 DEF n, l

LEMMA RestOfQueue ==
  ASSUME TypeOK, NEW c \in CPUs, Dispatch(c)
  PROVE  \A i \in DOMAIN queue'[c] :
           /\ i \in Nat /\ i >= 1
           /\ Popped(c) + i \in DOMAIN queue[c]
           /\ queue'[c][i] = queue[c][Popped(c) + i]
<1> DEFINE n == Popped(c)
           l == Len(queue[c])
           rest == SubSeq(queue[c], n + 1, l)
<1>0. n \in Nat /\ l \in Nat /\ queue[c] \in Seq(Tasks) /\ DOMAIN queue[c] = 1 .. l
  BY QueuedPids, DispatchTypes
<1>1. queue'[c] = rest
  <2>1. queue \in [CPUs -> Seq(Tasks)]
    BY DEF TypeOK
  <2> QED
    BY <2>1 DEF Dispatch
<1> HIDE DEF n
<1>2. CASE n + 1 <= l
  <2>1. /\ DOMAIN rest = 1 .. l - n
        /\ \A i \in 1 .. l - n : rest[i] = queue[c][n + i]
    <3>1. Len(rest) = l - n /\ rest \in Seq(Tasks)
          /\ \A i \in 1 .. l - n : rest[i] = queue[c][n + i]
      BY <1>0, <1>2, SubSeqProperties
    <3>2. DOMAIN rest = 1 .. Len(rest)
      <4> HIDE DEF rest
      <4> QED
        BY <3>1, LenProperties
    <3> QED
      BY <3>1, <3>2
  <2> HIDE DEF rest, l
  <2>2. \A i \in 1 .. l - n : i \in Nat /\ i >= 1 /\ n + i \in 1 .. l
    BY <1>0, <1>2
  <2> QED
    BY <1>0, <1>1, <2>1, <2>2 DEF n
<1>3. CASE ~(n + 1 <= l)
  <2>1. rest = <<>>
    <3>1. Len(rest) = 0 /\ rest \in Seq(Tasks)
      BY <1>0, <1>3, SubSeqProperties
    <3> HIDE DEF rest
    <3> QED
      BY <3>1, EmptySeq
  <2>2. DOMAIN queue'[c] = {}
    <3>1. queue'[c] = <<>>
      BY <1>1, <2>1
    <3> QED
      BY <3>1
  <2> QED
    BY <2>2
<1> QED
  BY <1>2, <1>3

LEMMA DispatchOthers ==
  ASSUME TypeOK, NEW c \in CPUs, Dispatch(c)
  PROVE  /\ UNCHANGED <<hashed, admitted, curr>>
         /\ \A p \in Tasks : Due(sched'[p]) => Due(sched[p])
         /\ \A d \in CPUs \ {c} : /\ queue'[d] = queue[d] /\ local'[d] = local[d]
                                  /\ resched'[d] = resched[d] /\ phase'[d] = phase[d]
<1>t. /\ queue \in [CPUs -> Seq(Tasks)] /\ local \in [CPUs -> Seq(Tasks)]
      /\ resched \in [CPUs -> BOOLEAN] /\ phase \in [CPUs -> {"run", "put", "pick"}]
      /\ \A p \in Tasks : sched[p] \in Timers /\ Period[p] \in Nat /\ Period[p] # 0
  BY DEF TypeOK
<1>1. UNCHANGED <<hashed, admitted, curr>>
  BY DEF Dispatch, maps
<1>2. ASSUME NEW p \in Tasks, Due(sched'[p]) PROVE Due(sched[p])
  <2>1. sched'[p] = IF p \in Restarted(c)
                    THEN rms_timer_start(RemainOr(sched[p], Period[p]), Period[p], c)
                    ELSE sched[p]
    BY DEF Dispatch
  <2>2. RemainOr(sched[p], Period[p]) # 0
    BY <1>t DEF RemainOr
  <2> QED
    BY <1>2, <2>1, <2>2 DEF Due, rms_timer_start
<1>3. /\ queue' = [queue EXCEPT ![c] = SubSeq(@, Popped(c) + 1, Len(@))]
      /\ local' = local \/ \E p \in First(c) : local' = [local EXCEPT ![c] = <<p>>]
      /\ \E b \in BOOLEAN : resched' = [resched EXCEPT ![c] = b]
      /\ \E x \in {"run", "put"} : phase' = [phase EXCEPT ![c] = x]
  <2>1. (Dispatched(c) # {}) \in BOOLEAN
    OBVIOUS
  <2> QED
    BY <2>1 DEF Dispatch
<1>4. ASSUME NEW d \in CPUs \ {c}
      PROVE  /\ queue'[d] = queue[d] /\ local'[d] = local[d]
             /\ resched'[d] = resched[d] /\ phase'[d] = phase[d]
  BY <1>t, <1>3
<1> QED
  BY <1>1, <1>2, <1>4

(* One pid fewer is in the way when dispatch_loop stopped.                 *)
LEMMA StopTaken ==
  ASSUME TypeOK, TypeOK', NEW c \in CPUs, Dispatch(c), Stops(c) # {}, NEW p \in Tasks
  PROVE  Cardinality(InWay(p, c))' < Cardinality(InWay(p, c))
<1> DEFINE n == Popped(c)
           A == InWay(p, c)
           B == InWay(p, c)'
<1>0. /\ n \in Nat /\ IsFiniteSet(A) /\ Cardinality(A) \in Nat
      /\ Cardinality(B) \in Nat /\ A \subseteq DOMAIN queue[c]
      /\ DOMAIN queue[c] = 1 .. Len(queue[c]) /\ Len(queue[c]) \in Nat
  <2>1. Cardinality(InWay(p, c))' \in Nat
    BY SizesStay DEF AllSizes
  <2> QED
    BY <2>1, Sizes, DispatchTypes, QueuedPids DEF InWay
<1> PICK j \in Stops(c) : j <= n
  BY PoppedStop
<1>1. j \in A /\ j \in Nat
  BY <1>0 DEF InWay, Stops
<1>2. ASSUME NEW i \in B PROVE i \in Nat /\ n + i \in A \ {j}
  <2>1. /\ i \in DOMAIN queue'[c]
        /\ queue'[c][i] = p \/ queue'[c][i] \notin hashed \cap admitted
    BY DispatchOthers DEF InWay, Stops
  <2>2. /\ i \in Nat /\ i >= 1
        /\ n + i \in DOMAIN queue[c] /\ queue'[c][i] = queue[c][n + i]
    BY <2>1, RestOfQueue
  <2>3. n + i \in A
    BY <2>1, <2>2 DEF InWay, Stops
  <2> HIDE DEF n
  <2>4. n + i # j
    BY <1>0, <1>1, <2>2
  <2> QED
    BY <2>2, <2>3, <2>4
<1> HIDE DEF n, A, B
<1> DEFINE f == [i \in B |-> n + i]
           C == A \ {j}
<1>3. f \in Injection(B, C)
  <2>1. f \in [B -> C]
    BY <1>2
  <2>2. \A i, k \in B : f[i] = f[k] => i = k
    BY <1>0, <1>2
  <2> HIDE DEF f, C
  <2> QED
    BY <2>1, <2>2 DEF Injection, IsInjective
<1>4. IsFiniteSet(C) /\ Cardinality(C) = Cardinality(A) - 1
  BY <1>0, <1>1, FS_RemoveElement
<1> HIDE DEF f, C
<1>5. Cardinality(B) <= Cardinality(C)
  BY <1>3, <1>4, FS_Injection
<1>6. Cardinality(B) < Cardinality(A)
  BY <1>0, <1>4, <1>5
<1> QED
  BY <1>6 DEF A, B

LEMMA ShortDispatch ==
  ASSUME TypeOK, TypeOK', Apart', NEW c \in CPUs, Dispatch(c),
         Outside' \subseteq Outside, NEW p \in Tasks, Short(p)
  PROVE  Short(p)'
<1> DEFINE d == AttrCpu[p]
<1>t. /\ local \in [CPUs -> Seq(Tasks)] /\ resched \in [CPUs -> BOOLEAN]
      /\ phase \in [CPUs -> {"run", "put", "pick"}] /\ loc \in [Tasks -> Places]
      /\ First(c) \subseteq Tasks /\ d \in CPUs
  BY DispatchTypes DEF TypeOK
<1>0. UNCHANGED <<hashed, admitted, curr>> /\ (Due(sched'[p]) => Due(sched[p]))
  BY DispatchOthers
<1>1. CASE c # d
  <2>1. /\ queue'[d] = queue[d] /\ local'[d] = local[d]
        /\ resched'[d] = resched[d] /\ phase'[d] = phase[d]
    BY <1>1, <1>t, DispatchOthers
  <2>2. Ahead(d)' = Ahead(d) /\ (Idle(d) => Idle(d)')
    BY <1>0, <2>1 DEF Ahead, Idle
  <2>3. Ahead(d) \in Nat
    BY <1>t, Sizes
  <2>4. Ahead(d)' <= Ahead(d)
    BY <2>2, <2>3
  <2> QED
    BY <1>0, <2>1, <2>2, <2>4, StillShort
<1>2. CASE c = d
  <2>a. /\ Backlog(p, d) \in Nat /\ Limit(d) \in Nat
        /\ Cardinality(Outside) \in Nat /\ Cardinality(InWay(p, d)) \in Nat
        /\ IsFiniteSet(Outside) /\ Cardinality(Tasks) \in Nat
    BY <1>t, Sizes
  <2>b. /\ Backlog(p, d)' \in Nat /\ Limit(d)' \in Nat /\ Cardinality(Outside)' \in Nat
        /\ Cardinality(InWay(p, d))' \in Nat
        /\ Cardinality(Tasks) <= Limit(d)' /\ Cardinality(Outside)' <= Cardinality(Tasks)
        /\ \A q \in Tasks : loc'[q] # "fair" => Cardinality(Outside)' < Cardinality(Tasks)
    BY <1>t, SizesStay DEF AllSizes
  <2>1. local[d] = <<>> /\ Ahead(d) = 0
    BY <1>2 DEF Dispatch, Ahead
  <2>2. Ahead(d)' = 0
    <3>1. CASE First(c) = {}
      BY <1>2, <2>1, <3>1 DEF Dispatch, Ahead
    <3>2. CASE First(c) # {}
      <4> PICK q \in First(c) :
            local' = [local EXCEPT ![c] = <<q>>] /\ phase' = [phase EXCEPT ![c] = "put"]
        BY <3>2 DEF Dispatch
      <4>1. local'[d] = <<q>> /\ phase'[d] = "put"
        BY <1>2, <1>t
      <4>2. <<q>> # <<>> /\ Len(<<q>>) = 1
        OBVIOUS
      <4>3. local'[d] # <<>> /\ Len(local'[d]) = 1 /\ phase'[d] # "run"
        BY <4>1, <4>2
      <4> QED
        BY <4>3 DEF Ahead
    <3> QED
      BY <3>1, <3>2
  <2>3. CASE Stops(d) # {}
    <3>1. Cardinality(InWay(p, d))' < Cardinality(InWay(p, d))
      BY <1>2, <1>t, <2>3, StopTaken
    <3>2. Cardinality(Outside)' <= Cardinality(Outside)
      BY <2>a, FS_Subset
    <3>3. Backlog(p, d)' < Backlog(p, d)
      BY <2>1, <2>2, <2>a, <2>b, <3>1, <3>2 DEF Backlog
    <3>4. Backlog(p, d) <= Limit(d) /\ Limit(d)' = Limit(d)
      BY <1>0, <1>t, LimitKept DEF Short
    <3>5. Backlog(p, d)' < Limit(d)'
      BY <2>a, <2>b, <3>3, <3>4
    <3> QED
      BY <3>5, ShortBelow
  <2>4. CASE Stops(d) = {}
    <3>1. queue'[d] = <<>>
      <4>1. Popped(d) = Len(queue[d])
        BY <1>t, <2>4, PoppedStop
      <4>2. queue[d] \in Seq(Tasks) /\ Len(queue[d]) \in Nat /\ DOMAIN queue[d] = 1 .. Len(queue[d])
        BY <1>t, QueuedPids
      <4>3. \A i \in DOMAIN queue'[d] : i \in Nat /\ i >= 1 /\ Popped(d) + i \in DOMAIN queue[d]
        BY <1>2, <1>t, RestOfQueue
      <4>4. DOMAIN queue'[d] = {}
        <5> SUFFICES ASSUME NEW i \in DOMAIN queue'[d] PROVE FALSE
          OBVIOUS
        <5> DEFINE l == Len(queue[d])
        <5>1. i \in Nat /\ i >= 1 /\ l + i \in 1 .. l /\ l \in Nat
          BY <4>1, <4>2, <4>3
        <5> HIDE DEF l
        <5> QED
          BY <5>1
      <4>5. queue'[d] \in Seq(Tasks)
        BY <1>t DEF TypeOK
      <4>6. Len(queue'[d]) = 0
        <5> DEFINE r == queue'[d]
        <5>1. r \in Seq(Tasks) /\ DOMAIN r = {}
          BY <4>4, <4>5
        <5> HIDE DEF r
        <5>2. Len(r) \in Nat /\ DOMAIN r = 1 .. Len(r)
          BY <5>1, LenProperties
        <5>3. Len(r) = 0
          BY <5>1, <5>2
        <5> QED
          BY <5>3 DEF r
      <4> QED
        BY <4>5, <4>6, EmptySeq
    <3>2. Backlog(p, d)' = Cardinality(Outside)'
      <4>1. InWay(p, d)' = {}
        BY <3>1 DEF InWay
      <4>2. Cardinality(InWay(p, d))' = 0
        BY <4>1, FS_EmptySet
      <4> QED
        BY <2>2, <2>b, <4>2 DEF Backlog
    <3>3. CASE First(c) # {}
      <4> PICK q \in First(c) :
            loc' = [[r \in Tasks |-> IF r \in Inserted(c) THEN "queued" ELSE loc[r]]
                      EXCEPT ![q] = "local"]
        BY <3>3 DEF Dispatch
      <4>1. q \in Tasks /\ loc'[q] # "fair"
        BY <1>t
      <4>3. Cardinality(Outside)' < Cardinality(Tasks)
        BY <2>b, <4>1
      <4>2. Backlog(p, d)' < Limit(d)'
        BY <2>a, <2>b, <3>2, <4>3
      <4> QED
        BY <4>2, ShortBelow
    <3>4. CASE First(c) = {}
      <4>1. Backlog(p, d)' <= Limit(d)'
        BY <2>a, <2>b, <3>2
      <4>2. Due(sched'[p]) => Backlog(p, d)' < Limit(d)'
        <5> SUFFICES ASSUME Due(sched'[p]) PROVE Backlog(p, d)' < Limit(d)'
          OBVIOUS
        <5>1. loc'[p] # "fair"
          BY DEF Apart, Due
        <5> QED
          BY <2>a, <2>b, <3>2, <5>1
      <4>3. ~resched'[d] => Idle(d)'
        <5>1. /\ resched' = [resched EXCEPT ![c] = Dispatched(c) # {}]
              /\ phase' = [phase EXCEPT ![c] = IF Dispatched(c) # {} THEN "run" ELSE "put"]
              /\ UNCHANGED local
          BY <3>4 DEF Dispatch
        <5>2. resched'[d] = (Dispatched(c) # {})
          BY <1>2, <1>t, <5>1, Zenon
        <5>3. phase'[d] = IF Dispatched(c) # {} THEN "run" ELSE "put"
          BY <1>2, <1>t, <5>1
        <5>4. ~resched'[d] => phase'[d] # "run"
          BY <5>2, <5>3
        <5> QED
          BY <2>1, <5>1, <5>4 DEF Idle
      <4> QED
        BY <3>1, <4>1, <4>2, <4>3 DEF Short
    <3> QED
      BY <3>3, <3>4
  <2> QED
    BY <2>3, <2>4
<1> QED
  BY <1>1, <1>2

(* A task of the local DSQ that is picked makes room, and nothing else     *)
(* does: PutPrev and PickNext only carry it on.                            *)
LEMMA ShortSchedule ==
  ASSUME TypeOK, TypeOK', Structure, NEW c \in CPUs,
         SkipDispatch(c) \/ PutPrev(c) \/ PickNext(c),
         Outside' \subseteq Outside, NEW p \in Tasks, Short(p)
  PROVE  Short(p)'
<1> DEFINE d == AttrCpu[p]
<1>t. /\ local \in [CPUs -> Seq(Tasks)] /\ resched \in [CPUs -> BOOLEAN]
      /\ curr \in [CPUs -> Tasks \cup {NoTask}]
      /\ phase \in [CPUs -> {"run", "put", "pick"}] /\ d \in CPUs
  BY DEF TypeOK
<1>l. local[d] \in Seq(Tasks) /\ Len(local[d]) \in Nat /\ Ahead(d) \in Nat
  BY <1>t, LocalTasks, Sizes
<1>0. UNCHANGED <<hashed, admitted, queue, sched>>
  BY DEF SkipDispatch, PutPrev, PickNext, tasks, maps
<1>1. CASE c # d
  <2>1. /\ local'[d] = local[d] /\ resched'[d] = resched[d]
        /\ phase'[d] = phase[d] /\ curr'[d] = curr[d]
    BY <1>1, <1>t DEF SkipDispatch, PutPrev, PickNext
  <2>2. Ahead(d)' = Ahead(d) /\ (Idle(d) => Idle(d)')
    BY <2>1 DEF Ahead, Idle
  <2>3. Ahead(d)' <= Ahead(d)
    BY <1>l, <2>2
  <2> QED
    BY <1>0, <2>1, <2>2, <2>3, StillShort
<1>2. CASE c = d /\ SkipDispatch(c)
  <2>1. /\ phase[d] = "run" /\ phase'[d] = "put" /\ local'[d] = local[d] /\ local[d] # <<>>
        /\ UNCHANGED loc
    BY <1>2, <1>t DEF SkipDispatch, tasks
  <2>2. Ahead(d) = Len(local[d]) /\ Ahead(d)' = Len(local[d]) - 1
    BY <2>1 DEF Ahead
  <2>3. InWay(p, d)' = InWay(p, d) /\ Outside' = Outside /\ Limit(d)' = Limit(d)
    BY <1>0, <1>t, <2>1, LimitKept DEF InWay, Stops, Outside
  <2>4. /\ Backlog(p, d) \in Nat /\ Limit(d) \in Nat
        /\ Cardinality(Outside) \in Nat /\ Cardinality(InWay(p, d)) \in Nat
    BY <1>t, Sizes
  <2>5. Backlog(p, d)' = Backlog(p, d) - 1
    <3>1. Cardinality(InWay(p, d))' = Cardinality(InWay(p, d))
          /\ Cardinality(Outside)' = Cardinality(Outside)
      BY <2>3
    <3> QED
      BY <1>l, <2>2, <2>4, <3>1 DEF Backlog
  <2>6. Backlog(p, d) <= Limit(d)
    BY DEF Short
  <2>7. Backlog(p, d)' < Limit(d)'
    BY <2>3, <2>4, <2>5, <2>6
  <2> QED
    BY <2>7, ShortBelow
<1>3. CASE c = d /\ PutPrev(c)
  <2>1. /\ phase[d] = "put" /\ phase'[d] = "pick" /\ UNCHANGED <<local, resched>>
    BY <1>3, <1>t DEF PutPrev
  <2>2. Ahead(d)' = Ahead(d) /\ (Idle(d) => Idle(d)')
    BY <2>1 DEF Ahead, Idle
  <2>3. Ahead(d)' <= Ahead(d)
    BY <1>l, <2>2
  <2> QED
    BY <1>0, <2>1, <2>2, <2>3, StillShort
<1>4. CASE c = d /\ PickNext(c)
  <2>1. /\ phase[d] = "pick" /\ phase'[d] = "run" /\ UNCHANGED resched /\ curr[d] = NoTask
    BY <1>4, <1>t DEF PickNext, Structure, CurrRuns
  <2>2. CASE local[d] = <<>>
    <3>1. UNCHANGED <<local, curr>>
      BY <1>4, <2>2 DEF PickNext
    <3>2. Ahead(d)' = Ahead(d) /\ (~resched'[d] => (Idle(d) => Idle(d)'))
      BY <2>1, <2>2, <3>1 DEF Ahead, Idle
    <3>3. Ahead(d)' <= Ahead(d)
      BY <1>l, <3>2
    <3> QED
      BY <1>0, <2>1, <3>2, <3>3, StillShort
  <2>3. CASE local[d] # <<>>
    <3>1. local'[d] = Tail(local[d])
      BY <1>4, <1>t, <2>3 DEF PickNext
    <3>2. Len(Tail(local[d])) = Len(local[d]) - 1
      BY <1>l, <2>3, HeadTailProperties
    <3>3. Ahead(d)' = Len(local[d]) - 1 /\ Ahead(d) = Len(local[d]) - 1 /\ ~Idle(d)
      BY <2>1, <2>3, <3>1, <3>2 DEF Ahead, Idle
    <3>4. Ahead(d)' <= Ahead(d)
      BY <1>l, <3>3
    <3> QED
      BY <1>0, <2>1, <3>3, <3>4, StillShort
  <2> QED
    BY <2>2, <2>3
<1> QED
  BY <1>1, <1>2, <1>3, <1>4

LEMMA ShortStep ==
  TypeOK /\ Structure /\ OwnPids /\ Apart /\ AllShort /\ [Next]_vars => AllShort'
<1> SUFFICES ASSUME TypeOK, Structure, OwnPids, Apart, AllShort, [Next]_vars, NEW p \in Tasks
             PROVE  Short(p)'
  BY DEF AllShort
<1>1. TypeOK' /\ Outside' \subseteq Outside /\ Apart'
  BY TypeStep, NoneGetsFair, ApartStep
<1>2. Short(p) /\ \A q \in Tasks : Short(q)
  BY DEF AllShort
<1>3. ASSUME NEW q \in Tasks, TaskStep(q) PROVE Short(p)'
  BY <1>1, <1>2, <1>3, ShortEnter, ShortWhenCalled, ShortGone DEF TaskStep
<1>4. ASSUME NEW q \in Tasks, Callback(q) PROVE Short(p)'
  BY <1>1, <1>2, <1>4, ShortCallback
<1>5. ASSUME NEW c \in CPUs, Schedule(c) PROVE Short(p)'
  BY <1>1, <1>2, <1>5, ShortDispatch, ShortSchedule DEF Schedule
<1>6. CASE Tick
  BY <1>1, <1>2, <1>6, ShortTick
<1>7. CASE UNCHANGED vars
  BY <1>2, <1>7
     DEF vars, tasks, cpus, maps, Short, Backlog, InWay, Stops, Ahead, Outside, Limit, Gone, Idle
<1> QED
  BY <1>3, <1>4, <1>5, <1>6, <1>7 DEF Next

LEMMA ShortInit == Init => AllShort
<1> SUFFICES ASSUME Init, NEW p \in Tasks PROVE Short(p)
  BY DEF AllShort
<1> DEFINE d == AttrCpu[p]
<1>1. TypeOK /\ d \in CPUs
  BY InitTypes
<1>2. local[d] = <<>> /\ queue[d] = <<>> /\ phase[d] = "run" /\ curr[d] = NoTask
      /\ ~resched[d] /\ ~Due(sched[p])
  BY <1>1 DEF Init, EmptyTimer, Due
<1>3. Cardinality(InWay(p, d)) = 0
  <2>1. InWay(p, d) = {}
    BY <1>2 DEF InWay
  <2> QED
    BY <2>1, FS_EmptySet
<1>4. Ahead(d) = 0
  BY <1>2 DEF Ahead
<1>5. /\ Cardinality(Outside) \in Nat /\ Cardinality(Tasks) \in Nat /\ Limit(d) \in Nat
      /\ Cardinality(Outside) <= Cardinality(Tasks) /\ Cardinality(Tasks) <= Limit(d)
  BY <1>1, Sizes
<1>6. Backlog(p, d) <= Limit(d)
  BY <1>3, <1>4, <1>5 DEF Backlog
<1> QED
  BY <1>2, <1>6 DEF Short, Idle

(* rms_callback_period ignores whether cpu_queue_push found room: no pid is*)
(* queued more often than there are tasks, or, where dispatch_loop stops at*)
(* the pids of tasks that exit, than twice that for the first such task of *)
(* the CPU, four times for the second, and so on.                          *)
THEOREM ReadyQueuesStayShort == Spec => []QueueStaysShort
<1>1. Init => OwnPids /\ Apart /\ AllShort
  <2> SUFFICES ASSUME Init PROVE OwnPids /\ Apart
    BY ShortInit
  <2> QED
    BY DEF Init, OwnPids, Apart, EmptyTimer
<1>2. TypeOK /\ OwnPids /\ [Next]_vars => OwnPids'
  BY OwnPidsStep
<1>3. TypeOK /\ Structure /\ Apart /\ [Next]_vars => Apart'
  BY ApartStep
<1>4. TypeOK /\ Structure /\ OwnPids /\ Apart /\ AllShort /\ [Next]_vars => AllShort'
  BY ShortStep
<1>5. TypeOK /\ OwnPids /\ AllShort => QueueStaysShort
  <2> SUFFICES ASSUME TypeOK, OwnPids, AllShort, NEW c \in CPUs, NEW p \in Tasks
               PROVE  Copies(p, c) <= Cardinality(Tasks) * 2 ^ Cardinality(Gone(c))
    BY DEF QueueStaysShort
  <2> DEFINE copies == {i \in DOMAIN queue[c] : queue[c][i] = p}
  <2>1. Copies(p, c) <= Limit(c)
    <3>a. Limit(c) \in Nat
      BY Sizes
    <3>1. CASE AttrCpu[p] = c
      <4>1. /\ IsFiniteSet(InWay(p, c)) /\ Cardinality(InWay(p, c)) \in Nat
            /\ Cardinality(Outside) \in Nat /\ Ahead(c) \in Nat
        BY Sizes
      <4>2. copies \subseteq InWay(p, c)
        BY DEF InWay
      <4>3. Backlog(p, c) <= Limit(c)
        BY <3>1 DEF AllShort, Short
      <4>4. Copies(p, c) = Cardinality(copies)
        BY DEF Copies
      <4> HIDE DEF copies
      <4>5. Cardinality(copies) <= Cardinality(InWay(p, c)) /\ Cardinality(copies) \in Nat
        BY <4>1, <4>2, FS_Subset, FS_CardinalityType
      <4> QED
        BY <3>a, <4>1, <4>3, <4>4, <4>5 DEF Backlog
    <3>2. CASE AttrCpu[p] # c
      <4>1. copies = {}
        BY <3>2, QueuedPids DEF OwnPids
      <4>2. Copies(p, c) = 0
        BY <4>1, FS_EmptySet DEF Copies
      <4> QED
        BY <3>a, <4>2
    <3> QED
      BY <3>1, <3>2
  <2>2. Limit(c) = Cardinality(Tasks) * 2 ^ Cardinality(Gone(c))
    <3>1. IsFiniteSet(Gone(c))
      BY Sizes
    <3>2. Cardinality(SUBSET Gone(c)) = 2 ^ Cardinality(Gone(c))
      BY <3>1, FS_SUBSET
    <3> QED
      BY <3>2 DEF Limit
  <2> QED
    BY <2>1, <2>2
<1> QED
  BY <1>1, <1>2, <1>3, <1>4, <1>5, StructureInv, PTL DEF Spec

=============================================================================
