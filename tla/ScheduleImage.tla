---------------------------- MODULE ScheduleImage ----------------------------
(***************************************************************************)
(* The scheduling delays of proc_image (schedule_image.bpf.c): the time a  *)
(* task becomes runnable is stored in its entry of proc_schedule, and when *)
(* the task is switched in the difference is summed up and counted.  count *)
(* starts at 1 so that the user never divides by 0; the map enable_add,    *)
(* here the field add, keeps the first delay from being counted twice.     *)
(*                                                                         *)
(* The environment is the scheduler.  The probes of one task run under its *)
(* run queue's lock, so each is one step; any of them may be missed, when  *)
(* it is not attached yet or the kernel skips it.  A task sets its state   *)
(* before it calls schedule, and may be preempted in between, when it      *)
(* stays runnable; and after sched_process_exit it runs on for a while,    *)
(* and may wait, sleep and be woken, until it is dead.                     *)
(***************************************************************************)
EXTENDS Naturals, FiniteSets, BpfMaps

CONSTANTS SiTasks,
          SiCpus,         \* number of CPUs
          MaxClock        \* bound on the clock

Absent == "absent"   \* for the place of the idle task

ASSUME ScheduleAssumption ==
    SiCpus \in Nat /\ MaxClock \in Nat /\ Absent \notin SiTasks

VARIABLES siTask,         \* where each task is, and since when it waits
          siMap,          \* maps proc_schedule and enable_add
          siClock,
          siReal,         \* the waits of a task that its entry stands for
          siMissed,       \* tasks with an entry that missed an event of
                          \* theirs or is that of an earlier task
          siLate          \* tasks whose entry the exit did not delete, or
                          \* that became runnable after it

siVars == <<siTask, siMap, siClock, siReal, siMissed, siLate>>

NoWaits == [count |-> 0, sum |-> 0]
NoTask  == [at |-> "none", since |-> 0, state |-> "running", exited |-> FALSE]

On(t)     == siTask[t].at = "cpu"
Busy      == {t \in SiTasks : On(t)}
Queued(t) == siTask[t].at = "queue"

\* Tracing begins when tasks sleep, wait or run, some of them exiting.
ScheduleInit ==
    /\ siTask \in [SiTasks -> {NoTask} \union
                              [at : {"sleep", "queue", "cpu"}, since : {0},
                               state : {"running", "sleep"}, exited : BOOLEAN]]
    /\ \A t \in SiTasks : siTask[t].at = "sleep" => siTask[t].state = "sleep"
    /\ Cardinality(Busy) <= SiCpus
    /\ siMap = [t \in {} |-> 0]
    /\ siClock = 0
    /\ siReal = [t \in SiTasks |-> NoWaits]
    /\ siMissed = {}
    /\ siLate = {}

Ticks == siClock < MaxClock /\ siClock' = siClock + 1
now   == siClock + 1

NewEntry(add) == [enter |-> now, count |-> 1, sum |-> 0, add |-> add]

\* The maps when a probe has seen t become runnable: it makes an entry if there
\* is none, unless proc_schedule is full; when enable_add alone is full, the
\* entry has no flag there.
Runnable(t) ==
    IF t \in DOMAIN siMap THEN {[siMap EXCEPT ![t].enter = now]}
    ELSE {siMap} \union {Updated(siMap, t, NewEntry(add)) : add \in {"no", "missing"}}

\* sched_wakeup and sched_wakeup_new
Woken(t, seen) == siMap' \in IF seen THEN Runnable(t) ELSE {siMap}

\* The new task may find the entry of an earlier one of its pid.
SiFork(t) ==
    /\ siTask[t].at = "none"
    /\ Ticks
    /\ siTask' = [siTask EXCEPT ![t] = [NoTask EXCEPT !.at = "queue", !.since = now]]
    /\ \E seen \in BOOLEAN : Woken(t, seen)
    /\ siReal' = [siReal EXCEPT ![t] = NoWaits]
    /\ siMissed' = siMissed \union ({t} \intersect DOMAIN siMap)
    /\ UNCHANGED siLate

\* A sleeping task becomes runnable; one that was about to sleep stays so, and
\* may be waiting already.
SiWakeup(t) ==
    /\ siTask[t].state = "sleep"
    /\ Ticks
    /\ siTask' = [siTask EXCEPT ![t].state = "running",
                                ![t].at = IF @ = "sleep" THEN "queue" ELSE @,
                                ![t].since = IF siTask[t].at = "sleep" THEN now ELSE @]
    /\ \E seen \in BOOLEAN :
          /\ Woken(t, seen)
          /\ siMissed' = IF Queued(t) \/ (~seen /\ ~On(t))
                         THEN siMissed \union ({t} \intersect DOMAIN siMap') ELSE siMissed
          /\ siLate' = IF seen /\ siTask[t].exited THEN siLate \union {t} ELSE siLate
    /\ UNCHANGED siReal

\* set_current_state; TASK_DEAD at the end of an exit.
SiSetState(t) ==
    /\ On(t)
    /\ \/ siTask[t].state = "running"
             /\ siTask' = [siTask EXCEPT ![t].state = "sleep"]
       \/ siTask[t].state = "sleep"
             /\ siTask' = [siTask EXCEPT ![t].state = "running"]
       \/ siTask[t].state = "running" /\ siTask[t].exited
             /\ siTask' = [siTask EXCEPT ![t].state = "dead"]
    /\ UNCHANGED <<siMap, siClock, siReal, siMissed, siLate>>

-----------------------------------------------------------------------------
\* Mutant: the first delay is counted, too.
DelayedAlwaysCounted(entry) ==
    [entry EXCEPT !.count = @ + 1, !.add = "yes", !.sum = @ + (now - entry.enter)]

\* The entry when its task is switched in.
Delayed(entry) ==
    [entry EXCEPT !.count = IF entry.add = "yes" THEN @ + 1 ELSE @,
                  !.add = "yes",
                  !.sum = @ + (now - entry.enter)]

\* sched_switch looks at the state of prev alone, not at preempt.
AfterPrev(p) ==
    IF p # Absent /\ siTask[p].state = "running" THEN Runnable(p) ELSE {siMap}

AfterNext(map, n) ==
    IF n \in DOMAIN map /\ map[n].add # "missing" THEN [map EXCEPT ![n] = Delayed(@)]
    ELSE map

sched_switch(p, n) == siMap' \in {AfterNext(map, n) : map \in AfterPrev(p)}

Waits(p, preempt) == p # Absent /\ (preempt \/ siTask[p].state = "running")

PrevGoes(p, preempt) ==
    IF Waits(p, preempt) THEN [siTask[p] EXCEPT !.at = "queue", !.since = now]
    ELSE IF siTask[p].state = "dead" THEN NoTask
    ELSE [siTask[p] EXCEPT !.at = "sleep"]

\* A CPU goes from prev, or idleness, to next, or idleness.  A dead task is not
\* preempted any more.
SiSwitch(p, n, preempt) ==
    /\ p # n
    /\ IF p = Absent THEN Cardinality(Busy) < SiCpus /\ ~preempt ELSE On(p)
    /\ n # Absent => Queued(n)
    /\ preempt => n # Absent /\ siTask[p].state # "dead"
    /\ Ticks
    /\ siTask' = [t \in SiTasks |->
                     IF t = p THEN PrevGoes(p, preempt)
                     ELSE IF t = n THEN [siTask[n] EXCEPT !.at = "cpu", !.since = 0]
                     ELSE siTask[t]]
    /\ siReal' = [t \in SiTasks |->
                     IF t = n /\ t \in DOMAIN siMap
                     THEN [count |-> siReal[t].count + 1,
                           sum |-> siReal[t].sum + (now - siTask[t].since)]
                     ELSE siReal[t]]
    /\ \/ /\ sched_switch(p, n)
          /\ siMissed' = IF Waits(p, preempt) /\ siTask[p].state # "running"
                         THEN siMissed \union ({p} \intersect DOMAIN siMap) ELSE siMissed
          /\ siLate' = IF Waits(p, FALSE) /\ siTask[p].exited THEN siLate \union {p}
                       ELSE siLate
       \/ /\ siMap' = siMap
          /\ siMissed' = siMissed \union
                 ({t \in SiTasks : t = n \/ (t = p /\ Waits(p, preempt))} \intersect DOMAIN siMap)
          /\ UNCHANGED siLate

\* sched_process_exit
SiExit(t) ==
    /\ On(t) /\ ~siTask[t].exited /\ siTask[t].state = "running"
    /\ siTask' = [siTask EXCEPT ![t].exited = TRUE]
    /\ \/ /\ siMap' = Without(siMap, {t})
          /\ siReal' = [siReal EXCEPT ![t] = NoWaits]
          /\ siMissed' = siMissed \ {t}
          /\ siLate' = siLate \ {t}
       \/ /\ siLate' = siLate \union {t}
          /\ UNCHANGED <<siMap, siReal, siMissed>>
    /\ UNCHANGED siClock

ScheduleNext ==
    \/ \E t \in SiTasks : SiFork(t) \/ SiWakeup(t) \/ SiSetState(t) \/ SiExit(t)
    \/ \E p, n \in SiTasks \union {Absent}, preempt \in BOOLEAN : SiSwitch(p, n, preempt)

ScheduleSpec == ScheduleInit /\ [][ScheduleNext]_siVars

-----------------------------------------------------------------------------
\* The entry of a task has the sum of its delays and their number, the first
\* counted once, however it came to wait: forked, woken, yielding or
\* preempted - unless a probe was missed, or the task was preempted with its
\* state already set, which sched_switch takes for going to sleep, or it took
\* over an entry left behind, or enable_add was full.  A task that is gone has
\* left no entry, unless its exit was not seen or it became runnable once more
\* after sched_process_exit had deleted the entry.
SiDelaysExact ==
    \A t \in DOMAIN siMap :
        /\ t \notin siMissed /\ siMap[t].add # "missing" =>
              /\ siMap[t].sum = siReal[t].sum
              /\ siMap[t].count = IF siReal[t].count = 0 THEN 1 ELSE siReal[t].count
        /\ siTask[t].at = "none" => t \in siLate
=============================================================================
