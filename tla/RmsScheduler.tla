---------------------------- MODULE RmsScheduler ----------------------------
(***************************************************************************)
(* The rate monotonic scheduler of scx_rms.bpf.c: one action for each of   *)
(* the handlers it registers in rms_ops and each of its two timer          *)
(* callbacks, with the part of the kernel's sched_ext core that calls them.*)
(*                                                                         *)
(* A running task is one at the head of the SCHED_EXT class of its CPU;    *)
(* fair tasks that run in front of it only let time pass.  Callbacks and   *)
(* rescheduling take no time: the clock advances when none is due.  The    *)
(* ready queue of RmsQueue is the FIFO it was shown to be, without its     *)
(* bound of 2047 pids, from which QueueStaysShort keeps it.                *)
(***************************************************************************)
EXTENDS Naturals, Sequences, FiniteSets

CONSTANTS
  Tasks,                  \* the RMS tasks, admitted by librms
  CPUs,
  NoTask,                 \* what a CPU runs when it runs no RMS task
  Budget, Period,         \* task_attr.budget, task_attr.period
  AttrCpu,                \* task_attr.cpu
  Affinity,               \* the CPUs a task may use when it enters the class
  Sleepers,               \* the tasks that block and are woken
  Movers,                 \* the tasks whose affinity is changed
  Exiters,                \* the tasks that exit
  Leavers,                \* the tasks that go back to a fair policy
  FEATURE_MIGRATION,      \* the two build flags; the build sets neither
  FEATURE_BUDGET_OVERRUN

ASSUME TasksAssumption ==
  /\ IsFiniteSet(Tasks) /\ NoTask \notin Tasks
  /\ Sleepers \cup Movers \cup Exiters \cup Leavers \subseteq Tasks
ASSUME AttrAssumption ==
  /\ Budget \in [Tasks -> Nat \ {0}]
  /\ Period \in [Tasks -> Nat \ {0}]
  /\ AttrCpu \in [Tasks -> CPUs]
  /\ Affinity \in [Tasks -> SUBSET CPUs]
ASSUME FeatureAssumption ==
  FEATURE_MIGRATION \in BOOLEAN /\ FEATURE_BUDGET_OVERRUN \in BOOLEAN

VARIABLES
  (* the kernel's view of tasks and CPUs *)
  loc,        \* where a task is; "queued": in a DSQ, "limbo": runnable, but
              \*   in the hands of the BPF scheduler, which queued it nowhere
  taskCpu,    \* scx_bpf_task_cpu
  mask,       \* cpus_ptr
  dsq,        \* the DSQ a queued task is in
  local,      \* the local DSQ of each CPU
  curr,       \* the task each CPU runs
  resched,    \* a CPU that is to reschedule; the slice of its task is 0
  phase,      \* where __schedule is on each CPU
  hashed,     \* the pids bpf_task_from_pid finds
  (* the maps of the BPF program *)
  queue,      \* cpu_queues
  admitted,   \* the keys of task_attr_hmap
  timed,      \* the keys of budget_timer_hmap and sched_timer_hmap
  is_yield, is_migrate,   \* the tasks whose flag is set in task_attr_hmap
  sched, budget,          \* the timers
  scx_error   \* scx_bpf_error was called: the kernel ejects the scheduler

tasks == <<loc, taskCpu, mask, dsq, hashed>>
cpus  == <<local, curr, resched, phase>>
flags == <<is_yield, is_migrate>>
maps  == <<admitted, timed>>
vars  == <<tasks, cpus, flags, maps, queue, sched, budget, scx_error>>

----------------------------------------------------------------------------
(* struct rms_timer.  left is expire_time - now, 0 when that is past;      *)
(* armed is whether the kernel's timer will fire, on the CPU at.           *)

EmptyTimer(c) == [periodic |-> 0, remain |-> 0, left |-> 0,
                  pending |-> FALSE, armed |-> FALSE, at |-> c]

(* Mutant: expire - now is rounded down.                                   *)
cancel_rounds(timer) ==
  [timer EXCEPT !.periodic = 0, !.remain = timer.left - 1,
                !.pending = FALSE, !.armed = FALSE]

rms_timer_cancel(timer) ==
  [timer EXCEPT !.periodic = 0, !.remain = timer.left,
                !.pending = FALSE, !.armed = FALSE]

(* bpf_timer_cancel refuses to cancel the timer whose callback calls it.   *)
rms_timer_cancel_self(timer) == [timer EXCEPT !.periodic = 0, !.armed = FALSE]

rms_timer_get_remain(timer) == IF timer.pending THEN timer.left ELSE timer.remain

rms_timer_start(time, period, c) ==
  [periodic |-> period, remain |-> time, left |-> time,
   pending |-> TRUE, armed |-> TRUE, at |-> c]

(* Mutant: the timer is not started again.                                 *)
refresh_forgotten(timer) == [timer EXCEPT !.pending = FALSE, !.armed = FALSE]

(* The timer fired: pending is reset and refresh_timer runs.               *)
refresh_timer(timer) ==
  [timer EXCEPT !.remain = IF timer.periodic > 0 THEN timer.periodic ELSE timer.remain,
                !.left = timer.periodic,
                !.pending = timer.periodic > 0,
                !.armed = timer.periodic > 0]

Due(timer) == timer.armed /\ timer.left = 0

Elapsed(timer) == [timer EXCEPT !.left = IF @ > 0 THEN @ - 1 ELSE 0]

(* The time for which a timer that was stopped or expired is started.      *)
RemainOr(timer, time) ==
  IF rms_timer_get_remain(timer) = 0 THEN time ELSE rms_timer_get_remain(timer)

----------------------------------------------------------------------------

Init ==
  /\ loc = [p \in Tasks |-> "fair"]
  /\ taskCpu = AttrCpu
  /\ mask = Affinity
  /\ dsq = AttrCpu
  /\ local = [c \in CPUs |-> <<>>]
  /\ curr = [c \in CPUs |-> NoTask]
  /\ resched = [c \in CPUs |-> FALSE]
  /\ phase = [c \in CPUs |-> "run"]
  /\ hashed = Tasks
  /\ queue = [c \in CPUs |-> <<>>]
  /\ admitted = Tasks
  /\ timed = {}
  /\ is_yield = {}
  /\ is_migrate = {}
  /\ sched = [p \in Tasks |-> EmptyTimer(AttrCpu[p])]
  /\ budget = [p \in Tasks |-> EmptyTimer(AttrCpu[p])]
  /\ scx_error = FALSE

(* p is the current task of its CPU, which is not inside __schedule.       *)
IsCurrent(p) == loc[p] = "running" /\ phase[taskCpu[p]] = "run"

(* A timer interrupt comes before the next instruction of its CPU.         *)
Interrupted(c) ==
  \E p \in Tasks : \E timer \in {sched[p], budget[p]} : Due(timer) /\ timer.at = c

(* p may execute a system call.                                            *)
Calls(p) == IsCurrent(p) /\ ~Interrupted(taskCpu[p])

(* scx_bpf_kick_cpu with SCX_KICK_PREEMPT.                                 *)
Kick(c) == resched' = [resched EXCEPT ![c] = TRUE]

(* The current task of c goes elsewhere; __schedule follows.               *)
LeaveCpu(c) ==
  /\ curr' = [curr EXCEPT ![c] = NoTask]
  /\ Kick(c)
  /\ UNCHANGED <<local, phase>>

(* rms_running on CPU c, as the new value of budget.                       *)
rms_running(p, c, timers, ours) ==
  IF p \in admitted /\ p \in ours /\ ~(FEATURE_MIGRATION /\ p \in is_migrate)
  THEN [timers EXCEPT ![p] = rms_timer_start(RemainOr(@, Budget[p]), 0, c)]
  ELSE timers

(* rms_enqueue: a task that yielded is left to the period callback.        *)
rms_enqueue(p, c) ==
  IF p \in admitted \ is_yield
  THEN loc' = [loc EXCEPT ![p] = "queued"] /\ dsq' = [dsq EXCEPT ![p] = c]
  ELSE loc' = [loc EXCEPT ![p] = "limbo"] /\ UNCHANGED dsq

(* sched_setattr(SCHED_EXT) by a fair thread: the first rms_set_cpumask    *)
(* creates its timers, then it runs on as an RMS task.  The RMS task it    *)
(* had displaced waits in the local DSQ.                                   *)
EnterExt(p) == \E c \in mask[p] :
  /\ loc[p] = "fair" /\ phase[c] = "run"
  /\ ~resched[c] /\ ~Interrupted(c)
  /\ timed' = timed \cup {p}
  /\ sched' = [sched EXCEPT ![p] = rms_timer_start(Period[p], Period[p], c)]
  /\ budget' = rms_running(p, c,
       [budget EXCEPT ![p] = [EmptyTimer(c) EXCEPT !.remain = Budget[p]]], timed')
  /\ taskCpu' = [taskCpu EXCEPT ![p] = c]
  /\ curr' = [curr EXCEPT ![c] = p]
  /\ IF curr[c] = NoTask
     THEN loc' = [loc EXCEPT ![p] = "running"] /\ UNCHANGED local
     ELSE /\ loc' = [loc EXCEPT ![p] = "running", ![curr[c]] = "local"]
          /\ local' = [local EXCEPT ![c] = <<curr[c]>> \o @]
  /\ UNCHANGED <<mask, dsq, hashed, resched, phase, flags, admitted, queue, scx_error>>

(* rms_yield, then schedule().                                             *)
Yield(p) ==
  /\ Calls(p)
  /\ Kick(taskCpu[p])
  /\ IF p \in timed \cap admitted
     THEN /\ is_yield' = is_yield \cup {p}
          /\ budget' = [budget EXCEPT ![p] = rms_timer_cancel(@)]
     ELSE UNCHANGED <<is_yield, budget>>
  /\ UNCHANGED <<tasks, local, curr, phase, is_migrate, maps, queue, sched, scx_error>>

(* rms_stopping does nothing for a task that only sleeps.                  *)
Block(p) ==
  /\ p \in Sleepers /\ Calls(p)
  /\ loc' = [loc EXCEPT ![p] = "blocked"]
  /\ LeaveCpu(taskCpu[p])
  /\ UNCHANGED <<taskCpu, mask, dsq, hashed, flags, maps, queue, sched, budget, scx_error>>

rms_select_cpu(p) == IF taskCpu[p] \in mask[p] THEN {taskCpu[p]} ELSE mask[p]

(* A task that becomes runnable on c is enqueued by code that runs on cur. *)
(* An RMS task preempts an idle CPU, but not another RMS task.             *)
Activate(p, c, cur) ==
  /\ phase[c] = "run"
  /\ rms_enqueue(p, c)
  /\ taskCpu' = [taskCpu EXCEPT ![p] = c]
  /\ resched' = [resched EXCEPT
       ![c] = @ \/ curr[c] = NoTask \/ (c # cur /\ loc'[p] = "queued")]

Wake(p) == \E c \in rms_select_cpu(p), cur \in CPUs :
  /\ loc[p] = "blocked"
  /\ Activate(p, c, cur)
  /\ UNCHANGED <<mask, hashed, local, curr, phase, flags, maps, queue, sched, budget,
                 scx_error>>

----------------------------------------------------------------------------
(* __schedule on CPU c: ops.dispatch runs before the previous task is put. *)

(* dispatch_loop stops at the first pid whose task or attributes are gone. *)
Stops(c) == {i \in DOMAIN queue[c] : queue[c][i] \notin hashed \cap admitted}

(* Mutant: it goes on to the end of the queue and inserts no more.         *)
PoppedAll(c) == Len(queue[c])

Popped(c) == Cardinality({i \in DOMAIN queue[c] : \A j \in Stops(c) : i <= j})

Dispatched(c) ==
  {queue[c][i] : i \in {k \in DOMAIN queue[c] : \A j \in Stops(c) : k < j}}

(* scx_bpf_dsq_insert_vtime has an effect only on a task that rms_enqueue  *)
(* left in limbo.                                                          *)
Inserted(c) == {p \in Dispatched(c) : loc[p] = "limbo"}

(* Those scx_bpf_dsq_move_to_local may move: the DSQ is ordered by period. *)
First(c) ==
  LET waiting == {p \in Tasks : loc[p] = "queued" /\ dsq[p] = c} \cup Inserted(c)
      ready == {p \in waiting : c \in mask[p]}
  IN  {p \in ready : \A q \in ready : Period[p] <= Period[q]}

(* With FEATURE_MIGRATION dispatch_loop restarts the period timer of a     *)
(* task that was moved.                                                    *)
Restarted(c) == IF FEATURE_MIGRATION THEN Dispatched(c) \cap is_migrate ELSE {}

(* The local DSQ is not empty: ops.dispatch is not called.                 *)
SkipDispatch(c) ==
  /\ resched[c] /\ phase[c] = "run" /\ local[c] # <<>>
  /\ resched' = [resched EXCEPT ![c] = FALSE]
  /\ phase' = [phase EXCEPT ![c] = "put"]
  /\ UNCHANGED <<tasks, local, curr, flags, maps, queue, sched, budget, scx_error>>

(* rms_dispatch.  The kernel calls it again when it inserted something and *)
(* nothing came out of it.                                                 *)
Dispatch(c) ==
  /\ resched[c] /\ phase[c] = "run" /\ local[c] = <<>>
  /\ queue' = [queue EXCEPT ![c] = SubSeq(@, Popped(c) + 1, Len(@))]
  /\ sched' = [p \in Tasks |->
       IF p \in Restarted(c)
       THEN rms_timer_start(RemainOr(sched[p], Period[p]), Period[p], c)
       ELSE sched[p]]
  /\ is_migrate' = is_migrate \ Restarted(c)
  /\ dsq' = [p \in Tasks |-> IF p \in Inserted(c) THEN c ELSE dsq[p]]
  /\ LET queued == [p \in Tasks |-> IF p \in Inserted(c) THEN "queued" ELSE loc[p]]
     IN  \/ \E p \in First(c) :
              /\ loc' = [queued EXCEPT ![p] = "local"]
              /\ taskCpu' = [taskCpu EXCEPT ![p] = c]
              /\ local' = [local EXCEPT ![c] = <<p>>]
              /\ resched' = [resched EXCEPT ![c] = FALSE]
              /\ phase' = [phase EXCEPT ![c] = "put"]
         \/ /\ First(c) = {}
            /\ loc' = queued
            /\ resched' = [resched EXCEPT ![c] = Dispatched(c) # {}]
            /\ phase' = [phase EXCEPT ![c] = IF Dispatched(c) # {} THEN "run" ELSE "put"]
            /\ UNCHANGED <<taskCpu, local>>
  /\ UNCHANGED <<mask, hashed, curr, is_yield, maps, budget, scx_error>>

(* put_prev_task: the slice is 0, so the task goes back to rms_enqueue, as *)
(* it does by SCX_OPS_ENQ_LAST when there is no other task to run.         *)
PutPrev(c) ==
  /\ phase[c] = "put"
  /\ phase' = [phase EXCEPT ![c] = "pick"]
  /\ curr' = [curr EXCEPT ![c] = NoTask]
  /\ IF curr[c] = NoTask THEN UNCHANGED <<loc, dsq>> ELSE rms_enqueue(curr[c], c)
  /\ UNCHANGED <<taskCpu, mask, hashed, local, resched, flags, maps, queue, sched,
                 budget, scx_error>>

(* set_next_task: the first task of the local DSQ, and rms_running.        *)
PickNext(c) ==
  /\ phase[c] = "pick"
  /\ phase' = [phase EXCEPT ![c] = "run"]
  /\ IF local[c] = <<>>
     THEN UNCHANGED <<loc, local, curr, budget>>
     ELSE LET p == Head(local[c]) IN
          /\ loc' = [loc EXCEPT ![p] = "running"]
          /\ curr' = [curr EXCEPT ![c] = p]
          /\ local' = [local EXCEPT ![c] = Tail(@)]
          /\ budget' = rms_running(p, c, budget, timed)
  /\ UNCHANGED <<taskCpu, mask, dsq, hashed, resched, flags, maps, queue, sched, scx_error>>

Schedule(c) == SkipDispatch(c) \/ Dispatch(c) \/ PutPrev(c) \/ PickNext(c)

----------------------------------------------------------------------------
(* The timer callbacks.                                                    *)

(* Mutant: the callback does not kick the CPU.                             *)
PeriodCallbackNoKick(p) ==
  /\ Due(sched[p])
  /\ p \in hashed \cap admitted \cap timed /\ loc[p] # "left"
  /\ is_yield' = is_yield \ {p}
  /\ queue' = [queue EXCEPT ![AttrCpu[p]] = Append(@, p)]
  /\ budget' = [budget EXCEPT ![p].remain = Budget[p]]
  /\ sched' = [sched EXCEPT ![p] = refresh_timer(@)]
  /\ UNCHANGED <<tasks, cpus, is_migrate, maps, scx_error>>

(* Mutant: it kicks the CPU the task is on, not the one it pushed to.      *)
PeriodCallbackKicksTask(p) ==
  /\ Due(sched[p])
  /\ p \in hashed \cap admitted \cap timed /\ loc[p] # "left"
  /\ is_yield' = is_yield \ {p}
  /\ queue' = [queue EXCEPT ![AttrCpu[p]] = Append(@, p)]
  /\ Kick(taskCpu[p])
  /\ budget' = [budget EXCEPT ![p].remain = Budget[p]]
  /\ sched' = [sched EXCEPT ![p] = refresh_timer(@)]
  /\ UNCHANGED <<tasks, local, curr, phase, is_migrate, maps, scx_error>>

(* rms_callback_period for a task in the class: its next job is released.  *)
PeriodCallback(p) ==
  /\ Due(sched[p])
  /\ p \in hashed \cap admitted \cap timed /\ loc[p] # "left"
  /\ is_yield' = is_yield \ {p}
  /\ queue' = [queue EXCEPT ![AttrCpu[p]] = Append(@, p)]
  /\ Kick(AttrCpu[p])
  /\ budget' = [budget EXCEPT ![p].remain = Budget[p]]
  /\ sched' = [sched EXCEPT ![p] = refresh_timer(@)]
  /\ UNCHANGED <<tasks, local, curr, phase, is_migrate, maps, scx_error>>

(* Its label rms_exited: exit_rms_task gives up at the first cancellation, *)
(* that of the timer whose callback is running.                            *)
PeriodCallbackExited(p) ==
  /\ Due(sched[p])
  /\ p \notin hashed \cap admitted \cap timed \/ loc[p] = "left"
  /\ sched' = [sched EXCEPT ![p] = rms_timer_cancel_self(@)]
  /\ scx_error' = (p \in hashed /\ loc[p] = "left")
  /\ UNCHANGED <<tasks, cpus, flags, maps, queue, budget>>

(* The task that FEATURE_BUDGET_OVERRUN lets run on after p's callback.    *)
Overrunning(p) ==
  {q \in timed : FEATURE_BUDGET_OVERRUN /\ p \in is_yield /\ curr[budget[p].at] = q}

(* Mutant: the callback does not kick the CPU.                             *)
BudgetCallbackNoKick(p) ==
  /\ Due(budget[p])
  /\ is_yield' = is_yield \cup {p}
  /\ budget' = [budget EXCEPT ![p] = refresh_timer([@ EXCEPT !.remain = Budget[p]])]
  /\ UNCHANGED <<tasks, cpus, is_migrate, maps, queue, sched, scx_error>>

(* rms_callback_budget.  After either error it returns, and what it would  *)
(* have changed does not matter: the kernel ejects the scheduler.          *)
BudgetCallback(p) ==
  /\ Due(budget[p])
  /\ is_yield' = is_yield \cup {p}
  /\ budget' = [q \in Tasks |->
       IF q = p THEN refresh_timer([budget[p] EXCEPT !.remain = Budget[p]])
       ELSE IF q \in Overrunning(p) THEN rms_timer_cancel(budget[q]) ELSE budget[q]]
  /\ Kick(AttrCpu[p])
  /\ scx_error' = (p \notin admitted \/ p \in Overrunning(p))
  /\ UNCHANGED <<tasks, local, curr, phase, is_migrate, maps, queue, sched>>

Tick ==
  /\ \A p \in Tasks : ~Due(sched[p]) /\ ~Due(budget[p])
  /\ \A c \in CPUs : ~resched[c] /\ phase[c] = "run"
  /\ sched' = [p \in Tasks |-> Elapsed(sched[p])]
  /\ budget' = [p \in Tasks |-> Elapsed(budget[p])]
  /\ UNCHANGED <<tasks, cpus, flags, maps, queue, scx_error>>

----------------------------------------------------------------------------
(* Affinity changes and the ends of a task.                                *)

(* rms_set_cpumask for a task of the class whose CPU the new mask excludes;*)
(* the kernel then moves it, if it is runnable, as a task that wakes up.   *)
SetCpumask(p) == \E m \in SUBSET CPUs \ {{}}, cur \in CPUs :
  /\ p \in Movers /\ p \in timed \cap admitted
  /\ loc[p] \in {"queued", "limbo", "blocked", "running"}
  /\ phase[taskCpu[p]] = "run"
  /\ taskCpu[p] \notin m
  /\ mask' = [mask EXCEPT ![p] = m]
  /\ sched' = [sched EXCEPT ![p] = rms_timer_cancel(@)]
  /\ budget' = [budget EXCEPT ![p] = rms_timer_cancel(@)]
  /\ is_migrate' = IF FEATURE_MIGRATION THEN is_migrate \cup {p} ELSE is_migrate
  /\ IF loc[p] = "blocked"
     THEN UNCHANGED <<loc, dsq, taskCpu, curr, resched>>
     ELSE \E c \in m :
            /\ phase[c] = "run"
            /\ rms_enqueue(p, c)
            /\ taskCpu' = [taskCpu EXCEPT ![p] = c]
            /\ curr' = [d \in CPUs |-> IF curr[d] = p THEN NoTask ELSE curr[d]]
            /\ resched' = [d \in CPUs |->
                 \/ resched[d] \/ curr[d] = p
                 \/ d = c /\ (curr[d] = NoTask \/ (c # cur /\ loc'[p] = "queued"))]
  /\ UNCHANGED <<hashed, local, phase, is_yield, maps, queue, scx_error>>

(* The pid of an exiting thread is unhashed, before its last schedule() or,*)
(* for one that is waited for, after it.                                   *)
Unhash(p) ==
  /\ p \in Exiters \cap hashed
  /\ Calls(p) \/ loc[p] = "dead"
  /\ hashed' = hashed \ {p}
  /\ UNCHANGED <<loc, taskCpu, mask, dsq, cpus, flags, maps, queue, sched, budget, scx_error>>

(* Mutant: exit_rms_task does not cancel the budget timer.                 *)
ExitKeepsBudgetTimer(p) ==
  /\ p \in Exiters /\ Calls(p)
  /\ loc' = [loc EXCEPT ![p] = "dead"]
  /\ LeaveCpu(taskCpu[p])
  /\ sched' = [sched EXCEPT ![p] = EmptyTimer(taskCpu[p])]
  /\ timed' = timed \ {p}
  /\ admitted' = admitted \ {p}
  /\ is_yield' = is_yield \ {p}
  /\ is_migrate' = is_migrate \ {p}
  /\ UNCHANGED <<taskCpu, mask, dsq, hashed, queue, budget, scx_error>>

(* rms_stopping of a TASK_DEAD task: exit_rms_task, outside a callback.    *)
Exit(p) ==
  /\ p \in Exiters /\ Calls(p)
  /\ loc' = [loc EXCEPT ![p] = "dead"]
  /\ LeaveCpu(taskCpu[p])
  /\ sched' = [sched EXCEPT ![p] = EmptyTimer(taskCpu[p])]
  /\ budget' = [budget EXCEPT ![p] = EmptyTimer(taskCpu[p])]
  /\ timed' = timed \ {p}
  /\ admitted' = admitted \ {p}
  /\ is_yield' = is_yield \ {p}
  /\ is_migrate' = is_migrate \ {p}
  /\ UNCHANGED <<taskCpu, mask, dsq, hashed, queue, scx_error>>

(* A task goes back to a fair policy.  The kernel sets the policy before it*)
(* calls rms_disable, which therefore does nothing.                        *)
Leave(p) ==
  /\ p \in Leavers /\ Calls(p)
  /\ loc' = [loc EXCEPT ![p] = "left"]
  /\ LeaveCpu(taskCpu[p])
  /\ UNCHANGED <<taskCpu, mask, dsq, hashed, flags, maps, queue, sched, budget, scx_error>>

----------------------------------------------------------------------------

TaskStep(p) ==
  EnterExt(p) \/ Yield(p) \/ Block(p) \/ Wake(p) \/ SetCpumask(p)
    \/ Unhash(p) \/ Exit(p) \/ Leave(p)

Callback(p) == PeriodCallback(p) \/ PeriodCallbackExited(p) \/ BudgetCallback(p)

(* The kernel ejects the scheduler after an error; what happens then is    *)
(* not modelled, the actions go on as if it had not.                       *)
Next ==
  \/ \E p \in Tasks : TaskStep(p) \/ Callback(p)
  \/ \E c \in CPUs : Schedule(c)
  \/ Tick

Spec == Init /\ [][Next]_vars

(* The kernel reschedules when it is told to, timers fire, and time goes   *)
(* on whatever the programs do; what they do is up to them.                *)
Fairness ==
  /\ \A c \in CPUs : WF_vars(Schedule(c))
  /\ \A p \in Tasks : WF_vars(Callback(p))
  /\ SF_vars(Tick)

FairSpec == Spec /\ Fairness

----------------------------------------------------------------------------

Places == {"fair", "running", "local", "queued", "limbo", "blocked", "left", "dead"}

Timers == [periodic : Nat, remain : Nat, left : Nat,
           pending : BOOLEAN, armed : BOOLEAN, at : CPUs]

TypeOK ==
  /\ loc \in [Tasks -> Places]
  /\ taskCpu \in [Tasks -> CPUs]
  /\ mask \in [Tasks -> SUBSET CPUs]
  /\ dsq \in [Tasks -> CPUs]
  /\ local \in [CPUs -> Seq(Tasks)]
  /\ curr \in [CPUs -> Tasks \cup {NoTask}]
  /\ resched \in [CPUs -> BOOLEAN]
  /\ phase \in [CPUs -> {"run", "put", "pick"}]
  /\ queue \in [CPUs -> Seq(Tasks)]
  /\ hashed \subseteq Tasks /\ admitted \subseteq Tasks /\ timed \subseteq Tasks
  /\ is_yield \subseteq Tasks /\ is_migrate \subseteq Tasks
  /\ sched \in [Tasks -> Timers]
  /\ budget \in [Tasks -> Timers]
  /\ scx_error \in BOOLEAN

(* A task that rms_enqueue refused is out of the kernel's hands: only its  *)
(* period timer can bring it back, so that timer is armed, unless the      *)
(* task's affinity was changed or it is on its way out.                    *)
NoLostTask ==
  \A p \in Tasks \ Movers : loc[p] = "limbo" /\ p \in hashed => sched[p].armed

(* The tasks admitted to c that have exited or are on their way out: there *)
(* is none on a steady CPU.                                                *)
Gone(c) == {q \in Tasks : AttrCpu[q] = c /\ q \notin hashed \cap admitted}

Steady(c) == Gone(c) = {}

(* CPU c is going to reschedule: it has been told to, it is about to pick  *)
(* from its local DSQ, or it runs a task, whose budget will end.           *)
WillReschedule(c) ==
  \/ resched[c]
  \/ phase[c] # "run" /\ local[c] # <<>>
  \/ phase[c] = "run" /\ curr[c] # NoTask

(* A released job of a refused task is not lost: its pid is in the ready   *)
(* queue of its CPU (the flag, the push and the kick of rms_callback_period*)
(* against rms_enqueue and dispatch_loop), also when dispatch_loop has     *)
(* stopped at the pid of a task that exited; and unless one has, that CPU  *)
(* is going to reschedule.  The job is not always dispatched at once: a CPU*)
(* with a task in its local DSQ answers the kick without rms_dispatch.     *)
ReleasedWillBeDispatched ==
  \A p \in hashed \ is_yield :
    loc[p] = "limbo" =>
      /\ \E i \in DOMAIN queue[AttrCpu[p]] : queue[AttrCpu[p]][i] = p
      /\ Steady(AttrCpu[p]) => WillReschedule(AttrCpu[p])

Copies(p, c) == Cardinality({i \in DOMAIN queue[c] : queue[c][i] = p})

(* The ready queue does not fill up, although rms_callback_period pushes a *)
(* pid at every release, also when the one of the last release is still    *)
(* there, and ignores the result of cpu_queue_push.  A pid is queued again *)
(* only while the CPU works off the tasks that others displaced into its   *)
(* local DSQ, and so at most as often as there are tasks; or while         *)
(* dispatch_loop stops at the pids of a task that exited, which may be     *)
(* queued as often as any other, so that each such task doubles the bound. *)
QueueStaysShort ==
  \A c \in CPUs, p \in Tasks :
    Copies(p, c) <= Cardinality(Tasks) * 2 ^ Cardinality(Gone(c))

(* A task that runs on the CPU it was admitted to is going to be stopped:  *)
(* its budget timer is armed, within its budget, or it is being rescheduled*)
(* (rms_running, rms_callback_budget, rms_yield, rms_set_cpumask).         *)
RunningIsBudgeted ==
  \A p \in Tasks :
    IsCurrent(p) /\ taskCpu[p] = AttrCpu[p] /\ ~resched[taskCpu[p]] =>
      budget[p].armed /\ budget[p].left <= Budget[p]

(* No handler and no callback ends the scheduler by scx_bpf_error, unless  *)
(* a task goes back to a fair policy.                                      *)
NoScxError == scx_error => \E p \in Tasks : loc[p] = "left"

(* Every runnable task runs at some time, refused, queued or displaced.    *)
EveryReadyTaskRuns ==
  \A p \in Tasks : loc[p] \in {"limbo", "queued", "local"} ~> loc[p] = "running"

(* "Strict priority-based execution according to task periods" (line 8):   *)
(* no task waits in the DSQ of a CPU that runs one of a longer period.     *)
StrictPriority ==
  \A p, q \in Tasks :
    IsCurrent(p) /\ ~resched[taskCpu[p]] /\ loc[q] = "queued" /\ dsq[q] = taskCpu[p]
      => Period[p] <= Period[q]

(* "Preemptive behavior to ensure timely execution" (line 9): a CPU does   *)
(* not stay idle while a task waits in its DSQ.                            *)
WorkConserving ==
  \A c \in CPUs :
    curr[c] = NoTask /\ phase[c] = "run" /\ ~resched[c] =>
      \A p \in Tasks : ~(loc[p] = "queued" /\ dsq[p] = c)

(* FEATURE_MIGRATION restarts "the timer on the new CPU with the preserved *)
(* remaining time" (line 28): a moved task that rms_enqueue refused is     *)
(* brought back by its period timer, or by the pid that is to restart it.  *)
MovedTaskComesBack ==
  \A p \in Movers : loc[p] = "limbo" /\ p \in hashed =>
    sched[p].armed \/ \E c \in CPUs : \E i \in DOMAIN queue[c] : queue[c][i] = p
=============================================================================
