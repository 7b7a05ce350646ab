----------------------------- MODULE StartTimes -----------------------------
(***************************************************************************)
(* The tools of cpu_watcher measure how long something takes that several  *)
(* CPUs or threads do at once, with ONE start time in a map:               *)
(*                                                                         *)
(*   softirq    sar.bpf.c: softirqs, one start per vector, the differences *)
(*              summed up in the hash softirqLastTime                      *)
(*   irq        sar.bpf.c: interrupts, one start per number, summed up in  *)
(*              the array irq_Last_time                                    *)
(*   cs_delay   cs_delay.bpf.c: calls of schedule(), one start altogether, *)
(*              in an array, whose elements are always there               *)
(*   sc_delay   sc_delay.bpf.c: calls of execve, one start per process,    *)
(*              taken away by the first thread that returns                *)
(*                                                                         *)
(* Each handler reads the clock before it touches the map.  A reading is   *)
(* later than every earlier one.                                           *)
(***************************************************************************)
EXTENDS Integers

CONSTANTS StCpus,         \* CPUs, for sc_delay the threads of a process
          MaxReadings     \* bound: readings of the clock

ASSUME StartTimesAssumption == MaxReadings \in Nat

VARIABLES stTool,
          stStart,        \* the start time in the map; 0: none
          stTotal,        \* the map of the sum; gen 0: no element
          stHandler,      \* where each CPU is; began: when it really began, and
                          \* once it is measured, how long it really took
          stClock,
          stSpent,        \* the time really spent, in what has been measured
          stSummed,       \* ... and in what has been added to the sum
          stMeasured,     \* the difference the last step took, and the truth
          stRaced,        \* a start was stored while another CPU was between
                          \* reading the clock and using what it read
          stOverlapped    \* two CPUs were at it at the same time

stVars == <<stTool, stStart, stTotal, stHandler, stClock, stSpent, stSummed, stMeasured,
            stRaced, stOverlapped>>

StIdle    == [pc |-> "idle", began |-> 0, read |-> 0, gen |-> 0]
NoMeasure == [taken |-> 0, really |-> 0]

Reading == stClock + 1

Sums == {"softirq", "irq"}   \* the tools that sum up what they measure

\* Some CPUs are in the middle of it when the probes are attached; a kretprobe
\* sees no return of a call that began before.
StartTimesInit ==
    /\ stTool \in Sums \union {"cs_delay", "sc_delay"}
    /\ stStart = 0
    /\ stTotal = [gen |-> IF stTool = "irq" THEN 1 ELSE 0, sum |-> 0]
    /\ stHandler \in [StCpus -> {StIdle} \union
                       IF stTool = "cs_delay" THEN {} ELSE {[StIdle EXCEPT !.pc = "in"]}]
    /\ stClock = 0
    /\ stSpent = 0
    /\ stSummed = 0
    /\ stMeasured = NoMeasure
    /\ stRaced = FALSE
    /\ stOverlapped = \E c \in StCpus : stHandler[c] # StIdle

StMove(c, state) == stHandler' = [stHandler EXCEPT ![c] = state]

\* trace_softirq_entry, trace_irq_handler_entry, schedule and sys_enter_execve:
\* read the clock ...
StEnter(c) ==
    /\ stHandler[c].pc = "idle"
    /\ stClock < MaxReadings
    /\ stClock' = Reading
    /\ StMove(c, [StIdle EXCEPT !.pc = "store", !.began = Reading, !.read = Reading])
    /\ stMeasured' = NoMeasure
    /\ stOverlapped' = (stOverlapped \/ \E d \in StCpus : stHandler[d].pc # "idle")
    /\ UNCHANGED <<stTool, stStart, stTotal, stSpent, stSummed, stRaced>>

Holding(c) == \E d \in StCpus \ {c} : stHandler[d].pc \in {"store", "find"}

\* Mutant: a start that is there is not replaced.
StStoreOnce(c) ==
    /\ stHandler[c].pc = "store"
    /\ stStart' = IF stStart = 0 THEN stHandler[c].read ELSE stStart
    /\ StMove(c, [stHandler[c] EXCEPT !.pc = "in"])
    /\ stMeasured' = NoMeasure
    /\ stRaced' = (stRaced \/ Holding(c))
    /\ UNCHANGED <<stTool, stTotal, stClock, stSpent, stSummed, stOverlapped>>

\* ... and store what it said.
StStore(c) ==
    /\ stHandler[c].pc = "store"
    /\ stStart' = stHandler[c].read
    /\ StMove(c, [stHandler[c] EXCEPT !.pc = "in"])
    /\ stMeasured' = NoMeasure
    /\ stRaced' = (stRaced \/ Holding(c))
    /\ UNCHANGED <<stTool, stTotal, stClock, stSpent, stSummed, stOverlapped>>

\* trace_softirq_exit, trace_irq_handler_exit, schedule_exit and
\* sys_exit_execve: read the clock ...
StLeave(c) ==
    /\ stHandler[c].pc = "in"
    /\ stClock < MaxReadings
    /\ stClock' = Reading
    /\ StMove(c, [stHandler[c] EXCEPT !.pc = "find", !.read = Reading])
    /\ stMeasured' = NoMeasure
    /\ UNCHANGED <<stTool, stStart, stTotal, stSpent, stSummed, stRaced, stOverlapped>>

\* The element of an array is always found, and its deletion fails.
StFound == stTool = "cs_delay" \/ stStart # 0

AfterFind(state, taken, really) ==
    IF stTool = "cs_delay" THEN StIdle
    ELSE [state EXCEPT !.pc = IF stTool \in Sums THEN "load" ELSE "delete",
                       !.read = taken, !.began = really]

\* ... and look for a start.
StFind(c) ==
    LET state  == stHandler[c]
        taken  == state.read - stStart
        really == state.read - state.began
    IN  /\ state.pc = "find"
        /\ IF ~StFound
           THEN StMove(c, StIdle) /\ stMeasured' = NoMeasure /\ UNCHANGED stSpent
           ELSE /\ StMove(c, AfterFind(state, taken, really))
                /\ stMeasured' = [taken |-> taken, really |-> really]
                /\ stSpent' = stSpent + really
        /\ UNCHANGED <<stTool, stStart, stTotal, stClock, stSummed, stRaced, stOverlapped>>

\* sys_exit_execve takes the start away, also a later one.
StDelete(c) ==
    /\ stHandler[c].pc = "delete"
    /\ stStart' = 0
    /\ StMove(c, StIdle)
    /\ stMeasured' = NoMeasure
    /\ UNCHANGED <<stTool, stTotal, stClock, stSpent, stSummed, stRaced, stOverlapped>>

\* The two of sar add to the element they find, or make the first: they load
\* the sum ...
StLoad(c) ==
    LET state == stHandler[c]
    IN  /\ state.pc = "load"
        /\ StMove(c, [state EXCEPT !.pc = "sum", !.read = @ + stTotal.sum, !.gen = stTotal.gen])
        /\ stMeasured' = NoMeasure
        /\ UNCHANGED <<stTool, stStart, stTotal, stClock, stSpent, stSummed, stRaced,
                       stOverlapped>>

\* ... and store it, into the element they found.
StSum(c) ==
    LET state == stHandler[c]
    IN  /\ state.pc = "sum"
        /\ stTotal' = IF state.gen = 0 THEN [gen |-> stTotal.gen + 1, sum |-> state.read]
                      ELSE IF state.gen = stTotal.gen THEN [stTotal EXCEPT !.sum = state.read]
                      ELSE stTotal
        /\ StMove(c, StIdle)
        /\ stSummed' = stSummed + state.began
        /\ stMeasured' = NoMeasure
        /\ UNCHANGED <<stTool, stStart, stClock, stSpent, stRaced, stOverlapped>>

StartTimesNext ==
    \E c \in StCpus : \/ StEnter(c) \/ StStore(c) \/ StLeave(c) \/ StFind(c)
                      \/ StDelete(c) \/ StLoad(c) \/ StSum(c)

StartTimesSpec == StartTimesInit /\ [][StartTimesNext]_stVars

-----------------------------------------------------------------------------
\* CPUs that share the start time can only make a measured time shorter, or
\* lose it: no difference is longer than what it is taken for, nor negative,
\* and no sum larger than the time spent in what was added to it - unless a
\* start is stored just between another CPU's reading of the clock and its
\* use.  Without overlap the times are exact (trace_softirq_exit, trace_irq_handler_exit,
\* schedule_exit, sys_exit_execve).
StNeverTooLong ==
    /\ ~stRaced => /\ stMeasured.taken \in 0 .. stMeasured.really
                   /\ stTotal.sum <= stSummed
    /\ ~stOverlapped => /\ stMeasured.taken = stMeasured.really
                        /\ stTool \in Sums /\ (\A c \in StCpus : stHandler[c].pc \in {"idle", "in"})
                              => stTotal.sum = stSpent
=============================================================================
