------------------------------ MODULE ShmTrace ------------------------------
(***************************************************************************)
(* The tracing of shared file mappings by ipcwatcher (shm.bpf.c): the      *)
(* entry of mmap stores its arguments in the map shm_temp_map under the    *)
(* thread, and the return deletes them and sends them to the user.         *)
(*                                                                         *)
(* The map's elements are modelled one by one: the return reads the        *)
(* arguments after it has deleted them, when another CPU may have taken    *)
(* the element.  The number of a call stands for its arguments.            *)
(***************************************************************************)
EXTENDS Naturals, BpfMaps

CONSTANTS ShThreads,
          ShElements,     \* elements of shm_temp_map
          MaxCalls        \* bound: calls of mmap

ASSUME ShmAssumption == MaxCalls \in Nat

VARIABLES shAttached,     \* 1: the entry probe is attached, 2: the return too
          shCall,         \* what each thread does
          shMap,          \* map shm_temp_map: thread -> element
          shElem,         \* the call whose arguments an element holds
          shCalls,        \* calls so far
          shEarly,        \* calls recorded before the return was attached
          shReported,     \* calls whose arguments were sent
          shReport        \* the event the last step submitted, if any

shVars == <<shAttached, shCall, shMap, shElem, shCalls, shEarly, shReported, shReport>>

ShUser     == [pc |-> "user"]
ShNoReport == [call |-> 0, data |-> 0, reused |-> FALSE, again |-> FALSE]

ShmInit ==
    /\ shAttached = 0
    /\ shCall = [t \in ShThreads |-> ShUser]
    /\ shMap = [t \in {} |-> 0]
    /\ shElem = [e \in ShElements |-> 0]
    /\ shCalls = 0
    /\ shEarly = {}
    /\ shReported = {}
    /\ shReport = ShNoReport

\* The skeleton attaches handle_syscall_enter_mmap first.
ShAttach ==
    /\ shAttached < 2
    /\ shAttached' = shAttached + 1
    /\ shReport' = ShNoReport
    /\ UNCHANGED <<shCall, shMap, shElem, shCalls, shEarly, shReported>>

ShFree == ShElements \ Range(shMap)

\* handle_syscall_enter_mmap: only mappings that are shared and of a file, and
\* no replacement of an entry that is there.
Recorded(t, shared) == shAttached > 0 /\ shared /\ t \notin DOMAIN shMap /\ ShFree # {}

\* The element is taken from a return that has not read it yet.
Taken(e, call) == call.pc = "report" /\ call.elem = e

ShEnter(t) ==
    /\ shCall[t] = ShUser
    /\ shCalls < MaxCalls
    /\ shCalls' = shCalls + 1
    /\ \E shared \in BOOLEAN :
          LET in == [pc |-> "in", nr |-> shCalls + 1]
          IN  IF Recorded(t, shared)
              THEN \E e \in ShFree :
                     /\ shMap' = Updated(shMap, t, e)
                     /\ shElem' = [shElem EXCEPT ![e] = shCalls + 1]
                     /\ shCall' = [u \in ShThreads |->
                           IF u = t THEN in
                           ELSE IF Taken(e, shCall[u]) THEN [shCall[u] EXCEPT !.reused = TRUE]
                           ELSE shCall[u]]
                     /\ shEarly' = IF shAttached = 1 THEN shEarly \union {shCalls + 1} ELSE shEarly
              ELSE /\ shCall' = [shCall EXCEPT ![t] = in]
                   /\ UNCHANGED <<shMap, shElem, shEarly>>
    /\ shReport' = ShNoReport
    /\ UNCHANGED <<shAttached, shReported>>

\* Mutant: the entry stays.
ShExitKeeps(t) ==
    /\ shCall[t].pc = "in"
    /\ shCall' = [shCall EXCEPT ![t] =
          IF shAttached = 2 /\ t \in DOMAIN shMap
          THEN [pc |-> "report", nr |-> @.nr, elem |-> shMap[t], reused |-> FALSE]
          ELSE ShUser]
    /\ shReport' = ShNoReport
    /\ UNCHANGED <<shAttached, shMap, shElem, shCalls, shEarly, shReported>>

\* handle_syscall_exit_mmap finds and deletes the entry ...
ShExit(t) ==
    /\ shCall[t].pc = "in"
    /\ IF shAttached = 2 /\ t \in DOMAIN shMap
       THEN /\ shCall' = [shCall EXCEPT ![t] = [pc |-> "report", nr |-> @.nr,
                                                elem |-> shMap[t], reused |-> FALSE]]
            /\ shMap' = Without(shMap, {t})
       ELSE shCall' = [shCall EXCEPT ![t] = ShUser] /\ UNCHANGED shMap
    /\ shReport' = ShNoReport
    /\ UNCHANGED <<shAttached, shElem, shCalls, shEarly, shReported>>

\* ... and reads it, unless the ring buffer is full.
ShReport(t) ==
    LET data == shElem[shCall[t].elem]
    IN  /\ shCall[t].pc = "report"
        /\ \/ shReport' = ShNoReport /\ UNCHANGED shReported
           \/ /\ shReport' = [call |-> shCall[t].nr, data |-> data,
                              reused |-> shCall[t].reused, again |-> data \in shReported]
              /\ shReported' = IF shCall[t].reused THEN shReported ELSE shReported \union {data}
        /\ shCall' = [shCall EXCEPT ![t] = ShUser]
        /\ UNCHANGED <<shAttached, shMap, shElem, shCalls, shEarly>>

ShmNext == ShAttach \/ \E t \in ShThreads : ShEnter(t) \/ ShExit(t) \/ ShReport(t)

ShmSpec == ShmInit /\ [][ShmNext]_shVars

-----------------------------------------------------------------------------
\* A mapping is reported with the arguments of its own call, and each call
\* once.  Only two things mix calls up: a call that was recorded before the
\* return was attached is reported for a later call of the thread (its entry
\* is not replaced), and an element that another thread took between deletion
\* and reading holds that thread's arguments (shm.bpf.c, both handlers).
ShReportsOwnCall ==
    \/ shReport = ShNoReport
    \/ shReport.reused
    \/ /\ shReport.data = shReport.call \/ (shReport.data \in shEarly /\ shReport.data < shReport.call)
       /\ ~shReport.again
=============================================================================
