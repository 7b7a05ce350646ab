------------------------------ MODULE NetConns ------------------------------
(***************************************************************************)
(* The connection tables of netwatcher (tcp.bpf.h): sock_stores, which     *)
(* carries the socket from the entry of tcp_v4_connect to its return under *)
(* the thread's id, conns_info with one record per socket, and tcp_state   *)
(* with the time of each socket's last state change.                       *)
(*                                                                         *)
(* The environment is the kernel's TCP: threads connect and accept, and a  *)
(* peer or a timer closes a connection at any time the socket is not       *)
(* locked by connect - also one that waits in the accept queue.  A socket  *)
(* that was freed is used again for another connection; life counts the    *)
(* connections of a socket, and is known to the model only.  The probes    *)
(* are attached one after the other while connections come and go, those   *)
(* that make the records before those that delete them, and one that is    *)
(* attached may still be missed, for the kernel runs none that interrupts  *)
(* another on its CPU: any probe may not run when the kernel gets to it.   *)
(***************************************************************************)
EXTENDS Naturals, BpfMaps

CONSTANTS Sockets, Threads,
          MaxLife,        \* bound: connections per socket
          all_conn        \* option -a: keep the records of closed connections

ASSUME NetConnsAssumption == MaxLife \in Nat /\ all_conn \in BOOLEAN

VARIABLES ncSock,         \* the sockets
          ncThread,       \* the socket a thread is connecting, and how far
          ncStores,       \* map sock_stores
          ncConns,        \* map conns_info
          ncState,        \* map tcp_state
          ncDisturbed     \* threads whose entry of sock_stores went away
                          \* while they were connecting

ncVars == <<ncSock, ncThread, ncStores, ncConns, ncState, ncDisturbed>>

Fresh == [st |-> "closed", life |-> 0, held |-> FALSE, queued |-> FALSE]
Idle  == [pc |-> "idle"]

NetConnsInit ==
    /\ ncSock = [s \in Sockets |-> Fresh]
    /\ ncThread = [t \in Threads |-> Idle]
    /\ ncStores = [t \in {} |-> Fresh]
    /\ ncConns = [s \in {} |-> Fresh]
    /\ ncState = [s \in {} |-> Fresh]
    /\ ncDisturbed = {}

Connecting(s) == \E t \in Threads : ncThread[t] # Idle /\ ncThread[t].sk = s

-----------------------------------------------------------------------------
(* The probes.  missed is known to the model only: the connection of the   *)
(* entry was closed and the probe that would have deleted it did not run   *)
(* then, because it was not attached or missed, or had run before.         *)

\* A map whose entry of s outlives the state change that was not seen.
Missing(map, s, new) ==
    IF new = "closed" /\ s \in DOMAIN map THEN [map EXCEPT ![s].missed = TRUE] ELSE map

\* Mutant: a closed socket keeps its entry.
keep_state_of_closed(s, new, life) ==
    \/ ncState' = Updated(ncState, s, [life |-> life, missed |-> FALSE])
    \/ s \notin DOMAIN ncState /\ ncState' = ncState

\* handle_set_state: the message tells how long the socket was in its old
\* state, from the entry, and 0 without one.  tcp_state may be full.
handle_set_state(s, new, life) ==
    IF new = "closed" THEN ncState' = Without(ncState, {s})
    ELSE \/ ncState' = Updated(ncState, s, [life |-> life, missed |-> FALSE])
         \/ s \notin DOMAIN ncState /\ ncState' = ncState

\* Mutant: only connections that this host opened are forgotten.
ForgetsClosedClients(s, new) ==
    new = "closed" /\ s \in DOMAIN ncConns /\ ~all_conn /\ ~ncConns[s].server

\* __tcp_set_state
ForgetsClosed(s, new) == new = "closed" /\ s \in DOMAIN ncConns /\ ~all_conn

tcp_set_state(s, new) ==
    IF ForgetsClosed(s, new)
    THEN LET t == ncConns[s].ptid
         IN  /\ ncStores' = Without(ncStores, {t})
             /\ ncConns' = Without(ncConns, {s})
             /\ ncDisturbed' = IF ncThread[t] # Idle THEN ncDisturbed \union {t}
                               ELSE ncDisturbed
    ELSE UNCHANGED <<ncStores, ncConns, ncDisturbed>>

Record(s, t, server) ==
    [ptid |-> t, server |-> server, life |-> ncSock[s].life,
     missed |-> ncSock[s].st = "closed"]

\* Mutant: an entry that is there is not replaced.
ConnectEnterKeeps(t, s) ==
    /\ ncThread[t] = Idle
    /\ ncSock[s].st = "closed" /\ ~ncSock[s].queued /\ ~Connecting(s)
    /\ ncSock[s].life < MaxLife
    /\ \E ran \in BOOLEAN :
          /\ ncThread' = [ncThread EXCEPT ![t] = [pc |-> "entered", sk |-> s, seen |-> ran]]
          /\ ncStores' = IF ran /\ t \notin DOMAIN ncStores THEN Updated(ncStores, t, s)
                         ELSE ncStores
    /\ ncSock' = [ncSock EXCEPT ![s].held = TRUE]
    /\ ncDisturbed' = ncDisturbed \ {t}
    /\ UNCHANGED <<ncConns, ncState>>

\* __tcp_v4_connect and __tcp_v6_connect
ConnectEnter(t, s) ==
    /\ ncThread[t] = Idle
    /\ ncSock[s].st = "closed" /\ ~ncSock[s].queued /\ ~Connecting(s)
    /\ ncSock[s].life < MaxLife
    /\ \E ran \in BOOLEAN :
          /\ ncThread' = [ncThread EXCEPT ![t] = [pc |-> "entered", sk |-> s, seen |-> ran]]
          /\ ncStores' = IF ran THEN Updated(ncStores, t, s) ELSE ncStores
    /\ ncSock' = [ncSock EXCEPT ![s].held = TRUE]
    /\ ncDisturbed' = ncDisturbed \ {t}
    /\ UNCHANGED <<ncConns, ncState>>

\* __tcp_v4_connect_exit and __tcp_v6_connect_exit; the port filter may leave
\* the connection out.
connect_exit(t, ok) ==
    LET s == ncStores[t]
    IN  IF t \notin DOMAIN ncStores THEN UNCHANGED <<ncStores, ncConns>>
        ELSE IF ~ok THEN ncStores' = Without(ncStores, {t}) /\ UNCHANGED ncConns
        ELSE /\ UNCHANGED ncStores
             /\ \/ ncConns' = Updated(ncConns, s, Record(s, t, FALSE))
                \/ UNCHANGED ncConns

-----------------------------------------------------------------------------
(* The kernel's steps, each with the probes it passes.                     *)

StateChange(s, new, life) ==
    /\ \E ran \in BOOLEAN :
          IF ran THEN handle_set_state(s, new, life)
          ELSE ncState' = Missing(ncState, s, new)
    /\ \E ran \in BOOLEAN :
          IF ran THEN tcp_set_state(s, new)
          ELSE ncConns' = Missing(ncConns, s, new) /\ UNCHANGED <<ncStores, ncDisturbed>>

\* tcp_v4_connect sends the SYN ...
SynSent(t) ==
    /\ ncThread[t].pc = "entered"
    /\ LET s == ncThread[t].sk
           life == ncSock[s].life + 1
       IN  /\ ncThread' = [ncThread EXCEPT ![t].pc = "sent"]
           /\ ncSock' = [ncSock EXCEPT ![s] = [@ EXCEPT !.st = "syn", !.life = life]]
           /\ StateChange(s, "syn", life)

\* ... and may still fail, which closes the socket again.
SynFailed(t) ==
    /\ ncThread[t].pc = "sent"
    /\ LET s == ncThread[t].sk
       IN  /\ ncThread' = [ncThread EXCEPT ![t].pc = "failed"]
           /\ ncSock' = [ncSock EXCEPT ![s].st = "closed"]
           /\ StateChange(s, "closed", ncSock[s].life)

ConnectReturns(t) ==
    /\ ncThread[t] # Idle
    /\ \E ran \in BOOLEAN :
          IF ran THEN connect_exit(t, ncThread[t].pc = "sent")
          ELSE UNCHANGED <<ncStores, ncConns>>
    /\ ncThread' = [ncThread EXCEPT ![t] = Idle]
    /\ UNCHANGED <<ncSock, ncState, ncDisturbed>>

\* The SYN-ACK comes.
Established(s) ==
    /\ ncSock[s].st = "syn" /\ ~Connecting(s)
    /\ ncSock' = [ncSock EXCEPT ![s].st = "open"]
    /\ StateChange(s, "open", ncSock[s].life)
    /\ UNCHANGED ncThread

\* A listener's child is established in a socket that was free.
ChildEstablished(s) ==
    /\ ncSock[s].st = "closed" /\ ~ncSock[s].held
    /\ ncSock[s].life < MaxLife
    /\ ncSock' = [ncSock EXCEPT ![s] = [st |-> "open", life |-> @.life + 1,
                                        held |-> TRUE, queued |-> TRUE]]
    /\ StateChange(s, "open", ncSock[s].life + 1)
    /\ UNCHANGED ncThread

\* inet_csk_accept returns the child, open or already closed again;
\* __inet_csk_accept records it unless the port filter leaves it out.
AcceptReturns(t, s) ==
    /\ ncThread[t] = Idle
    /\ ncSock[s].queued
    /\ ncSock' = [ncSock EXCEPT ![s].queued = FALSE]
    /\ \E ran \in BOOLEAN :
          \/ ran /\ ncConns' = Updated(ncConns, s, Record(s, t, TRUE))
          \/ UNCHANGED ncConns
    /\ UNCHANGED <<ncThread, ncStores, ncState, ncDisturbed>>

\* A reset, a timeout or the end of the connection.
Closed(s) ==
    /\ ncSock[s].st # "closed" /\ ~Connecting(s)
    /\ ncSock' = [ncSock EXCEPT ![s].st = "closed"]
    /\ StateChange(s, "closed", ncSock[s].life)
    /\ UNCHANGED ncThread

\* The owner lets go of a closed socket: its memory may be used again.
Freed(s) ==
    /\ ncSock[s].st = "closed" /\ ncSock[s].held /\ ~ncSock[s].queued /\ ~Connecting(s)
    /\ ncSock' = [ncSock EXCEPT ![s].held = FALSE]
    /\ UNCHANGED <<ncThread, ncStores, ncConns, ncState, ncDisturbed>>

\* Both tables are LRU maps.
EvictConn(s) ==
    /\ s \in DOMAIN ncConns
    /\ ncConns' = Without(ncConns, {s})
    /\ UNCHANGED <<ncSock, ncThread, ncStores, ncState, ncDisturbed>>

EvictStore(t) ==
    /\ t \in DOMAIN ncStores
    /\ ncStores' = Without(ncStores, {t})
    /\ ncDisturbed' = IF ncThread[t] # Idle THEN ncDisturbed \union {t} ELSE ncDisturbed
    /\ UNCHANGED <<ncSock, ncThread, ncConns, ncState>>

NetConnsNext ==
    \/ \E t \in Threads : SynSent(t) \/ SynFailed(t) \/ ConnectReturns(t) \/ EvictStore(t)
    \/ \E s \in Sockets : Established(s) \/ ChildEstablished(s) \/ Closed(s) \/ Freed(s)
                          \/ EvictConn(s)
    \/ \E t \in Threads, s \in Sockets : ConnectEnter(t, s) \/ AcceptReturns(t, s)

NetConnsSpec == NetConnsInit /\ [][NetConnsNext]_ncVars

-----------------------------------------------------------------------------
SocketStates == [st : {"closed", "syn", "open"}, life : 0 .. MaxLife,
                 held : BOOLEAN, queued : BOOLEAN]

ThreadStates == {Idle} \union [pc : {"entered", "sent", "failed"}, sk : Sockets, seen : BOOLEAN]

Records == [ptid : Threads, server : BOOLEAN, life : 0 .. MaxLife, missed : BOOLEAN]
Times   == [life : 0 .. MaxLife, missed : BOOLEAN]

\* Type invariant of the connection tables.
NetConnsTypeOK ==
    /\ ncSock \in [Sockets -> SocketStates]
    /\ ncThread \in [Threads -> ThreadStates]
    /\ ncDisturbed \subseteq Threads
    /\ DOMAIN ncStores \subseteq Threads /\ \A t \in DOMAIN ncStores : ncStores[t] \in Sockets
    /\ DOMAIN ncConns \subseteq Sockets /\ \A s \in DOMAIN ncConns : ncConns[s] \in Records
    /\ DOMAIN ncState \subseteq Sockets /\ \A s \in DOMAIN ncState : ncState[s] \in Times

\* Unless closed connections are kept, a record of conns_info describes the
\* connection its socket has now: no packet, retransmission or state of a new
\* connection is counted for an old one that used the same memory.  The
\* exceptions are a connection that was closed in the accept queue, whose record
\* is made after the probe that would have deleted it, and one whose close that
\* probe did not see (__tcp_set_state, __inet_csk_accept).
NcRecordsAreCurrent ==
    ~all_conn => \A s \in DOMAIN ncConns :
        ncConns[s].missed \/ (ncSock[s].st # "closed" /\ ncConns[s].life = ncSock[s].life)

\* While a thread is inside connect, and the probe of its entry ran, sock_stores
\* names the socket it connects, so that the return records the right one; the
\* entry may be missing - the connection is then never recorded - only when a
\* connection recorded for the same thread was closed meanwhile, or the entry
\* was evicted (__tcp_v4_connect, __tcp_set_state).
NcStoreOfConnecting ==
    \A t \in Threads : ncThread[t] # Idle /\ ncThread[t].seen =>
        IF t \in DOMAIN ncStores THEN ncStores[t] = ncThread[t].sk ELSE t \in ncDisturbed

\* The time in a state is measured from a change of state of the same
\* connection: unless the handler did not see its close, tcp_state never has an
\* entry of a connection that is closed, which the next one in the same socket
\* would find (__handle_set_state).
NcStateTimesOneLife ==
    \A s \in DOMAIN ncState :
        ncState[s].missed \/ (ncSock[s].st # "closed" /\ ncState[s].life = ncSock[s].life)
=============================================================================
