--------------------------- MODULE NetworkProofs ----------------------------
(***************************************************************************)
(* netwatcher and tcpaccd, for every set of sockets, packets and threads,  *)
(* and any number of connections and messages.                             *)
(***************************************************************************)
EXTENDS NetConns, SockMap, PacketTimes, NetfilterTimes, FiniteSetTheorems, TLAPS

(* What deleting does to a map.                                            *)
LEMMA WithoutKeys ==
  ASSUME NEW f, NEW keys
  PROVE  /\ DOMAIN Without(f, keys) = DOMAIN f \ keys
         /\ \A x \in DOMAIN f \ keys : Without(f, keys)[x] = f[x]
  BY DEF Without, Restrict

----------------------------------------------------------------------------
(* NetConns: what the tables say of a socket is about the connection it    *)
(* has now, although its memory is used again and again; for both settings *)
(* of all_conn.                                                            *)
USE NetConnsAssumption

----------------------------------------------------------------------------
CallType == [pc : {"entered", "sent", "failed"}, sk : Sockets, seen : BOOLEAN]

(* The sockets that threads connect: each has one thread, and is where the *)
(* thread has brought it.                                                  *)
Connects ==
    \A t \in Threads : ncThread[t] # Idle =>
        LET s == ncSock[ncThread[t].sk]
        IN  /\ s.held /\ ~s.queued
            /\ s.st = IF ncThread[t].pc = "sent" THEN "syn" ELSE "closed"
            /\ ncThread[t].pc = "entered" => s.life < MaxLife
            /\ \A u \in Threads : ncThread[u] # Idle /\ u # t => ncThread[u].sk # ncThread[t].sk

(* A socket in the accept queue is held, and one that is in use is, too.   *)
Held == \A s \in Sockets : ncSock[s].queued \/ ncSock[s].st # "closed" => ncSock[s].held

ConnsInv ==
    /\ NetConnsTypeOK
    /\ Connects
    /\ Held
    /\ NcRecordsAreCurrent
    /\ NcStoreOfConnecting
    /\ NcStateTimesOneLife

LEMMA ConnsInvInit == NetConnsInit => ConnsInv
  BY DEF NetConnsInit, ConnsInv, NetConnsTypeOK, SocketStates, ThreadStates, Fresh, Idle,
         Connects, Held, NcRecordsAreCurrent, NcStoreOfConnecting, NcStateTimesOneLife

----------------------------------------------------------------------------
(* The probes.                                                             *)

LEMMA TimesChange ==
  ASSUME ConnsInv, NEW s \in Sockets, NEW new, NEW life \in 0 .. MaxLife,
         ncSock[s].st # "closed" => life = ncSock[s].life,
         handle_set_state(s, new, life) \/ ncState' = Missing(ncState, s, new)
  PROVE  /\ DOMAIN ncState' \subseteq Sockets
         /\ \A x \in DOMAIN ncState' : ncState'[x] \in Times
         /\ s \in DOMAIN ncState' =>
               ncState'[s].missed \/ (new # "closed" /\ ncState'[s].life = life)
         /\ \A x \in DOMAIN ncState' : x # s => x \in DOMAIN ncState /\ ncState'[x] = ncState[x]
<1>1. /\ DOMAIN ncState \subseteq Sockets
      /\ \A x \in DOMAIN ncState : ncState[x] \in Times
      /\ s \in DOMAIN ncState =>
            ncState[s].missed \/ (ncSock[s].st # "closed" /\ ncState[s].life = ncSock[s].life)
  BY DEF ConnsInv, NetConnsTypeOK, NcStateTimesOneLife
<1>2. CASE new = "closed" /\ ncState' = Without(ncState, {s})
  <2>1. /\ DOMAIN ncState' = DOMAIN ncState \ {s}
        /\ \A x \in DOMAIN ncState \ {s} : ncState'[x] = ncState[x]
    BY <1>2, WithoutKeys
  <2> QED
    BY <1>1, <1>2, <2>1
<1>3. CASE new # "closed" /\ ncState' = Updated(ncState, s, [life |-> life, missed |-> FALSE])
  <2> DEFINE r == [life |-> life, missed |-> FALSE]
  <2>1. r \in Times /\ r.life = life
    BY DEF Times
  <2>2. ncState' = Updated(ncState, s, r)
    BY <1>3
  <2> HIDE DEF r
  <2>3. /\ DOMAIN ncState' = DOMAIN ncState \cup {s}
        /\ ncState'[s] = r
        /\ \A x \in DOMAIN ncState : x # s => ncState'[x] = ncState[x]
    BY <2>2 DEF Updated
  <2> QED
    BY <1>1, <1>3, <2>1, <2>3
<1>4. CASE new # "closed" /\ ncState' = ncState
  BY <1>1, <1>4
<1>5. CASE ncState' = Missing(ncState, s, new)
  <2>1. /\ DOMAIN ncState' = DOMAIN ncState
        /\ \A x \in DOMAIN ncState : x # s => ncState'[x] = ncState[x]
        /\ new # "closed" => ncState' = ncState
        /\ new = "closed" /\ s \in DOMAIN ncState =>
              ncState'[s] = [ncState[s] EXCEPT !.missed = TRUE]
    BY <1>5 DEF Missing
  <2>2. CASE new # "closed"
    BY <1>4, <2>1, <2>2
  <2>3. CASE new = "closed" /\ s \in DOMAIN ncState
    <3>1. ncState'[s] \in Times /\ ncState'[s].missed
      BY <1>1, <2>1, <2>3 DEF Times
    <3> QED
      BY <1>1, <2>1, <3>1
  <2>4. CASE s \notin DOMAIN ncState
    BY <1>1, <2>1, <2>4
  <2> QED
    BY <2>2, <2>3, <2>4
<1> QED
  BY <1>2, <1>3, <1>4, <1>5 DEF handle_set_state

LEMMA RecordsChange ==
  ASSUME ConnsInv, NEW s \in Sockets, NEW new,
         \/ tcp_set_state(s, new)
         \/ ncConns' = Missing(ncConns, s, new) /\ UNCHANGED <<ncStores, ncDisturbed>>
  PROVE  /\ DOMAIN ncConns' \subseteq DOMAIN ncConns
         /\ \A x \in DOMAIN ncConns' :
               /\ ncConns'[x] \in Records
               /\ \/ ncConns'[x] = ncConns[x] /\ (x = s /\ ~all_conn => new # "closed")
                  \/ ncConns'[x].missed
         /\ DOMAIN ncStores' \subseteq DOMAIN ncStores
         /\ \A t \in DOMAIN ncStores' : ncStores'[t] = ncStores[t]
         /\ ncDisturbed' \subseteq Threads /\ ncDisturbed \subseteq ncDisturbed'
         /\ \A t \in DOMAIN ncStores \ DOMAIN ncStores' :
               ncThread[t] # Idle => t \in ncDisturbed'
<1>1. /\ ncDisturbed \subseteq Threads
      /\ \A x \in DOMAIN ncConns : ncConns[x] \in Records /\ ncConns[x].ptid \in Threads
  BY DEF ConnsInv, NetConnsTypeOK, Records
<1>2. CASE tcp_set_state(s, new) /\ ForgetsClosed(s, new)
  <2> DEFINE t == ncConns[s].ptid
  <2>1. /\ ncStores' = Without(ncStores, {t})
        /\ ncConns' = Without(ncConns, {s})
        /\ ncDisturbed' = IF ncThread[t] # Idle THEN ncDisturbed \union {t} ELSE ncDisturbed
        /\ t \in Threads
    BY <1>1, <1>2 DEF tcp_set_state, ForgetsClosed
  <2> HIDE DEF t
  <2>2. /\ DOMAIN ncStores' = DOMAIN ncStores \ {t}
        /\ \A x \in DOMAIN ncStores \ {t} : ncStores'[x] = ncStores[x]
    BY <2>1, WithoutKeys
  <2>3. /\ DOMAIN ncConns' = DOMAIN ncConns \ {s}
        /\ \A x \in DOMAIN ncConns \ {s} : ncConns'[x] = ncConns[x]
    BY <2>1, WithoutKeys
  <2>4. /\ ncDisturbed' \subseteq Threads /\ ncDisturbed \subseteq ncDisturbed'
        /\ ncThread[t] # Idle => t \in ncDisturbed'
    BY <1>1, <2>1
  <2> QED
    BY <1>1, <2>2, <2>3, <2>4
<1>3. CASE tcp_set_state(s, new) /\ ~ForgetsClosed(s, new)
  BY <1>1, <1>3 DEF tcp_set_state, ForgetsClosed
<1>4. CASE ncConns' = Missing(ncConns, s, new) /\ UNCHANGED <<ncStores, ncDisturbed>>
  <2>1. /\ DOMAIN ncConns' = DOMAIN ncConns
        /\ \A x \in DOMAIN ncConns : x # s => ncConns'[x] = ncConns[x]
        /\ new # "closed" => ncConns' = ncConns
        /\ new = "closed" /\ s \in DOMAIN ncConns =>
              ncConns'[s] = [ncConns[s] EXCEPT !.missed = TRUE]
    BY <1>4 DEF Missing
  <2>2. CASE new # "closed"
    BY <1>1, <1>4, <2>1, <2>2
  <2>3. CASE new = "closed" /\ s \in DOMAIN ncConns
    <3>1. ncConns'[s] \in Records /\ ncConns'[s].missed
      BY <1>1, <2>1, <2>3 DEF Records
    <3> QED
      BY <1>1, <1>4, <2>1, <3>1
  <2>4. CASE s \notin DOMAIN ncConns
    BY <1>1, <1>4, <2>1, <2>4
  <2> QED
    BY <2>2, <2>3, <2>4
<1> QED
  BY <1>2, <1>3, <1>4

(* A step of the kernel that changes the state of a socket with its probes.*)
LEMMA StateChanges ==
  ASSUME ConnsInv, NEW s \in Sockets, NEW new, NEW life \in 0 .. MaxLife,
         StateChange(s, new, life),
         \A x \in Sockets : x # s => ncSock'[x] = ncSock[x],
         ncSock'[s].st = new, ncSock'[s].life = life,
         ncSock[s].st # "closed" => life = ncSock[s].life,
         \A t \in Threads : ncThread'[t] # Idle =>
             /\ ncThread[t] # Idle /\ ncThread'[t].sk = ncThread[t].sk
             /\ ncThread'[t].seen = ncThread[t].seen,
         ncSock' \in [Sockets -> SocketStates], ncThread' \in [Threads -> ThreadStates]
  PROVE  NetConnsTypeOK' /\ NcRecordsAreCurrent' /\ NcStoreOfConnecting' /\ NcStateTimesOneLife'
<1>1. /\ handle_set_state(s, new, life) \/ ncState' = Missing(ncState, s, new)
      /\ \/ tcp_set_state(s, new)
         \/ ncConns' = Missing(ncConns, s, new) /\ UNCHANGED <<ncStores, ncDisturbed>>
  BY DEF StateChange
<1>2. NetConnsTypeOK
  BY DEF ConnsInv
<1>3. NetConnsTypeOK'
  BY <1>1, <1>2, TimesChange, RecordsChange DEF NetConnsTypeOK
<1>4. NcRecordsAreCurrent'
  <2> SUFFICES ASSUME ~all_conn, NEW x \in DOMAIN ncConns'
               PROVE  ncConns'[x].missed \/ (ncSock'[x].st # "closed" /\ ncConns'[x].life = ncSock'[x].life)
    BY DEF NcRecordsAreCurrent
  <2>1. /\ x \in DOMAIN ncConns /\ x \in Sockets
        /\ \/ ncConns'[x] = ncConns[x] /\ (x = s => new # "closed")
           \/ ncConns'[x].missed
    BY <1>1, <1>2, RecordsChange DEF NetConnsTypeOK
  <2>2. ncConns[x].missed \/ (ncSock[x].st # "closed" /\ ncConns[x].life = ncSock[x].life)
    BY <2>1 DEF ConnsInv, NcRecordsAreCurrent
  <2> QED
    BY <2>1, <2>2
<1>5. NcStoreOfConnecting'
  BY <1>1, <1>2, RecordsChange DEF ConnsInv, NcStoreOfConnecting
<1>6. NcStateTimesOneLife'
  <2> SUFFICES ASSUME NEW x \in DOMAIN ncState'
               PROVE  ncState'[x].missed \/ (ncSock'[x].st # "closed" /\ ncState'[x].life = ncSock'[x].life)
    BY DEF NcStateTimesOneLife
  <2>1. /\ x \in Sockets
        /\ x = s => ncState'[x].missed \/ (new # "closed" /\ ncState'[x].life = life)
        /\ x # s => x \in DOMAIN ncState /\ ncState'[x] = ncState[x]
    <3>1. /\ DOMAIN ncState' \subseteq Sockets
          /\ \A y \in DOMAIN ncState' : ncState'[y] \in Times
          /\ s \in DOMAIN ncState' =>
                ncState'[s].missed \/ (new # "closed" /\ ncState'[s].life = life)
          /\ \A y \in DOMAIN ncState' : y # s => y \in DOMAIN ncState /\ ncState'[y] = ncState[y]
      BY <1>1, TimesChange
    <3> QED
      BY <3>1
  <2>2. CASE x = s
    BY <2>1, <2>2
  <2>3. CASE x # s
    BY <2>1, <2>3 DEF ConnsInv, NcStateTimesOneLife
  <2> QED
    BY <2>2, <2>3
<1> QED
  BY <1>3, <1>4, <1>5, <1>6

----------------------------------------------------------------------------
(* The sockets with the threads that connect them: what the steps of the   *)
(* kernel keep.  The socket s becomes v, and only t may change its place.  *)
LEMMA SocketsKept ==
  ASSUME ConnsInv, NEW s \in Sockets, NEW v \in SocketStates,
         ncSock' = [ncSock EXCEPT ![s] = v],
         v.queued \/ v.st # "closed" => v.held
  PROVE  /\ ncSock' \in [Sockets -> SocketStates]
         /\ ncSock'[s] = v
         /\ \A x \in Sockets : x # s => ncSock'[x] = ncSock[x]
         /\ Held'
  BY DEF ConnsInv, NetConnsTypeOK, Held

(* A socket that no thread connects changes as it likes.                   *)
LEMMA ConnectsKept ==
  ASSUME ConnsInv, NEW s \in Sockets, ~Connecting(s), UNCHANGED ncThread,
         \A x \in Sockets : x # s => ncSock'[x] = ncSock[x]
  PROVE  Connects'
<1>1. ASSUME NEW t \in Threads, ncThread[t] # Idle
      PROVE  ncThread[t].sk \in Sockets /\ ncThread[t].sk # s
  BY <1>1 DEF ConnsInv, NetConnsTypeOK, ThreadStates, Connecting
<1> QED
  BY <1>1 DEF ConnsInv, Connects

(* A new record is about the connection its socket has.                    *)
LEMMA RecordsKept ==
  ASSUME ConnsInv, NEW s \in Sockets, NEW t \in Threads, NEW server \in BOOLEAN,
         ncConns' = Updated(ncConns, s, Record(s, t, server)) \/ UNCHANGED ncConns,
         \A x \in Sockets : ncSock'[x].st = ncSock[x].st /\ ncSock'[x].life = ncSock[x].life
  PROVE  /\ DOMAIN ncConns' \subseteq Sockets
         /\ \A x \in DOMAIN ncConns' : ncConns'[x] \in Records
         /\ NcRecordsAreCurrent'
<1>1. /\ DOMAIN ncConns \subseteq Sockets
      /\ \A x \in DOMAIN ncConns : ncConns[x] \in Records
      /\ ncSock[s] \in SocketStates
      /\ NcRecordsAreCurrent
  BY DEF ConnsInv, NetConnsTypeOK
<1>2. CASE UNCHANGED ncConns
  BY <1>1, <1>2 DEF NcRecordsAreCurrent
<1>3. CASE ncConns' = Updated(ncConns, s, Record(s, t, server))
  <2> DEFINE r == Record(s, t, server)
  <2>1. /\ r \in Records
        /\ r.missed \/ ncSock[s].st # "closed"
        /\ r.life = ncSock[s].life
    BY <1>1 DEF Record, Records, SocketStates
  <2> HIDE DEF r
  <2>2. /\ DOMAIN ncConns' = DOMAIN ncConns \cup {s}
        /\ ncConns'[s] = r
        /\ \A x \in DOMAIN ncConns : x # s => ncConns'[x] = ncConns[x]
    BY <1>3 DEF Updated, r
  <2> QED
    BY <1>1, <2>1, <2>2 DEF NcRecordsAreCurrent
<1> QED
  BY <1>2, <1>3

LEMMA SynState ==
  ASSUME NEW r \in SocketStates, r.held, ~r.queued, NEW n \in 0 .. MaxLife
  PROVE  LET v == [r EXCEPT !.st = "syn", !.life = n]
         IN  v \in SocketStates /\ v.life = n /\ v.st = "syn" /\ v.held /\ ~v.queued
  BY DEF SocketStates

LEMMA ConnsInvNext == ConnsInv /\ [NetConnsNext]_ncVars => ConnsInv'
<1> SUFFICES ASSUME ConnsInv, [NetConnsNext]_ncVars
             PROVE  ConnsInv'
  OBVIOUS
<1>a. /\ ncSock \in [Sockets -> SocketStates]
      /\ ncThread \in [Threads -> ThreadStates]
  BY DEF ConnsInv, NetConnsTypeOK
<1>1. ASSUME NEW s \in Sockets, Established(s) PROVE ConnsInv'
  <2> DEFINE v == [ncSock[s] EXCEPT !.st = "open"]
  <2>1. /\ ncSock[s].st = "syn" /\ ~Connecting(s) /\ UNCHANGED ncThread
        /\ ncSock' = [ncSock EXCEPT ![s] = v]
        /\ StateChange(s, "open", ncSock[s].life)
    BY <1>1, <1>a DEF Established
  <2>2. v \in SocketStates /\ v.life = ncSock[s].life /\ v.st = "open" /\ v.held
        /\ ncSock[s].life \in 0 .. MaxLife
    BY <1>a, <2>1 DEF SocketStates, ConnsInv, Held
  <2> HIDE DEF v
  <2>3. /\ ncSock' \in [Sockets -> SocketStates]
        /\ ncSock'[s] = v
        /\ \A x \in Sockets : x # s => ncSock'[x] = ncSock[x]
        /\ Held'
    BY <2>1, <2>2, SocketsKept
  <2>4. Connects'
    BY <2>1, <2>3, ConnectsKept
  <2>5. NetConnsTypeOK' /\ NcRecordsAreCurrent' /\ NcStoreOfConnecting' /\ NcStateTimesOneLife'
    BY <1>a, <2>1, <2>2, <2>3, StateChanges
  <2> QED
    BY <2>3, <2>4, <2>5 DEF ConnsInv
<1>2. ASSUME NEW s \in Sockets, ChildEstablished(s) PROVE ConnsInv'
  <2> DEFINE v == [st |-> "open", life |-> ncSock[s].life + 1, held |-> TRUE, queued |-> TRUE]
  <2>1. /\ ncSock[s].st = "closed" /\ ~ncSock[s].held /\ ncSock[s].life < MaxLife
        /\ UNCHANGED ncThread
        /\ ncSock' = [ncSock EXCEPT ![s] = v]
        /\ StateChange(s, "open", ncSock[s].life + 1)
    BY <1>2, <1>a DEF ChildEstablished
  <2>a. ~Connecting(s)
    BY <2>1 DEF Connecting, ConnsInv, Connects
  <2>2. v \in SocketStates /\ v.life = ncSock[s].life + 1 /\ v.st = "open" /\ v.held
        /\ ncSock[s].life + 1 \in 0 .. MaxLife
    BY <1>a, <2>1 DEF SocketStates
  <2> HIDE DEF v
  <2>3. /\ ncSock' \in [Sockets -> SocketStates]
        /\ ncSock'[s] = v
        /\ \A x \in Sockets : x # s => ncSock'[x] = ncSock[x]
        /\ Held'
    BY <2>1, <2>2, SocketsKept
  <2>4. Connects'
    BY <2>1, <2>a, <2>3, ConnectsKept
  <2>5. NetConnsTypeOK' /\ NcRecordsAreCurrent' /\ NcStoreOfConnecting' /\ NcStateTimesOneLife'
    BY <1>a, <2>1, <2>2, <2>3, StateChanges
  <2> QED
    BY <2>3, <2>4, <2>5 DEF ConnsInv
<1>3. ASSUME NEW s \in Sockets, Closed(s) PROVE ConnsInv'
  <2> DEFINE v == [ncSock[s] EXCEPT !.st = "closed"]
  <2>1. /\ ncSock[s].st # "closed" /\ ~Connecting(s) /\ UNCHANGED ncThread
        /\ ncSock' = [ncSock EXCEPT ![s] = v]
        /\ StateChange(s, "closed", ncSock[s].life)
    BY <1>3, <1>a DEF Closed
  <2>2. v \in SocketStates /\ v.life = ncSock[s].life /\ v.st = "closed" /\ v.held
        /\ ncSock[s].life \in 0 .. MaxLife
    BY <1>a, <2>1 DEF SocketStates, ConnsInv, Held
  <2> HIDE DEF v
  <2>3. /\ ncSock' \in [Sockets -> SocketStates]
        /\ ncSock'[s] = v
        /\ \A x \in Sockets : x # s => ncSock'[x] = ncSock[x]
        /\ Held'
    BY <2>1, <2>2, SocketsKept
  <2>4. Connects'
    BY <2>1, <2>3, ConnectsKept
  <2>5. NetConnsTypeOK' /\ NcRecordsAreCurrent' /\ NcStoreOfConnecting' /\ NcStateTimesOneLife'
    BY <1>a, <2>1, <2>2, <2>3, StateChanges
  <2> QED
    BY <2>3, <2>4, <2>5 DEF ConnsInv
<1>4. ASSUME NEW s \in Sockets, Freed(s) PROVE ConnsInv'
  <2> DEFINE v == [ncSock[s] EXCEPT !.held = FALSE]
  <2>1. /\ ncSock[s].st = "closed" /\ ~ncSock[s].queued /\ ~Connecting(s)
        /\ ncSock' = [ncSock EXCEPT ![s] = v]
        /\ UNCHANGED <<ncThread, ncStores, ncConns, ncState, ncDisturbed>>
    BY <1>4 DEF Freed
  <2>2. /\ v \in SocketStates /\ v.st = "closed" /\ ~v.queued
        /\ v.life = ncSock[s].life /\ v.st = ncSock[s].st
    BY <1>a, <2>1 DEF SocketStates
  <2> HIDE DEF v
  <2>3. /\ ncSock' \in [Sockets -> SocketStates]
        /\ ncSock'[s] = v
        /\ \A x \in Sockets : x # s => ncSock'[x] = ncSock[x]
        /\ Held'
    BY <2>1, <2>2, SocketsKept
  <2>4. Connects'
    BY <2>1, <2>3, ConnectsKept
  <2>5. \A x \in Sockets : ncSock'[x].st = ncSock[x].st /\ ncSock'[x].life = ncSock[x].life
    BY <2>2, <2>3
  <2>6. NetConnsTypeOK' /\ NcStoreOfConnecting'
    BY <2>1, <2>3 DEF ConnsInv, NetConnsTypeOK, NcStoreOfConnecting
  <2>7. NcRecordsAreCurrent' /\ NcStateTimesOneLife'
    BY <2>1, <2>5 DEF ConnsInv, NetConnsTypeOK, NcRecordsAreCurrent, NcStateTimesOneLife
  <2> QED
    BY <2>3, <2>4, <2>6, <2>7 DEF ConnsInv
<1>5. ASSUME NEW t \in Threads, NEW s \in Sockets, AcceptReturns(t, s) PROVE ConnsInv'
  <2> DEFINE v == [ncSock[s] EXCEPT !.queued = FALSE]
  <2>1. /\ ncSock[s].queued
        /\ ncSock' = [ncSock EXCEPT ![s] = v]
        /\ ncConns' = Updated(ncConns, s, Record(s, t, TRUE)) \/ UNCHANGED ncConns
        /\ UNCHANGED <<ncThread, ncStores, ncState, ncDisturbed>>
    BY <1>5 DEF AcceptReturns
  <2>a. ~Connecting(s)
    BY <2>1 DEF Connecting, ConnsInv, Connects
  <2>2. /\ v \in SocketStates /\ v.held /\ ~v.queued
        /\ v.life = ncSock[s].life /\ v.st = ncSock[s].st
    BY <1>a, <2>1 DEF SocketStates, ConnsInv, Held
  <2> HIDE DEF v
  <2>3. /\ ncSock' \in [Sockets -> SocketStates]
        /\ ncSock'[s] = v
        /\ \A x \in Sockets : x # s => ncSock'[x] = ncSock[x]
        /\ Held'
    BY <2>1, <2>2, SocketsKept
  <2>4. Connects'
    BY <2>1, <2>a, <2>3, ConnectsKept
  <2>5. \A x \in Sockets : ncSock'[x].st = ncSock[x].st /\ ncSock'[x].life = ncSock[x].life
    BY <2>2, <2>3
  <2>6. /\ DOMAIN ncConns' \subseteq Sockets
        /\ \A x \in DOMAIN ncConns' : ncConns'[x] \in Records
        /\ NcRecordsAreCurrent'
    BY <1>a, <2>1, <2>5, RecordsKept
  <2>7. NetConnsTypeOK' /\ NcStoreOfConnecting'
    BY <2>1, <2>3, <2>6 DEF ConnsInv, NetConnsTypeOK, NcStoreOfConnecting
  <2>8. NcStateTimesOneLife'
    BY <2>1, <2>5 DEF ConnsInv, NetConnsTypeOK, NcStateTimesOneLife
  <2> QED
    BY <2>3, <2>4, <2>6, <2>7, <2>8 DEF ConnsInv
<1>6. ASSUME NEW s \in Sockets, EvictConn(s) PROVE ConnsInv'
  <2>1. /\ DOMAIN ncConns' = DOMAIN ncConns \ {s}
        /\ \A x \in DOMAIN ncConns \ {s} : ncConns'[x] = ncConns[x]
        /\ UNCHANGED <<ncSock, ncThread, ncStores, ncState, ncDisturbed>>
    BY <1>6, WithoutKeys DEF EvictConn
  <2>2. NetConnsTypeOK' /\ NcRecordsAreCurrent'
    BY <2>1 DEF ConnsInv, NetConnsTypeOK, NcRecordsAreCurrent
  <2>3. Connects' /\ Held' /\ NcStoreOfConnecting' /\ NcStateTimesOneLife'
    BY <2>1 DEF ConnsInv, Connects, Held, NcStoreOfConnecting, NcStateTimesOneLife
  <2> QED
    BY <2>2, <2>3 DEF ConnsInv
<1>7. ASSUME NEW t \in Threads, EvictStore(t) PROVE ConnsInv'
  <2>1. /\ DOMAIN ncStores' = DOMAIN ncStores \ {t}
        /\ \A x \in DOMAIN ncStores \ {t} : ncStores'[x] = ncStores[x]
        /\ UNCHANGED <<ncSock, ncThread, ncConns, ncState>>
        /\ ncDisturbed' = IF ncThread[t] # Idle THEN ncDisturbed \union {t} ELSE ncDisturbed
    BY <1>7, WithoutKeys DEF EvictStore
  <2>2. NetConnsTypeOK' /\ NcStoreOfConnecting'
    BY <2>1 DEF ConnsInv, NetConnsTypeOK, NcStoreOfConnecting
  <2>3. Connects' /\ Held' /\ NcRecordsAreCurrent' /\ NcStateTimesOneLife'
    BY <2>1 DEF ConnsInv, Connects, Held, NcRecordsAreCurrent, NcStateTimesOneLife
  <2> QED
    BY <2>2, <2>3 DEF ConnsInv
<1>8. ASSUME NEW t \in Threads, SynSent(t) PROVE ConnsInv'
  <2> DEFINE s == ncThread[t].sk
             v == [ncSock[s] EXCEPT !.st = "syn", !.life = ncSock[s].life + 1]
             w == [ncThread[t] EXCEPT !.pc = "sent"]
  <2>1. /\ ncThread[t].pc = "entered"
        /\ ncThread' = [ncThread EXCEPT ![t] = w]
        /\ ncSock' = [ncSock EXCEPT ![s] = v]
        /\ StateChange(s, "syn", ncSock[s].life + 1)
    BY <1>8, <1>a DEF SynSent
  <2>a. /\ ncThread[t] # Idle /\ ncThread[t] \in CallType
        /\ s \in Sockets
    BY <1>a, <2>1 DEF ThreadStates, CallType, Idle
  <2>b. /\ ncSock[s] \in SocketStates
        /\ ncSock[s].held /\ ~ncSock[s].queued
        /\ ncSock[s].st = "closed" /\ ncSock[s].life < MaxLife
        /\ \A u \in Threads : ncThread[u] # Idle /\ u # t => ncThread[u].sk # s
    BY <1>a, <2>1, <2>a DEF ConnsInv, Connects
  <2>2. /\ v \in SocketStates /\ v.life = ncSock[s].life + 1 /\ v.st = "syn" /\ v.held /\ ~v.queued
        /\ ncSock[s].life + 1 \in 0 .. MaxLife
    <3>1. ncSock[s].life + 1 \in 0 .. MaxLife
      BY <2>b DEF SocketStates
    <3> QED
      BY <2>b, <3>1, SynState
  <2>c. /\ w \in CallType
        /\ w.pc = "sent" /\ w.sk = s /\ w.seen = ncThread[t].seen
    BY <2>a DEF CallType
  <2> HIDE DEF v, w, s
  <2>3. /\ ncSock' \in [Sockets -> SocketStates]
        /\ ncSock'[s] = v
        /\ \A x \in Sockets : x # s => ncSock'[x] = ncSock[x]
        /\ Held'
    BY <2>1, <2>2, <2>a, SocketsKept
  <2>d. /\ ncThread' \in [Threads -> ThreadStates]
        /\ ncThread'[t] = w
        /\ \A u \in Threads : u # t => ncThread'[u] = ncThread[u]
    BY <1>a, <2>1, <2>c DEF ThreadStates, CallType
  <2>e. ncThread[t].sk = s
    BY DEF s
  <2>4. Connects'
    <3>1. \A u \in Threads : u # t /\ ncThread[u] # Idle => /\ ncThread[u].sk \in Sockets
                                                           /\ ncThread[u].sk # s
      BY <1>a, <2>b DEF ThreadStates
    <3> QED
      BY <2>2, <2>3, <2>a, <2>b, <2>c, <2>d, <2>e, <3>1 DEF ConnsInv, Connects
  <2>5. NetConnsTypeOK' /\ NcRecordsAreCurrent' /\ NcStoreOfConnecting' /\ NcStateTimesOneLife'
    <3>1. \A u \in Threads : ncThread'[u] # Idle =>
             /\ ncThread[u] # Idle /\ ncThread'[u].sk = ncThread[u].sk
             /\ ncThread'[u].seen = ncThread[u].seen
      BY <2>a, <2>c, <2>d, <2>e
    <3>2. ncSock[s].st # "closed" => ncSock[s].life + 1 = ncSock[s].life
      BY <2>b
    <3> QED
      BY <2>1, <2>2, <2>3, <2>a, <2>d, <3>1, <3>2, StateChanges
  <2> QED
    BY <2>3, <2>4, <2>5 DEF ConnsInv
<1>9. ASSUME NEW t \in Threads, SynFailed(t) PROVE ConnsInv'
  <2> DEFINE s == ncThread[t].sk
             v == [ncSock[s] EXCEPT !.st = "closed"]
             w == [ncThread[t] EXCEPT !.pc = "failed"]
  <2>1. /\ ncThread[t].pc = "sent"
        /\ ncThread' = [ncThread EXCEPT ![t] = w]
        /\ ncSock' = [ncSock EXCEPT ![s] = v]
        /\ StateChange(s, "closed", ncSock[s].life)
    BY <1>9, <1>a DEF SynFailed
  <2>a. /\ ncThread[t] # Idle /\ ncThread[t] \in CallType
        /\ s \in Sockets
    BY <1>a, <2>1 DEF ThreadStates, CallType, Idle
  <2>b. /\ ncSock[s] \in SocketStates
        /\ ncSock[s].held /\ ~ncSock[s].queued
        /\ ncSock[s].st = "syn"
        /\ \A u \in Threads : ncThread[u] # Idle /\ u # t => ncThread[u].sk # s
    BY <1>a, <2>1, <2>a DEF ConnsInv, Connects
  <2>2. /\ v \in SocketStates /\ v.life = ncSock[s].life /\ v.st = "closed" /\ v.held /\ ~v.queued
        /\ ncSock[s].life \in 0 .. MaxLife
    BY <2>b DEF SocketStates
  <2>c. /\ w \in CallType
        /\ w.pc = "failed" /\ w.sk = s /\ w.seen = ncThread[t].seen
    BY <2>a DEF CallType
  <2> HIDE DEF v, w, s
  <2>3. /\ ncSock' \in [Sockets -> SocketStates]
        /\ ncSock'[s] = v
        /\ \A x \in Sockets : x # s => ncSock'[x] = ncSock[x]
        /\ Held'
    BY <2>1, <2>2, <2>a, SocketsKept
  <2>d. /\ ncThread' \in [Threads -> ThreadStates]
        /\ ncThread'[t] = w
        /\ \A u \in Threads : u # t => ncThread'[u] = ncThread[u]
    BY <1>a, <2>1, <2>c DEF ThreadStates, CallType
  <2>e. ncThread[t].sk = s
    BY DEF s
  <2>4. Connects'
    <3>1. \A u \in Threads : u # t /\ ncThread[u] # Idle => /\ ncThread[u].sk \in Sockets
                                                           /\ ncThread[u].sk # s
      BY <1>a, <2>b DEF ThreadStates
    <3> QED
      BY <2>2, <2>3, <2>a, <2>b, <2>c, <2>d, <2>e, <3>1 DEF ConnsInv, Connects
  <2>5. NetConnsTypeOK' /\ NcRecordsAreCurrent' /\ NcStoreOfConnecting' /\ NcStateTimesOneLife'
    <3>1. \A u \in Threads : ncThread'[u] # Idle =>
             /\ ncThread[u] # Idle /\ ncThread'[u].sk = ncThread[u].sk
             /\ ncThread'[u].seen = ncThread[u].seen
      BY <2>a, <2>c, <2>d, <2>e
    <3>2. ncSock[s].st # "closed" => ncSock[s].life = ncSock[s].life
      BY <2>b
    <3> QED
      BY <2>1, <2>2, <2>3, <2>a, <2>d, <3>1, <3>2, StateChanges
  <2> QED
    BY <2>3, <2>4, <2>5 DEF ConnsInv
<1>10. ASSUME NEW t \in Threads, NEW s \in Sockets, ConnectEnter(t, s) PROVE ConnsInv'
  <2> DEFINE v == [ncSock[s] EXCEPT !.held = TRUE]
  <2>1. /\ ncThread[t] = Idle
        /\ ncSock[s].st = "closed" /\ ~ncSock[s].queued /\ ~Connecting(s)
        /\ ncSock[s].life < MaxLife
        /\ ncSock' = [ncSock EXCEPT ![s] = v]
        /\ ncDisturbed' = ncDisturbed \ {t}
        /\ UNCHANGED <<ncConns, ncState>>
    BY <1>10 DEF ConnectEnter
  <2>b. PICK ran \in BOOLEAN :
           /\ ncThread' = [ncThread EXCEPT ![t] = [pc |-> "entered", sk |-> s, seen |-> ran]]
           /\ ncStores' = IF ran THEN Updated(ncStores, t, s) ELSE ncStores
    BY <1>10 DEF ConnectEnter
  <2> DEFINE w == [pc |-> "entered", sk |-> s, seen |-> ran]
  <2>2. /\ v \in SocketStates /\ v.held /\ ~v.queued /\ v.st = "closed"
        /\ v.life = ncSock[s].life /\ v.st = ncSock[s].st
    BY <1>a, <2>1 DEF SocketStates
  <2>c. /\ w \in ThreadStates /\ w # Idle /\ w.pc = "entered" /\ w.sk = s
        /\ w.seen = ran
    BY DEF ThreadStates, Idle
  <2> HIDE DEF v, w
  <2>3. /\ ncSock' \in [Sockets -> SocketStates]
        /\ ncSock'[s] = v
        /\ \A x \in Sockets : x # s => ncSock'[x] = ncSock[x]
        /\ Held'
    BY <2>1, <2>2, SocketsKept
  <2>d. /\ ncThread' \in [Threads -> ThreadStates]
        /\ ncThread'[t] = w
        /\ \A u \in Threads : u # t => ncThread'[u] = ncThread[u]
    <3>1. ncThread' = [ncThread EXCEPT ![t] = w]
      BY <2>b DEF w
    <3> QED
      BY <1>a, <2>c, <3>1
  <2>4. Connects'
    <3>1. \A u \in Threads : ncThread[u] # Idle => /\ ncThread[u].sk \in Sockets
                                                   /\ ncThread[u].sk # s
      BY <1>a, <2>1 DEF ThreadStates, Connecting
    <3> QED
      BY <2>1, <2>2, <2>3, <2>c, <2>d, <3>1 DEF ConnsInv, Connects
  <2>5. \A x \in Sockets : ncSock'[x].st = ncSock[x].st /\ ncSock'[x].life = ncSock[x].life
    BY <2>2, <2>3
  <2>6. /\ DOMAIN ncStores \subseteq DOMAIN ncStores'
        /\ DOMAIN ncStores' \subseteq DOMAIN ncStores \cup {t}
        /\ \A u \in DOMAIN ncStores : u # t => ncStores'[u] = ncStores[u]
        /\ ran => t \in DOMAIN ncStores' /\ ncStores'[t] = s
        /\ ~ran => ncStores' = ncStores
    BY <2>b DEF Updated
  <2>7. NetConnsTypeOK' /\ NcStoreOfConnecting'
    BY <2>1, <2>3, <2>6, <2>c, <2>d DEF ConnsInv, NetConnsTypeOK, NcStoreOfConnecting
  <2>8. NcRecordsAreCurrent' /\ NcStateTimesOneLife'
    BY <2>1, <2>5 DEF ConnsInv, NetConnsTypeOK, NcRecordsAreCurrent, NcStateTimesOneLife
  <2> QED
    BY <2>3, <2>4, <2>7, <2>8 DEF ConnsInv
<1>11. ASSUME NEW t \in Threads, ConnectReturns(t) PROVE ConnsInv'
  <2>1. /\ ncThread[t] # Idle
        /\ \/ connect_exit(t, ncThread[t].pc = "sent")
           \/ UNCHANGED <<ncStores, ncConns>>
        /\ ncThread' = [ncThread EXCEPT ![t] = Idle]
        /\ UNCHANGED <<ncSock, ncState, ncDisturbed>>
    BY <1>11 DEF ConnectReturns
  <2>2. /\ ncThread' \in [Threads -> ThreadStates]
        /\ ncThread'[t] = Idle
        /\ \A u \in Threads : u # t => ncThread'[u] = ncThread[u]
    BY <1>a, <2>1 DEF ThreadStates
  <2>3. /\ DOMAIN ncStores' \subseteq DOMAIN ncStores
        /\ \A u \in DOMAIN ncStores' : ncStores'[u] = ncStores[u]
        /\ \A u \in DOMAIN ncStores : u # t => u \in DOMAIN ncStores'
    <3>1. UNCHANGED ncStores \/ ncStores' = Without(ncStores, {t})
      BY <2>1 DEF connect_exit
    <3>2. CASE ncStores' = Without(ncStores, {t})
      <4>1. /\ DOMAIN ncStores' = DOMAIN ncStores \ {t}
            /\ \A u \in DOMAIN ncStores \ {t} : ncStores'[u] = ncStores[u]
        BY <3>2, WithoutKeys
      <4> QED
        BY <4>1
    <3> QED
      BY <3>1, <3>2
  <2>4. /\ DOMAIN ncConns' \subseteq Sockets
        /\ \A x \in DOMAIN ncConns' : ncConns'[x] \in Records
        /\ NcRecordsAreCurrent'
    <3>1. CASE UNCHANGED ncConns
      BY <2>1, <3>1 DEF ConnsInv, NetConnsTypeOK, NcRecordsAreCurrent
    <3>2. CASE t \in DOMAIN ncStores /\ ncConns' = Updated(ncConns, ncStores[t],
                                                          Record(ncStores[t], t, FALSE))
      <4>1. ncStores[t] \in Sockets
        BY <3>2 DEF ConnsInv, NetConnsTypeOK
      <4>2. \A x \in Sockets : ncSock'[x].st = ncSock[x].st /\ ncSock'[x].life = ncSock[x].life
        BY <2>1
      <4> QED
        BY <3>2, <4>1, <4>2, RecordsKept
    <3> QED
      BY <2>1, <3>1, <3>2 DEF connect_exit
  <2>5. NetConnsTypeOK' /\ NcStoreOfConnecting'
    BY <2>1, <2>2, <2>3, <2>4 DEF ConnsInv, NetConnsTypeOK, NcStoreOfConnecting
  <2>6. Connects' /\ Held' /\ NcStateTimesOneLife'
    BY <2>1, <2>2 DEF ConnsInv, Connects, Held, NcStateTimesOneLife
  <2> QED
    BY <2>4, <2>5, <2>6 DEF ConnsInv
<1>12. CASE UNCHANGED ncVars
  BY <1>12 DEF ncVars, ConnsInv, NetConnsTypeOK, Connects, Held, NcRecordsAreCurrent,
               NcStoreOfConnecting, NcStateTimesOneLife
<1> QED
  BY <1>1, <1>2, <1>3, <1>4, <1>5, <1>6, <1>7, <1>8, <1>9, <1>10, <1>11, <1>12 DEF NetConnsNext

LEMMA ConnsInvHolds == NetConnsSpec => []ConnsInv
  BY ConnsInvInit, ConnsInvNext, PTL DEF NetConnsSpec

(* The maps keep their types, whatever the probes meet.                    *)
THEOREM ConnsTypeCorrect == NetConnsSpec => []NetConnsTypeOK
<1>1. ConnsInv => NetConnsTypeOK
  BY DEF ConnsInv
<1> QED
  BY <1>1, ConnsInvHolds, PTL

(* A record of conns_info is about the connection its socket has now       *)
(* (__tcp_set_state, __inet_csk_accept).                                   *)
THEOREM RecordsStayCurrent == NetConnsSpec => []NcRecordsAreCurrent
<1>1. ConnsInv => NcRecordsAreCurrent
  BY DEF ConnsInv
<1> QED
  BY <1>1, ConnsInvHolds, PTL

(* sock_stores names the socket a thread connects (__tcp_v4_connect,       *)
(* __tcp_set_state).                                                       *)
THEOREM StoresNameTheSocket == NetConnsSpec => []NcStoreOfConnecting
<1>1. ConnsInv => NcStoreOfConnecting
  BY DEF ConnsInv
<1> QED
  BY <1>1, ConnsInvHolds, PTL

(* A time in a state is measured within one connection                     *)
(* (__handle_set_state).                                                   *)
THEOREM StatesAreOfOneLife == NetConnsSpec => []NcStateTimesOneLife
<1>1. ConnsInv => NcStateTimesOneLife
  BY DEF ConnsInv
<1> QED
  BY <1>1, ConnsInvHolds, PTL

----------------------------------------------------------------------------
(* SockMap: a message that is redirected goes to the other end of its      *)
(* connection, and acceleration neither loses, doubles nor reorders.       *)
USE SockMapAssumption

SmEndType  == [st : {"none", "open", "closed"}, verdict : BOOLEAN, early : BOOLEAN]
SmMessages == [of : Ends, nr : Nat]

(* Type invariant of the acceleration.                                     *)
SmTypeOK ==
    /\ smTuple \in [Conns -> Tuples]
    /\ smEnd \in [Ends -> SmEndType]
    /\ smMap \in [SockKeys -> Ends \cup {None}]
    /\ smSent \in [Ends -> Nat]
    /\ smWire \in [Ends -> Seq(SmMessages)]
    /\ smPsock \in [Ends -> Seq(SmMessages)]
    /\ smRead \in [Ends -> Seq(SmMessages)]

(* The map holds open sockets, each under its own key.                     *)
SmMapRight ==
    \A k \in SockKeys : smMap[k] # None => Key(smMap[k]) = k /\ smEnd[smMap[k]].st = "open"

(* Whatever has come to a socket is from its peer, if no other connection  *)
(* has the same addresses and ports.                                       *)
SmFromPeer(e) ==
    /\ \A i \in DOMAIN smWire[e] : smWire[e][i].of = Peer(e)
    /\ Distinct(e[1]) => /\ \A i \in DOMAIN smPsock[e] : smPsock[e][i].of = Peer(e)
                         /\ \A i \in DOMAIN smRead[e] : smRead[e][i].of = Peer(e)

(* If nothing came through TCP, then what was read and what waits are,     *)
(* together and in this order, all that the peer sent.                     *)
SmInOrder(e) ==
    Distinct(e[1]) /\ ~smEnd[Peer(e)].early =>
        /\ smWire[e] = << >>
        /\ \A i \in 1 .. Len(smRead[e]) : smRead[e][i].nr = i
        /\ \A i \in 1 .. Len(smPsock[e]) : smPsock[e][i].nr = Len(smRead[e]) + i
        /\ smEnd[e].st # "closed" => Len(smRead[e]) + Len(smPsock[e]) = smSent[Peer(e)]

SmInv ==
    /\ SmTypeOK
    /\ SmMapRight
    /\ \A e \in Ends : smEnd[e].st = "none" => ~smEnd[e].early
    /\ \A e \in Ends : SmFromPeer(e) /\ SmInOrder(e)

(* The other end of a connection, and the keys.                            *)
LEMMA PeersAndKeys ==
  ASSUME SmTypeOK, NEW e \in Ends
  PROVE  /\ Peer(e) \in Ends /\ Peer(Peer(e)) = e /\ Peer(e) # e
         /\ Peer(e)[1] = e[1]
         /\ Key(e) \in SockKeys
         /\ e # None
  BY DEF SmTypeOK, Ends, Sides, Peer, Other, Key, SockKeys, None

(* The keys of two ends with the addresses and ports of one connection     *)
(* only.                                                                   *)
LEMMA DistinctKeys ==
  ASSUME SmTypeOK, NEW e \in Ends, NEW d \in Ends, Distinct(e[1]), Key(d) = Key(e)
  PROVE  d = e
<1>1. smTuple[d[1]] = smTuple[e[1]] /\ d[2] = e[2] /\ d[1] \in Conns
  BY DEF Ends, Key
<1>2. d[1] = e[1]
  BY <1>1 DEF Distinct
<1>3. d = <<d[1], d[2]>> /\ e = <<e[1], e[2]>>
  BY DEF Ends
<1> QED
  BY <1>1, <1>2, <1>3

LEMMA SmInvInit == SockMapInit => SmInv
  BY DEF SockMapInit, SmInv, SmTypeOK, SmEndType, SmMessages, SmMapRight, SmFromPeer,
         SmInOrder, SockKeys, Sides, Ends, Peer, Other

(* A step that leaves a socket's messages alone.                           *)
LEMMA MessagesKept ==
  ASSUME NEW e, SmFromPeer(e), SmInOrder(e), smTuple' = smTuple,
         smWire'[e] = smWire[e], smPsock'[e] = smPsock[e], smRead'[e] = smRead[e],
         smSent'[Peer(e)] = smSent[Peer(e)],
         smEnd[Peer(e)].early => smEnd'[Peer(e)].early,
         smEnd'[e].st # "closed" => smEnd[e].st # "closed"
  PROVE  SmFromPeer(e)' /\ SmInOrder(e)'
  BY DEF SmFromPeer, SmInOrder, Distinct, Peer

LEMMA SmInvNext == SmInv /\ [SockMapNext]_smVars => SmInv'
<1> SUFFICES ASSUME SmInv, [SockMapNext]_smVars
             PROVE  SmInv'
  OBVIOUS
<1>a. /\ SmTypeOK /\ SmMapRight
      /\ \A e \in Ends : smEnd[e].st = "none" => ~smEnd[e].early
      /\ \A e \in Ends : SmFromPeer(e) /\ SmInOrder(e)
  BY DEF SmInv
<1>1. CASE SmAttach
  BY <1>1 DEF SmAttach, SmInv, SmTypeOK, SmMapRight, SmFromPeer, SmInOrder, Distinct, Key
<1>2. ASSUME NEW e \in Ends, SmEstablished(e) PROVE SmInv'
  <2> DEFINE k == Key(e)
             v == [st |-> "open", early |-> FALSE,
                   verdict |-> smMap'[k] = e /\ smLoaded = "sk_msg"]
  <2>1. /\ smEnd[e].st = "none"
        /\ smMap' = IF smLoaded # "nothing" /\ smMap[k] = None THEN [smMap EXCEPT ![k] = e]
                    ELSE smMap
        /\ smEnd' = [smEnd EXCEPT ![e] = v]
        /\ UNCHANGED <<smTuple, smLoaded, smSent, smWire, smPsock, smRead>>
    BY <1>2 DEF SmEstablished, bpf_sockmap, extract_key4_from_ops
  <2>2. k \in SockKeys
    BY <1>a, PeersAndKeys
  <2>3. v \in SmEndType /\ v.st = "open" /\ ~v.early
    BY DEF SmEndType
  <2> HIDE DEF k, v
  <2>4. /\ smEnd' \in [Ends -> SmEndType] /\ smEnd'[e] = v
        /\ \A x \in Ends : x # e => smEnd'[x] = smEnd[x]
    BY <1>a, <2>1, <2>3 DEF SmTypeOK
  <2>5. SmTypeOK'
    BY <1>a, <2>1, <2>2, <2>4 DEF SmTypeOK
  <2>6. SmMapRight'
    <3> SUFFICES ASSUME NEW q \in SockKeys, smMap'[q] # None
                 PROVE  /\ <<smTuple'[smMap'[q][1]], smMap'[q][2]>> = q
                        /\ smEnd'[smMap'[q]].st = "open"
      BY DEF SmMapRight, Key
    <3>1. CASE q = k /\ smMap'[q] = e
      BY <2>1, <2>3, <2>4, <3>1 DEF Key, k
    <3>2. CASE ~(q = k /\ smMap'[q] = e)
      <4>1. smMap'[q] = smMap[q]
        BY <1>a, <2>1, <2>2, <3>2 DEF SmTypeOK
      <4>2. Key(smMap[q]) = q /\ smEnd[smMap[q]].st = "open" /\ smMap[q] \in Ends
        BY <1>a, <4>1 DEF SmMapRight, SmTypeOK
      <4>3. smMap[q] # e
        BY <2>1, <4>2
      <4> QED
        BY <2>1, <2>4, <4>1, <4>2, <4>3 DEF Key
    <3> QED
      BY <3>1, <3>2
  <2>7. ASSUME NEW x \in Ends PROVE SmFromPeer(x)' /\ SmInOrder(x)'
    <3>1. Peer(x) \in Ends
      BY <1>a, PeersAndKeys
    <3>2. smEnd[Peer(x)].early => smEnd'[Peer(x)].early
      BY <1>a, <2>1, <2>4, <3>1
    <3>3. smEnd'[x].st # "closed" => smEnd[x].st # "closed"
      BY <2>1, <2>4
    <3> QED
      BY <1>a, <2>1, <3>2, <3>3, MessagesKept
  <2>8. \A x \in Ends : smEnd'[x].st = "none" => ~smEnd'[x].early
    BY <1>a, <2>3, <2>4
  <2> QED
    BY <2>5, <2>6, <2>7, <2>8 DEF SmInv
<1>3. ASSUME NEW e \in Ends, SmSend(e) PROVE SmInv'
  <2> DEFINE message == [of |-> e, nr |-> smSent[e] + 1]
             to == bpf_redir(e)
             p  == Peer(e)
             v  == [smEnd[e] EXCEPT !.early = smEnd[e].early \/ to = None]
  <2>1. /\ smEnd[e].st = "open"
        /\ smSent' = [smSent EXCEPT ![e] = smSent[e] + 1]
        /\ smEnd' = [smEnd EXCEPT ![e].early = @ \/ to = None]
        /\ to = None => /\ smWire' = [smWire EXCEPT ![p] = Append(smWire[p], message)]
                        /\ smPsock' = smPsock
        /\ to # None => /\ smPsock' = [smPsock EXCEPT ![to] = Append(smPsock[to], message)]
                        /\ smWire' = smWire
        /\ UNCHANGED <<smTuple, smMap, smLoaded, smRead>>
    BY <1>3 DEF SmSend
  <2>2. smEnd[e] \in SmEndType /\ smSent[e] \in Nat
    BY <1>a DEF SmTypeOK
  <2>3. /\ smEnd' \in [Ends -> SmEndType]
        /\ smEnd'[e].st = "open"
        /\ smEnd'[e].early <=> smEnd[e].early \/ to = None
        /\ \A x \in Ends : x # e => smEnd'[x] = smEnd[x]
    BY <1>a, <2>1, <2>2 DEF SmTypeOK, SmEndType
  <2>4. message \in SmMessages /\ message.of = e /\ message.nr = smSent[e] + 1
    BY <2>2 DEF SmMessages
  <2>5. p \in Ends /\ Peer(p) = e /\ p # e /\ Key(p) \in SockKeys /\ p # None
    BY <1>a, PeersAndKeys
  <2>6. to # None => to \in Ends /\ Key(to) = Key(p) /\ smEnd[to].st = "open"
    <3>1. to # None => to = smMap[Key(p)]
      BY DEF bpf_redir, extract_key4_from_msg
    <3> QED
      BY <1>a, <2>5, <3>1 DEF SmTypeOK, SmMapRight
  <2> HIDE DEF message, to, p, v
  <2>7. SmTypeOK'
    <3>1. smSent' \in [Ends -> Nat]
      BY <1>a, <2>1, <2>2 DEF SmTypeOK
    <3>2. smWire' \in [Ends -> Seq(SmMessages)]
      <4>1. smWire[p] \in Seq(SmMessages)
        BY <1>a, <2>5 DEF SmTypeOK
      <4>2. Append(smWire[p], message) \in Seq(SmMessages)
        BY <2>4, <4>1
      <4> QED
        BY <1>a, <2>1, <4>2 DEF SmTypeOK
    <3>3. smPsock' \in [Ends -> Seq(SmMessages)]
      <4>1. CASE to # None
        <5>1. smPsock[to] \in Seq(SmMessages)
          BY <1>a, <2>6, <4>1 DEF SmTypeOK
        <5>2. Append(smPsock[to], message) \in Seq(SmMessages)
          BY <2>4, <5>1
        <5> QED
          BY <1>a, <2>1, <4>1, <5>2 DEF SmTypeOK
      <4>2. CASE to = None
        BY <1>a, <2>1, <4>2 DEF SmTypeOK
      <4> QED
        BY <4>1, <4>2
    <3> QED
      BY <1>a, <2>1, <2>3, <3>1, <3>2, <3>3 DEF SmTypeOK
  <2>8. \A x \in Ends : smEnd'[x].st = smEnd[x].st
    BY <2>1, <2>3
  <2>9. SmMapRight'
    <3> SUFFICES ASSUME NEW q \in SockKeys, smMap'[q] # None
                 PROVE  /\ <<smTuple'[smMap'[q][1]], smMap'[q][2]>> = q
                        /\ smEnd'[smMap'[q]].st = "open"
      BY DEF SmMapRight, Key
    <3>1. smMap'[q] = smMap[q] /\ smMap[q] \in Ends /\ smMap[q] # None
      BY <1>a, <2>1, PeersAndKeys DEF SmTypeOK
    <3> QED
      BY <1>a, <2>1, <2>8, <3>1 DEF SmMapRight, Key
  <2>10. \A x \in Ends : smEnd'[x].st = "none" => ~smEnd'[x].early
    BY <1>a, <2>3
  (* The other end of the sender.                                          *)
  <2>11. SmFromPeer(p)' /\ SmInOrder(p)'
    <3>1. SmFromPeer(p) /\ SmInOrder(p)
      BY <1>a, <2>5
    <3>2. CASE to = None
      <4>1. /\ smWire'[p] = Append(smWire[p], message) /\ smPsock' = smPsock /\ smRead' = smRead
            /\ smTuple' = smTuple /\ smEnd'[Peer(p)].early
        BY <1>a, <2>1, <2>3, <2>5, <3>2 DEF SmTypeOK
      <4>2. smWire[p] \in Seq(SmMessages)
        BY <1>a, <2>5 DEF SmTypeOK
      <4>3. \A i \in DOMAIN smWire'[p] : smWire'[p][i].of = Peer(p)
        BY <2>4, <2>5, <3>1, <4>1, <4>2 DEF SmFromPeer
      <4> QED
        BY <3>1, <4>1, <4>3 DEF SmFromPeer, SmInOrder, Distinct, Peer
    <3>3. CASE to = p
      <4>1. /\ smPsock'[p] = Append(smPsock[p], message) /\ smWire' = smWire /\ smRead' = smRead
            /\ smTuple' = smTuple /\ smEnd[p].st = "open"
            /\ smEnd'[Peer(p)].early <=> smEnd[Peer(p)].early
            /\ smSent'[Peer(p)] = smSent[Peer(p)] + 1
        BY <1>a, <2>1, <2>3, <2>5, <2>6, <3>3 DEF SmTypeOK
      <4>2. smPsock[p] \in Seq(SmMessages) /\ smRead[p] \in Seq(SmMessages)
        BY <1>a, <2>5 DEF SmTypeOK
      <4>3. SmFromPeer(p)'
        <5>1. Distinct(p[1]) => \A i \in DOMAIN smPsock'[p] : smPsock'[p][i].of = Peer(p)
          BY <2>4, <2>5, <3>1, <4>1, <4>2 DEF SmFromPeer
        <5> QED
          BY <3>1, <4>1, <5>1 DEF SmFromPeer, Distinct, Peer
      <4>4. ASSUME Distinct(p[1]), ~smEnd[Peer(p)].early
            PROVE  /\ \A i \in 1 .. Len(smPsock'[p]) : smPsock'[p][i].nr = Len(smRead[p]) + i
                   /\ Len(smRead[p]) + Len(smPsock'[p]) = smSent[Peer(p)] + 1
        <5>1. /\ \A i \in 1 .. Len(smPsock[p]) : smPsock[p][i].nr = Len(smRead[p]) + i
              /\ Len(smRead[p]) + Len(smPsock[p]) = smSent[Peer(p)]
          BY <3>1, <4>1, <4>4 DEF SmInOrder
        <5>2. message.nr = smSent[Peer(p)] + 1
          BY <2>4, <2>5
        <5>3. /\ Len(smPsock'[p]) = Len(smPsock[p]) + 1
              /\ \A i \in 1 .. Len(smPsock[p]) : smPsock'[p][i] = smPsock[p][i]
              /\ smPsock'[p][Len(smPsock[p]) + 1] = message
          BY <2>4, <4>1, <4>2
        <5>4. Len(smPsock[p]) \in Nat /\ Len(smRead[p]) \in Nat /\ smSent[Peer(p)] \in Nat
          BY <2>2, <2>5, <4>2
        <5>5. Len(smRead[p]) + (Len(smPsock[p]) + 1) = smSent[Peer(p)] + 1
          <6> DEFINE read == Len(smRead[p])
                     waits == Len(smPsock[p])
                     sent == smSent[Peer(p)]
          <6>1. read \in Nat /\ waits \in Nat /\ sent \in Nat /\ read + waits = sent
            BY <5>1, <5>4
          <6> HIDE DEF read, waits, sent
          <6>2. read + (waits + 1) = sent + 1
            BY <6>1
          <6> QED
            BY <6>2 DEF read, waits, sent
        <5>6. \A i \in 1 .. Len(smPsock'[p]) : smPsock'[p][i].nr = Len(smRead[p]) + i
          <6> SUFFICES ASSUME NEW i \in 1 .. Len(smPsock'[p])
                       PROVE  smPsock'[p][i].nr = Len(smRead[p]) + i
            OBVIOUS
          <6>1. CASE i = Len(smPsock[p]) + 1
            <7>1. smPsock'[p][i].nr = smSent[Peer(p)] + 1
              BY <5>2, <5>3, <6>1
            <7> QED
              BY <5>5, <6>1, <7>1
          <6>2. CASE i \in 1 .. Len(smPsock[p])
            BY <5>1, <5>3, <6>2
          <6> QED
            BY <5>3, <5>4, <6>1, <6>2
        <5> QED
          BY <5>3, <5>5, <5>6
      <4>5. SmInOrder(p)'
        BY <3>1, <4>1, <4>4 DEF SmInOrder, Distinct, Peer
      <4> QED
        BY <4>3, <4>5
    <3>4. CASE to # None /\ to # p
      <4>1. ~Distinct(p[1])
        BY <1>a, <2>5, <2>6, <3>4, DistinctKeys
      <4>2. smWire' = smWire /\ smTuple' = smTuple
        BY <2>1, <3>4
      <4> QED
        BY <3>1, <4>1, <4>2 DEF SmFromPeer, SmInOrder, Distinct, Peer
    <3> QED
      BY <3>2, <3>3, <3>4
  <2>12. ASSUME NEW x \in Ends, x # p PROVE SmFromPeer(x)' /\ SmInOrder(x)'
    <3>1. SmFromPeer(x) /\ SmInOrder(x) /\ Peer(x) \in Ends /\ Peer(x) # e
      BY <1>a, <2>5, <2>12, PeersAndKeys DEF p
    <3>2. /\ smWire'[x] = smWire[x] /\ smRead'[x] = smRead[x] /\ smTuple' = smTuple
          /\ smSent'[Peer(x)] = smSent[Peer(x)]
          /\ smEnd'[Peer(x)] = smEnd[Peer(x)] /\ smEnd'[x].st = smEnd[x].st
      BY <1>a, <2>1, <2>3, <2>8, <2>12, <3>1 DEF SmTypeOK
    <3>3. CASE to # x
      <4>1. smPsock'[x] = smPsock[x]
        BY <1>a, <2>1, <3>3 DEF SmTypeOK
      <4> QED
        BY <3>1, <3>2, <4>1, MessagesKept
    <3>4. CASE to = x
      <4>1. ~Distinct(x[1])
        BY <1>a, <2>5, <2>6, <2>12, <3>4, DistinctKeys, PeersAndKeys
      <4> QED
        BY <3>1, <3>2, <4>1 DEF SmFromPeer, SmInOrder, Distinct, Peer
    <3> QED
      BY <3>3, <3>4
  <2> QED
    BY <2>7, <2>9, <2>10, <2>11, <2>12 DEF SmInv
<1>4. ASSUME NEW e \in Ends, SmReadPsock(e) PROVE SmInv'
  <2>1. /\ smEnd[e].st = "open" /\ smPsock[e] # << >>
        /\ smRead' = [smRead EXCEPT ![e] = Append(smRead[e], Head(smPsock[e]))]
        /\ smPsock' = [smPsock EXCEPT ![e] = Tail(smPsock[e])]
        /\ UNCHANGED <<smTuple, smEnd, smMap, smLoaded, smSent, smWire>>
    BY <1>4 DEF SmReadPsock
  <2>2. /\ smPsock[e] \in Seq(SmMessages) /\ smRead[e] \in Seq(SmMessages)
        /\ Head(smPsock[e]) \in SmMessages /\ Tail(smPsock[e]) \in Seq(SmMessages)
        /\ Len(smPsock[e]) \in Nat /\ Len(smPsock[e]) > 0
        /\ Head(smPsock[e]) = smPsock[e][1]
    BY <1>a, <2>1 DEF SmTypeOK
  <2>3. /\ smRead'[e] = Append(smRead[e], Head(smPsock[e]))
        /\ smPsock'[e] = Tail(smPsock[e])
        /\ \A x \in Ends : x # e => smRead'[x] = smRead[x] /\ smPsock'[x] = smPsock[x]
    BY <1>a, <2>1 DEF SmTypeOK
  <2>4. SmTypeOK'
    BY <1>a, <2>1, <2>2 DEF SmTypeOK
  <2>5. SmMapRight' /\ \A x \in Ends : smEnd'[x].st = "none" => ~smEnd'[x].early
    BY <1>a, <2>1 DEF SmMapRight, Key
  <2>6. ASSUME NEW x \in Ends, x # e PROVE SmFromPeer(x)' /\ SmInOrder(x)'
    BY <1>a, <2>1, <2>3, <2>6, MessagesKept
  <2>7. SmFromPeer(e) /\ SmInOrder(e)
    BY <1>a
  <2>8. SmFromPeer(e)'
    <3>1. ASSUME Distinct(e[1])
          PROVE  /\ \A i \in DOMAIN smPsock'[e] : smPsock'[e][i].of = Peer(e)
                 /\ \A i \in DOMAIN smRead'[e] : smRead'[e][i].of = Peer(e)
      BY <2>2, <2>3, <2>7, <3>1 DEF SmFromPeer
    <3> QED
      BY <2>1, <2>7, <3>1 DEF SmFromPeer, Distinct, Peer
  <2>9. SmInOrder(e)'
    <3>1. ASSUME Distinct(e[1]), ~smEnd[Peer(e)].early
          PROVE  /\ \A i \in 1 .. Len(smRead'[e]) : smRead'[e][i].nr = i
                 /\ \A i \in 1 .. Len(smPsock'[e]) :
                       smPsock'[e][i].nr = Len(smRead'[e]) + i
                 /\ Len(smRead'[e]) + Len(smPsock'[e]) = smSent[Peer(e)]
      <4>1. /\ \A i \in 1 .. Len(smRead[e]) : smRead[e][i].nr = i
            /\ \A i \in 1 .. Len(smPsock[e]) : smPsock[e][i].nr = Len(smRead[e]) + i
            /\ Len(smRead[e]) + Len(smPsock[e]) = smSent[Peer(e)]
        BY <2>1, <2>7, <3>1 DEF SmInOrder
      <4>2. Head(smPsock[e]).nr = Len(smRead[e]) + 1
        BY <2>2, <4>1
      <4>3. /\ Len(smRead'[e]) = Len(smRead[e]) + 1
            /\ \A i \in 1 .. Len(smRead[e]) : smRead'[e][i] = smRead[e][i]
            /\ smRead'[e][Len(smRead[e]) + 1] = Head(smPsock[e])
        BY <2>2, <2>3
      <4>4. /\ Len(smPsock'[e]) = Len(smPsock[e]) - 1
            /\ \A i \in 1 .. Len(smPsock'[e]) : smPsock'[e][i] = smPsock[e][i + 1]
        BY <2>2, <2>3
      <4>5. Len(smRead[e]) \in Nat /\ Len(smPsock[e]) \in Nat
        BY <2>2
      <4>6. \A i \in 1 .. Len(smPsock'[e]) : smPsock'[e][i].nr = Len(smRead'[e]) + i
        BY <4>1, <4>3, <4>4, <4>5
      <4>7. \A i \in 1 .. Len(smRead'[e]) : smRead'[e][i].nr = i
        <5> SUFFICES ASSUME NEW i \in 1 .. Len(smRead'[e]) PROVE smRead'[e][i].nr = i
          OBVIOUS
        <5>1. CASE i = Len(smRead[e]) + 1
          BY <4>2, <4>3, <5>1
        <5>2. CASE i \in 1 .. Len(smRead[e])
          BY <4>1, <4>3, <5>2
        <5> QED
          BY <4>3, <4>5, <5>1, <5>2
      <4>8. Len(smRead'[e]) + Len(smPsock'[e]) = smSent[Peer(e)]
        <5>1. Len(smPsock'[e]) = Len(smPsock[e]) - 1
          BY <4>4
        <5>2. Len(smRead'[e]) = Len(smRead[e]) + 1
          BY <4>3
        <5>3. smSent[Peer(e)] \in Nat
          BY <1>a, PeersAndKeys DEF SmTypeOK
        <5> DEFINE read == Len(smRead[e])
                   waits == Len(smPsock[e])
                   sent == smSent[Peer(e)]
        <5>4. read \in Nat /\ waits \in Nat /\ sent \in Nat /\ read + waits = sent
          BY <4>1, <4>5, <5>3
        <5> HIDE DEF read, waits, sent
        <5>5. (read + 1) + (waits - 1) = sent
          BY <5>4
        <5> QED
          BY <5>1, <5>2, <5>5 DEF read, waits, sent
      <4> QED
        BY <4>6, <4>7, <4>8
    <3> QED
      BY <2>1, <2>7, <3>1 DEF SmInOrder, Distinct, Peer
  <2> QED
    BY <2>4, <2>5, <2>6, <2>8, <2>9 DEF SmInv
<1>5. ASSUME NEW e \in Ends, SmReadWire(e) PROVE SmInv'
  <2>1. /\ smEnd[e].st = "open" /\ smPsock[e] = << >> /\ smWire[e] # << >>
        /\ smRead' = [smRead EXCEPT ![e] = Append(smRead[e], Head(smWire[e]))]
        /\ smWire' = [smWire EXCEPT ![e] = Tail(smWire[e])]
        /\ UNCHANGED <<smTuple, smEnd, smMap, smLoaded, smSent, smPsock>>
    BY <1>5 DEF SmReadWire
  <2>2. /\ smWire[e] \in Seq(SmMessages) /\ smRead[e] \in Seq(SmMessages)
        /\ Head(smWire[e]) \in SmMessages /\ Tail(smWire[e]) \in Seq(SmMessages)
        /\ Len(smWire[e]) > 0 /\ Head(smWire[e]) = smWire[e][1]
    BY <1>a, <2>1 DEF SmTypeOK
  <2>3. /\ smRead'[e] = Append(smRead[e], Head(smWire[e]))
        /\ smWire'[e] = Tail(smWire[e])
        /\ \A x \in Ends : x # e => smRead'[x] = smRead[x] /\ smWire'[x] = smWire[x]
    BY <1>a, <2>1 DEF SmTypeOK
  <2>4. SmTypeOK'
    BY <1>a, <2>1, <2>2 DEF SmTypeOK
  <2>5. SmMapRight' /\ \A x \in Ends : smEnd'[x].st = "none" => ~smEnd'[x].early
    BY <1>a, <2>1 DEF SmMapRight, Key
  <2>6. ASSUME NEW x \in Ends, x # e PROVE SmFromPeer(x)' /\ SmInOrder(x)'
    BY <1>a, <2>1, <2>3, <2>6, MessagesKept
  <2>7. SmFromPeer(e) /\ SmInOrder(e)
    BY <1>a
  <2>8. SmFromPeer(e)'
    <3>1. \A i \in DOMAIN smWire'[e] : smWire'[e][i].of = Peer(e)
      BY <2>2, <2>3, <2>7 DEF SmFromPeer
    <3>2. ASSUME Distinct(e[1])
          PROVE  \A i \in DOMAIN smRead'[e] : smRead'[e][i].of = Peer(e)
      BY <2>2, <2>3, <2>7, <3>2 DEF SmFromPeer
    <3> QED
      BY <2>1, <2>7, <3>1, <3>2 DEF SmFromPeer, Distinct, Peer
  <2>9. SmInOrder(e)'
    BY <2>1, <2>7 DEF SmInOrder, Distinct, Peer
  <2> QED
    BY <2>4, <2>5, <2>6, <2>8, <2>9 DEF SmInv
<1>6. ASSUME NEW e \in Ends, SmClose(e) PROVE SmInv'
  <2> DEFINE v == [smEnd[e] EXCEPT !.st = "closed", !.verdict = FALSE]
  <2>1. /\ smEnd[e].st = "open" /\ smEnd' = [smEnd EXCEPT ![e] = v]
        /\ smMap' = [k \in SockKeys |-> IF smMap[k] = e THEN None ELSE smMap[k]]
        /\ smPsock' = [smPsock EXCEPT ![e] = << >>]
        /\ UNCHANGED <<smTuple, smLoaded, smSent, smWire, smRead>>
    BY <1>6 DEF SmClose
  <2>2. v \in SmEndType /\ v.st = "closed" /\ v.early = smEnd[e].early
    BY <1>a DEF SmTypeOK, SmEndType
  <2> HIDE DEF v
  <2>3. /\ smEnd' \in [Ends -> SmEndType] /\ smEnd'[e] = v
        /\ \A x \in Ends : x # e => smEnd'[x] = smEnd[x]
        /\ smPsock'[e] = << >>
        /\ \A x \in Ends : x # e => smPsock'[x] = smPsock[x]
    BY <1>a, <2>1, <2>2 DEF SmTypeOK
  <2>4. SmTypeOK'
    BY <1>a, <2>1, <2>3 DEF SmTypeOK
  <2>5. SmMapRight'
    <3> SUFFICES ASSUME NEW q \in SockKeys, smMap'[q] # None
                 PROVE  /\ <<smTuple'[smMap'[q][1]], smMap'[q][2]>> = q
                        /\ smEnd'[smMap'[q]].st = "open"
      BY DEF SmMapRight, Key
    <3>1. smMap'[q] = smMap[q] /\ smMap[q] # e /\ smMap[q] \in Ends
      BY <1>a, <2>1 DEF SmTypeOK
    <3> QED
      BY <1>a, <2>1, <2>3, <3>1 DEF SmMapRight, Key
  <2>6. \A x \in Ends : smEnd'[x].st = "none" => ~smEnd'[x].early
    BY <1>a, <2>2, <2>3
  <2>7. \A x \in Ends : smEnd[x].early => smEnd'[x].early
    BY <2>2, <2>3
  <2>8. ASSUME NEW x \in Ends, x # e PROVE SmFromPeer(x)' /\ SmInOrder(x)'
    <3>1. Peer(x) \in Ends
      BY <1>a, PeersAndKeys
    <3> QED
      BY <1>a, <2>1, <2>3, <2>7, <2>8, <3>1, MessagesKept
  <2>9. SmFromPeer(e)' /\ SmInOrder(e)'
    <3>1. SmFromPeer(e) /\ SmInOrder(e) /\ Peer(e) \in Ends
      BY <1>a, PeersAndKeys
    <3>2. /\ smWire'[e] = smWire[e] /\ smRead'[e] = smRead[e] /\ smTuple' = smTuple
          /\ smPsock'[e] = << >> /\ smEnd'[e].st = "closed"
          /\ smEnd[Peer(e)].early => smEnd'[Peer(e)].early
      BY <2>1, <2>2, <2>3, <2>7, <3>1
    <3>3. SmFromPeer(e)'
      BY <3>1, <3>2 DEF SmFromPeer, Distinct, Peer
    <3>4. ASSUME Distinct(e[1]), ~smEnd[Peer(e)].early
          PROVE  /\ smWire[e] = << >>
                 /\ \A i \in 1 .. Len(smRead[e]) : smRead[e][i].nr = i
      BY <3>1, <3>4 DEF SmInOrder
    <3>5. SmInOrder(e)'
      BY <3>2, <3>4 DEF SmInOrder, Distinct, Peer
    <3> QED
      BY <3>3, <3>5
  <2> QED
    BY <2>4, <2>5, <2>6, <2>8, <2>9 DEF SmInv
<1>7. CASE UNCHANGED smVars
  BY <1>7 DEF smVars, SmInv, SmTypeOK, SmMapRight, SmFromPeer, SmInOrder, Distinct, Key
<1> QED
  BY <1>1, <1>2, <1>3, <1>4, <1>5, <1>6, <1>7 DEF SockMapNext

LEMMA SmInvHolds == SockMapSpec => []SmInv
  BY SmInvInit, SmInvNext, PTL DEF SockMapSpec

(* A socket reads what its peer sent, once and in order, when no other     *)
(* connection has the same addresses and ports and nothing was sent before *)
(* the socket was in the map (bpf_sockmap, bpf_redir).                     *)
THEOREM AccelerationIsTransparent == SockMapSpec => []SmTransparent
<1>1. SmInv => SmTransparent
  BY DEF SmInv, SmTypeOK, SmFromPeer, SmInOrder, SmTransparent
<1> QED
  BY <1>1, SmInvHolds, PTL

(* A message is redirected to an open socket of the other side, never back *)
(* to its sender's (extract_key4_from_ops, extract_key4_from_msg).         *)
THEOREM RedirectionGoesAcross == SockMapSpec => []SmRedirectsAcross
<1>1. SmInv => SmRedirectsAcross
  <2> SUFFICES ASSUME SmInv, NEW e \in Ends, bpf_redir(e) # None
               PROVE  /\ smEnd[bpf_redir(e)].st = "open"
                      /\ Key(bpf_redir(e)) = Key(Peer(e))
    BY DEF SmRedirectsAcross
  <2>1. bpf_redir(e) = smMap[Key(Peer(e))] /\ Key(Peer(e)) \in SockKeys
    BY PeersAndKeys DEF bpf_redir, extract_key4_from_msg, SmInv
  <2> QED
    BY <2>1 DEF SmInv, SmMapRight
<1> QED
  BY <1>1, SmInvHolds, PTL

----------------------------------------------------------------------------
(* PacketTimes: an entry shared by packets under one key mixes their       *)
(* times, but never with an older one than is reported.                    *)
USE PacketAssumption

PtPacketType  == [kind : Kinds, key : Keys \cup {"none"}, passed : Nat,
                  pc : {"off", "found", "read", "sending", "gone"},
                  at : Elements \cup {"none"}, now : Nat, stale : BOOLEAN,
                  own : [Layers -> Nat], raced : SUBSET Layers, alone : BOOLEAN]
PtElementType == [key : Keys \cup {"none"}, time : [Layers -> Nat], sk : BOOLEAN,
                  foreign : BOOLEAN]

(* Type invariant of the layer times.                                      *)
PtTypeOK ==
    /\ ptPacket \in [Packets -> PtPacketType]
    /\ ptElement \in [Elements -> PtElementType]
    /\ ptClock \in Nat

(* A packet between two probes, or in one with an element, which is in the *)
(* map for its key unless it was taken away.                               *)
PtPacketOK(p) ==
    /\ ~Alive(p) => ptPacket[p].pc \in {"off", "gone"}
    /\ Alive(p) => ptPacket[p].passed < Len(Fields[ptPacket[p].kind]) /\ ptPacket[p].pc # "gone"
    /\ ptPacket[p].pc \in {"off", "gone"} => ptPacket[p].at = "none" /\ ~ptPacket[p].stale
    /\ ptPacket[p].pc \in {"found", "read", "sending"} =>
          /\ ptPacket[p].at \in Elements
          /\ ~ptPacket[p].stale => ptElement[ptPacket[p].at].key = ptPacket[p].key
    /\ ptPacket[p].pc = "found" => Field(p) # "end"
    /\ ptPacket[p].pc = "read" => Field(p) \in Layers /\ ptPacket[p].now # 0
    /\ ptPacket[p].now =< ptClock
    /\ ptPacket[p].pc = "sending" => IsLast(p)
    /\ \A l \in Layers : ptPacket[p].own[l] =< ptClock
    /\ ptPacket[p].passed = 0 /\ ptPacket[p].pc # "sending" =>
          \A l \in Layers : ptPacket[p].own[l] = 0

(* A key has one entry at most.                                            *)
PtOneEntry ==
    \A e, f \in Elements : ptElement[e].key = ptElement[f].key /\ e # f => ptElement[e].key = "none"

(* The entry of a packet holds no time that is older than the packet's     *)
(* own, and no probe is about to write one.                                *)
PtOrder(p) ==
    Alive(p) =>
       \A e \in Elements : ptElement[e].key = ptPacket[p].key /\ ~ptElement[e].foreign =>
          \A l \in Layers \ ptPacket[p].raced : ptPacket[p].own[l] # 0 =>
             /\ ptElement[e].time[l] = 0 \/ ptElement[e].time[l] >= ptPacket[p].own[l]
             /\ \A q \in Packets :
                   ptPacket[q].pc = "read" /\ ~ptPacket[q].stale /\ ptPacket[q].at = e /\ Field(q) = l
                   => ptPacket[q].now >= ptPacket[p].own[l]

(* The fields the first n probes of a kind write.                          *)
PassedFields(kind, n) == {Fields[kind][i] : i \in 1 .. n}
Written(p) == IF ptPacket[p].pc = "sending" THEN ptPacket[p].passed + 1 ELSE ptPacket[p].passed

(* A packet that is alone with its key has written the fields of the       *)
(* probes it passed, and its entry holds what it wrote.                    *)
PtAlone(p) ==
    Alive(p) /\ ptPacket[p].alone =>
       /\ ptPacket[p].kind # "retrans"
       /\ \A q \in Packets : q # p /\ Alive(q) => ptPacket[q].key # ptPacket[p].key
       /\ \A l \in PassedFields(ptPacket[p].kind, Written(p)) \cap Layers : ptPacket[p].own[l] # 0
       /\ \A e \in Elements : ptElement[e].key = ptPacket[p].key /\ ~ptElement[e].foreign =>
             \A l \in Layers \ ptPacket[p].raced :
                ptPacket[p].own[l] # 0 => ptElement[e].time[l] = ptPacket[p].own[l]

PtInv ==
    /\ PtTypeOK
    /\ PtOneEntry
    /\ \A p \in Packets : PtPacketOK(p) /\ PtOrder(p) /\ PtAlone(p)

(* A probe writes one more field, and after the last one those that the    *)
(* message is computed from are written.                                   *)
LEMMA FieldsPassed ==
  ASSUME NEW kind \in Kinds, NEW n \in Nat, n < Len(Fields[kind])
  PROVE  /\ PassedFields(kind, n + 1) = PassedFields(kind, n) \cup {Fields[kind][n + 1]}
         /\ n + 1 = Len(Fields[kind]) /\ kind # "retrans" =>
               PassedFields(kind, n + 1) \cap Layers = Reported[kind]
         /\ Len(Fields[kind]) \in Nat \ {0}
         /\ Reported[kind] \subseteq Layers
<1>1. Len(Fields[kind]) \in 1 .. 5 /\ Reported[kind] \subseteq Layers
  BY DEF Kinds, Fields, Reported, Layers
<1>2. PassedFields(kind, n + 1) = PassedFields(kind, n) \cup {Fields[kind][n + 1]}
  <2>1. 1 .. n + 1 = (1 .. n) \cup {n + 1}
    OBVIOUS
  <2> QED
    BY <2>1 DEF PassedFields
<1>3. ASSUME n + 1 = Len(Fields[kind]), kind # "retrans"
      PROVE  PassedFields(kind, n + 1) \cap Layers = Reported[kind]
  <2>1. CASE kind = "tcpRx"
    BY <1>3, <2>1 DEF PassedFields, Fields, Reported, Layers
  <2>2. CASE kind = "tcpTx"
    BY <1>3, <2>2 DEF PassedFields, Fields, Reported, Layers
  <2>3. CASE kind = "udp"
    BY <1>3, <2>3 DEF PassedFields, Fields, Reported, Layers
  <2> QED
    BY <1>3, <2>1, <2>2, <2>3 DEF Kinds, Fields
<1> QED
  BY <1>1, <1>2, <1>3

LEMMA NoneFields ==
  /\ NoPacket \in PtPacketType /\ NoPacket.key = "none" /\ NoPacket.pc = "off"
  /\ NoPacket.at = "none" /\ ~NoPacket.stale /\ (\A l \in Layers : NoPacket.own[l] = 0)
  /\ NoPacket.passed = 0 /\ NoPacket.now = 0
  /\ Gone \in PtPacketType /\ Gone.key = "none" /\ Gone.pc = "gone"
  /\ Gone.at = "none" /\ ~Gone.stale /\ (\A l \in Layers : Gone.own[l] = 0)
  /\ Gone.now = 0
<1>1. "udp" \in Kinds
  BY DEF Kinds, Fields
<1>2. /\ NoPacket \in PtPacketType /\ NoPacket.key = "none" /\ NoPacket.pc = "off"
      /\ NoPacket.at = "none" /\ ~NoPacket.stale /\ NoPacket.own = NoTimes
      /\ NoPacket.passed = 0 /\ NoPacket.now = 0
  BY <1>1 DEF NoPacket, PtPacketType, NoTimes
<1>3. /\ Gone \in PtPacketType /\ Gone.key = "none" /\ Gone.pc = "gone"
      /\ Gone.at = "none" /\ ~Gone.stale /\ Gone.own = NoTimes
      /\ Gone.now = 0
  <2>1. Gone = [NoPacket EXCEPT !.pc = "gone"]
    BY DEF Gone
  <2> QED
    BY <1>2, <2>1 DEF PtPacketType
<1> QED
  BY <1>2, <1>3 DEF NoTimes

LEMMA EmptyFields ==
  /\ Empty \in PtElementType /\ Empty.key = "none" /\ ~Empty.foreign
  /\ \A l \in Layers : Empty.time[l] = 0
  BY DEF Empty, PtElementType, NoTimes

LEMMA PtInvInit == PacketInit => PtInv
<1> SUFFICES ASSUME PacketInit PROVE PtInv
  OBVIOUS
<1>1. /\ \A p \in Packets : ptPacket[p] = NoPacket
      /\ \A e \in Elements : ptElement[e] = Empty
      /\ ptClock = 0
  BY DEF PacketInit
<1>2. PtTypeOK
  BY NoneFields, EmptyFields DEF PacketInit, PtTypeOK
<1>3. PtOneEntry
  BY <1>1, EmptyFields DEF PtOneEntry
<1>4. ASSUME NEW p \in Packets PROVE PtPacketOK(p) /\ PtOrder(p) /\ PtAlone(p)
  BY <1>1, NoneFields DEF PtPacketOK, PtOrder, PtAlone, Alive
<1> QED
  BY <1>2, <1>3, <1>4 DEF PtInv

(* The steps of a packet, as records.                                      *)
LEMMA FindRecord ==
  ASSUME NEW r \in PtPacketType, NEW x \in {"found", "sending"}, NEW e \in Elements
  PROVE  LET v == [r EXCEPT !.pc = x, !.at = e]
         IN  /\ v \in PtPacketType /\ v.pc = x /\ v.at = e
             /\ v.kind = r.kind /\ v.key = r.key /\ v.passed = r.passed /\ v.now = r.now
             /\ v.stale = r.stale /\ v.own = r.own /\ v.raced = r.raced /\ v.alone = r.alone
  BY DEF PtPacketType

LEMMA ClockRecord ==
  ASSUME NEW r \in PtPacketType, NEW n \in Nat
  PROVE  LET v == [r EXCEPT !.pc = "read", !.now = n]
         IN  /\ v \in PtPacketType /\ v.pc = "read" /\ v.now = n
             /\ v.kind = r.kind /\ v.key = r.key /\ v.passed = r.passed /\ v.at = r.at
             /\ v.stale = r.stale /\ v.own = r.own /\ v.raced = r.raced /\ v.alone = r.alone
  BY DEF PtPacketType

LEMMA SendingRecord ==
  ASSUME NEW r \in PtPacketType
  PROVE  LET v == [r EXCEPT !.pc = "sending"]
         IN  /\ v \in PtPacketType /\ v.pc = "sending" /\ v.now = r.now
             /\ v.kind = r.kind /\ v.key = r.key /\ v.passed = r.passed /\ v.at = r.at
             /\ v.stale = r.stale /\ v.own = r.own /\ v.raced = r.raced /\ v.alone = r.alone
  BY DEF PtPacketType

LEMMA StampRecord ==
  ASSUME NEW r \in PtPacketType, NEW own \in [Layers -> Nat], NEW raced \in SUBSET Layers
  PROVE  LET v == [r EXCEPT !.own = own, !.raced = raced]
         IN  /\ v \in PtPacketType /\ v.pc = r.pc /\ v.now = r.now
             /\ v.kind = r.kind /\ v.key = r.key /\ v.passed = r.passed /\ v.at = r.at
             /\ v.stale = r.stale /\ v.own = own /\ v.raced = raced /\ v.alone = r.alone
  BY DEF PtPacketType

LEMMA LeftRecord ==
  ASSUME NEW r \in PtPacketType
  PROVE  /\ Left(r) \in PtPacketType /\ Left(r).pc = "off" /\ Left(r).now = 0
         /\ Left(r).kind = r.kind /\ Left(r).key = r.key /\ Left(r).passed = r.passed + 1
         /\ Left(r).at = "none" /\ ~Left(r).stale
         /\ Left(r).own = r.own /\ Left(r).raced = r.raced /\ Left(r).alone = r.alone
<1> DEFINE n == r.passed + 1
<1>1. n \in Nat
  BY DEF PtPacketType
<1>2. Left(r) = [r EXCEPT !.passed = n, !.pc = "off", !.at = "none", !.now = 0, !.stale = FALSE]
  BY DEF Left, PtPacketType
<1> HIDE DEF n
<1>3. LET v == [r EXCEPT !.passed = n, !.pc = "off", !.at = "none", !.now = 0, !.stale = FALSE]
      IN  /\ v \in PtPacketType /\ v.pc = "off" /\ v.now = 0
          /\ v.kind = r.kind /\ v.key = r.key /\ v.passed = n
          /\ v.at = "none" /\ ~v.stale
          /\ v.own = r.own /\ v.raced = r.raced /\ v.alone = r.alone
  BY <1>1 DEF PtPacketType
<1>4. n = r.passed + 1
  BY DEF n
<1> QED
  BY <1>2, <1>3, <1>4

LEMMA AloneRecord ==
  ASSUME NEW r \in PtPacketType, NEW b \in BOOLEAN
  PROVE  LET v == [r EXCEPT !.alone = b]
         IN  /\ v \in PtPacketType /\ v.pc = r.pc /\ v.now = r.now
             /\ v.kind = r.kind /\ v.key = r.key /\ v.passed = r.passed /\ v.at = r.at
             /\ v.stale = r.stale /\ v.own = r.own /\ v.raced = r.raced /\ v.alone = b
  BY DEF PtPacketType

LEMMA StaleRecord ==
  ASSUME NEW r \in PtPacketType, NEW b \in BOOLEAN
  PROVE  LET v == [r EXCEPT !.stale = b]
         IN  /\ v \in PtPacketType /\ v.pc = r.pc /\ v.now = r.now
             /\ v.kind = r.kind /\ v.key = r.key /\ v.passed = r.passed /\ v.at = r.at
             /\ v.stale = b /\ v.own = r.own /\ v.raced = r.raced /\ v.alone = r.alone
  BY DEF PtPacketType

(* A packet of which a step changes nothing that counts.                   *)
SameButAlone(v, r) ==
    /\ v.kind = r.kind /\ v.key = r.key /\ v.passed = r.passed /\ v.pc = r.pc /\ v.at = r.at
    /\ v.now = r.now /\ v.stale = r.stale /\ v.own = r.own /\ v.raced = r.raced
    /\ v.alone => r.alone

LEMMA PacketKept ==
  ASSUME PtInv, NEW q \in Packets, SameButAlone(ptPacket'[q], ptPacket[q]),
         ptClock' \in Nat, ptClock' >= ptClock,
         ptPacket[q].pc \in {"found", "read", "sending"} /\ ~ptPacket[q].stale =>
            ptElement'[ptPacket[q].at].key = ptElement[ptPacket[q].at].key
  PROVE  PtPacketOK(q)'
<1>1. /\ PtPacketOK(q) /\ ptClock \in Nat
      /\ \A l \in Layers : ptPacket[q].own[l] \in Nat
      /\ ptPacket[q].now \in Nat
  BY DEF PtInv, PtTypeOK, PtPacketType
<1>2. Field(q)' = Field(q) /\ (IsLast(q)' <=> IsLast(q)) /\ (Alive(q)' <=> Alive(q))
  BY DEF Field, IsLast, Alive, SameButAlone
<1> QED
  BY <1>1, <1>2 DEF PtPacketOK, SameButAlone

(* The entries stay as they are, and no probe reads a time that is not the *)
(* latest.                                                                 *)
LEMMA OrderKept ==
  ASSUME PtInv, NEW q \in Packets, ptElement' = ptElement,
         ptPacket' \in [Packets -> PtPacketType],
         Alive(q)' => /\ ptPacket'[q].key = ptPacket[q].key /\ ptPacket'[q].own = ptPacket[q].own
                      /\ ptPacket'[q].raced = ptPacket[q].raced,
         \A x \in Packets : ptPacket'[x].pc = "read" /\ ~ptPacket'[x].stale =>
            \/ ptPacket'[x].now > ptClock
            \/ SameButAlone(ptPacket'[x], ptPacket[x])
  PROVE  PtOrder(q)'
<1> SUFFICES ASSUME Alive(q)', NEW e \in Elements,
                    ptElement[e].key = ptPacket[q].key, ~ptElement[e].foreign,
                    NEW l \in Layers, l \notin ptPacket[q].raced, ptPacket[q].own[l] # 0
             PROVE  /\ ptElement[e].time[l] = 0 \/ ptElement[e].time[l] >= ptPacket[q].own[l]
                    /\ \A x \in Packets :
                          /\ ptPacket'[x].pc = "read" /\ ~ptPacket'[x].stale
                          /\ ptPacket'[x].at = e /\ Field(x)' = l
                          => ptPacket'[x].now >= ptPacket[q].own[l]
  BY DEF PtOrder
<1>1. /\ Alive(q) /\ PtOrder(q) /\ PtPacketOK(q) /\ ptClock \in Nat
      /\ ptPacket[q].own[l] \in Nat /\ ptPacket[q].own[l] =< ptClock
  BY DEF PtInv, PtTypeOK, PtPacketType, PtPacketOK, Alive
<1>2. /\ ptElement[e].time[l] = 0 \/ ptElement[e].time[l] >= ptPacket[q].own[l]
      /\ \A x \in Packets :
            ptPacket[x].pc = "read" /\ ~ptPacket[x].stale /\ ptPacket[x].at = e /\ Field(x) = l
            => ptPacket[x].now >= ptPacket[q].own[l]
  BY <1>1 DEF PtOrder
<1>3. ASSUME NEW x \in Packets, ptPacket'[x].pc = "read", ~ptPacket'[x].stale,
             ptPacket'[x].at = e, Field(x)' = l
      PROVE  ptPacket'[x].now >= ptPacket[q].own[l]
  <2>1. CASE ptPacket'[x].now > ptClock
    <3>1. ptPacket'[x].now \in Nat
      BY DEF PtPacketType
    <3> QED
      BY <1>1, <2>1, <3>1
  <2>2. CASE SameButAlone(ptPacket'[x], ptPacket[x])
    <3>1. Field(x)' = Field(x)
      BY <2>2 DEF Field, SameButAlone
    <3> QED
      BY <1>2, <1>3, <2>2, <3>1 DEF SameButAlone
  <2> QED
    BY <1>3, <2>1, <2>2
<1> QED
  BY <1>2, <1>3

LEMMA AloneKept ==
  ASSUME PtInv, NEW q \in Packets, ptElement' = ptElement,
         Alive(q)' /\ ptPacket'[q].alone =>
            /\ ptPacket[q].alone /\ ptPacket'[q].key = ptPacket[q].key
            /\ ptPacket'[q].kind = ptPacket[q].kind
            /\ ptPacket'[q].own = ptPacket[q].own /\ ptPacket'[q].raced = ptPacket[q].raced
            /\ PassedFields(ptPacket[q].kind, Written(q)') \cap Layers \subseteq
                  PassedFields(ptPacket[q].kind, Written(q))
            /\ \A o \in Packets : o # q /\ Alive(o)' => ptPacket'[o].key # ptPacket[q].key
  PROVE  PtAlone(q)'
<1> SUFFICES ASSUME Alive(q)', ptPacket'[q].alone PROVE PtAlone(q)'
  BY DEF PtAlone
<1>1. Alive(q) /\ PtAlone(q)
  BY DEF PtInv, Alive
<1> QED
  BY <1>1 DEF PtAlone

(* A step of one packet that leaves the entries.                           *)
LEMMA PacketGoesOn ==
  ASSUME PtInv, NEW p \in Packets, NEW v, v \in PtPacketType,
         ptPacket' = [ptPacket EXCEPT ![p] = v], ptElement' = ptElement,
         ptClock' \in Nat, ptClock' >= ptClock,
         v.key # "none" => /\ v.key = ptPacket[p].key /\ v.kind = ptPacket[p].kind
                           /\ v.own = ptPacket[p].own /\ v.raced = ptPacket[p].raced,
         v.pc = "read" => v.now > ptClock,
         v.key # "none" /\ v.alone =>
            /\ ptPacket[p].alone
            /\ PassedFields(ptPacket[p].kind, Written(p)') \cap Layers \subseteq
                  PassedFields(ptPacket[p].kind, Written(p)),
         PtPacketOK(p)'
  PROVE  PtInv'
<1>1. /\ ptPacket' \in [Packets -> PtPacketType] /\ ptPacket'[p] = v
      /\ \A o \in Packets : o # p => ptPacket'[o] = ptPacket[o]
  BY DEF PtInv, PtTypeOK
<1>2. PtTypeOK' /\ PtOneEntry'
  BY <1>1 DEF PtInv, PtTypeOK, PtOneEntry
<1>3. \A o \in Packets : o # p => SameButAlone(ptPacket'[o], ptPacket[o])
  BY <1>1 DEF SameButAlone
<1>4. ASSUME NEW q \in Packets PROVE PtPacketOK(q)'
  BY <1>3, PacketKept
<1>5. ASSUME NEW q \in Packets PROVE PtOrder(q)'
  <2>1. Alive(q)' => /\ ptPacket'[q].key = ptPacket[q].key /\ ptPacket'[q].own = ptPacket[q].own
                     /\ ptPacket'[q].raced = ptPacket[q].raced
    BY <1>1 DEF Alive
  <2>2. \A x \in Packets : ptPacket'[x].pc = "read" /\ ~ptPacket'[x].stale =>
            \/ ptPacket'[x].now > ptClock
            \/ SameButAlone(ptPacket'[x], ptPacket[x])
    BY <1>1, <1>3
  <2> QED
    BY <1>1, <2>1, <2>2, OrderKept
<1>6. ASSUME NEW q \in Packets PROVE PtAlone(q)'
  <2> SUFFICES ASSUME Alive(q)', ptPacket'[q].alone PROVE PtAlone(q)'
    BY DEF PtAlone
  <2>1. /\ Alive(q) /\ ptPacket[q].alone /\ ptPacket'[q].key = ptPacket[q].key
        /\ ptPacket'[q].kind = ptPacket[q].kind
        /\ ptPacket'[q].own = ptPacket[q].own /\ ptPacket'[q].raced = ptPacket[q].raced
    BY <1>1 DEF Alive
  <2>2. PassedFields(ptPacket[q].kind, Written(q)') \cap Layers \subseteq
           PassedFields(ptPacket[q].kind, Written(q))
    <3>1. CASE q = p
      BY <1>1, <3>1 DEF Alive
    <3>2. CASE q # p
      <4>1. Written(q)' = Written(q)
        BY <1>1, <3>2 DEF Written
      <4> QED
        BY <4>1
    <3> QED
      BY <3>1, <3>2
  <2>3. \A o \in Packets : o # q /\ Alive(o)' => ptPacket'[o].key # ptPacket[q].key
    <3>1. PtAlone(q)
      BY DEF PtInv
    <3>2. \A o \in Packets : Alive(o)' => Alive(o) /\ ptPacket'[o].key = ptPacket[o].key
      BY <1>1 DEF Alive
    <3> QED
      BY <2>1, <3>1, <3>2 DEF PtAlone
  <2> QED
    BY <2>1, <2>2, <2>3, AloneKept
<1> QED
  BY <1>2, <1>4, <1>5, <1>6 DEF PtInv

LEMMA KindNames == Kinds = {"tcpRx", "tcpTx", "retrans", "udp"}
  BY DEF Kinds, Fields

LEMMA KindLengths == \A kind \in Kinds : Len(Fields[kind]) \in 1 .. 5
  BY KindNames DEF Fields

LEMMA FieldKinds ==
  ASSUME NEW kind \in Kinds, NEW n \in Nat, n < Len(Fields[kind])
  PROVE  /\ Fields[kind][n + 1] \in Layers \cup {"sk", "end"}
         /\ "sk" \notin Layers /\ "end" \notin Layers
         /\ Fields[kind][n + 1] = "end" => n + 1 = Len(Fields[kind]) /\ n # 0
<1>1. CASE kind = "tcpRx"
  BY <1>1 DEF Fields, Layers
<1>2. CASE kind = "tcpTx"
  BY <1>2 DEF Fields, Layers
<1>3. CASE kind = "retrans"
  BY <1>3 DEF Fields, Layers
<1>4. CASE kind = "udp"
  BY <1>4 DEF Fields, Layers
<1> QED
  BY <1>1, <1>2, <1>3, <1>4, KindNames

(* What holds of a packet on its way.                                      *)
LEMMA OnItsWay ==
  ASSUME PtInv, NEW p \in Packets, Alive(p)
  PROVE  /\ ptPacket[p] \in PtPacketType /\ ptPacket[p].kind \in Kinds /\ ptPacket[p].passed \in Nat
         /\ ptPacket[p].passed < Len(Fields[ptPacket[p].kind])
         /\ ptPacket[p].key \in Keys
         /\ Field(p) \in Layers \cup {"sk", "end"} /\ "sk" \notin Layers /\ "end" \notin Layers
         /\ Field(p) = "end" => IsLast(p) /\ ptPacket[p].passed # 0
         /\ PassedFields(ptPacket[p].kind, ptPacket[p].passed + 1) =
               PassedFields(ptPacket[p].kind, ptPacket[p].passed) \cup {Field(p)}
<1>1. /\ ptPacket[p] \in PtPacketType /\ ptPacket[p].kind \in Kinds /\ ptPacket[p].passed \in Nat
      /\ ptPacket[p].passed < Len(Fields[ptPacket[p].kind])
      /\ ptPacket[p].key \in Keys
  BY DEF PtInv, PtTypeOK, PtPacketType, PtPacketOK, Alive
<1> QED
  BY <1>1, FieldKinds, FieldsPassed DEF Field, IsLast

(* A packet that ends changes nothing for the others.                      *)
LEMMA PacketEnds ==
  ASSUME PtInv, NEW p \in Packets, ptPacket' = [ptPacket EXCEPT ![p] = Gone],
         ptElement' = ptElement, ptClock' = ptClock
  PROVE  PtInv'
<1>1. ptPacket'[p] = Gone /\ ptClock \in Nat
  BY DEF PtInv, PtTypeOK
<1>2. PtPacketOK(p)'
  BY <1>1, NoneFields DEF PtPacketOK, Alive
<1>3. /\ ptClock' \in Nat /\ ptClock' >= ptClock
      /\ Gone \in PtPacketType /\ Gone.key = "none" /\ Gone.pc # "read"
  BY <1>1, NoneFields
<1> QED
  BY <1>2, <1>3, PacketGoesOn

LEMMA PtInvArrive ==
  ASSUME PtInv, NEW p \in Packets, PtArrive(p)
  PROVE  PtInv'
<1>1. PICK kind \in Kinds, key \in Keys :
        ptPacket' = [q \in Packets |->
           IF q = p THEN [NoPacket EXCEPT !.kind = kind, !.key = key,
                             !.alone = {x \in Packets : ptPacket[x].key = key} = {}
                                       /\ kind # "retrans"]
           ELSE [ptPacket[q] EXCEPT !.alone =
                    @ /\ q \notin {x \in Packets : ptPacket[x].key = key}]]
  BY DEF PtArrive
<1>2. ptPacket[p] = NoPacket /\ ptElement' = ptElement /\ ptClock' = ptClock
  BY DEF PtArrive
<1>3. /\ ptPacket'[p] \in PtPacketType /\ ptPacket'[p].kind = kind /\ ptPacket'[p].key = key
      /\ ptPacket'[p].pc = "off" /\ ptPacket'[p].at = "none" /\ ~ptPacket'[p].stale
      /\ ptPacket'[p].passed = 0 /\ ptPacket'[p].now = 0
      /\ (\A l \in Layers : ptPacket'[p].own[l] = 0)
      /\ ptPacket'[p].alone => /\ \A x \in Packets : ptPacket[x].key # key
                               /\ kind # "retrans"
  <2> DEFINE b == {x \in Packets : ptPacket[x].key = key} = {} /\ kind # "retrans"
  <2>1. b \in BOOLEAN /\ (b => (\A x \in Packets : ptPacket[x].key # key) /\ kind # "retrans")
    OBVIOUS
  <2>2. ptPacket'[p] = [NoPacket EXCEPT !.kind = kind, !.key = key, !.alone = b]
    BY <1>1
  <2> HIDE DEF b
  <2>3. NoPacket.now = 0
    BY DEF NoPacket
  <2>4. LET v == [NoPacket EXCEPT !.kind = kind, !.key = key, !.alone = b]
        IN  /\ v \in PtPacketType /\ v.kind = kind /\ v.key = key
            /\ v.pc = NoPacket.pc /\ v.at = NoPacket.at /\ v.stale = NoPacket.stale
            /\ v.passed = NoPacket.passed /\ v.now = NoPacket.now /\ v.own = NoPacket.own
            /\ v.alone = b
    BY <2>1, NoneFields DEF PtPacketType
  <2> QED
    BY <2>1, <2>2, <2>3, <2>4, NoneFields
<1>4. ASSUME NEW q \in Packets, q # p
      PROVE  /\ ptPacket'[q] \in PtPacketType /\ SameButAlone(ptPacket'[q], ptPacket[q])
             /\ ptPacket'[q].alone => ptPacket[q].key # key
  <2> DEFINE b == ptPacket[q].alone /\ q \notin {x \in Packets : ptPacket[x].key = key}
  <2>1. /\ b \in BOOLEAN /\ (b => ptPacket[q].alone /\ ptPacket[q].key # key)
        /\ ptPacket[q] \in PtPacketType
    BY DEF PtInv, PtTypeOK, PtPacketType
  <2>2. ptPacket'[q] = [ptPacket[q] EXCEPT !.alone = b]
    BY <1>1, <1>4
  <2> HIDE DEF b
  <2> QED
    BY <2>1, <2>2, AloneRecord DEF SameButAlone
<1>5. ptPacket' \in [Packets -> PtPacketType]
  <2>1. \A q \in Packets : ptPacket'[q] \in PtPacketType
    BY <1>3, <1>4
  <2>2. ptPacket' = [q \in Packets |-> ptPacket'[q]]
    BY <1>1
  <2> QED
    BY <2>1, <2>2
<1>6. PtTypeOK' /\ PtOneEntry' /\ ptClock \in Nat
  BY <1>2, <1>5 DEF PtInv, PtTypeOK, PtOneEntry
<1>7. PtPacketOK(p)' /\ PtOrder(p)'
  <2>1. 0 < Len(Fields[kind])
    BY KindLengths
  <2> QED
    BY <1>2, <1>3, <1>6, <2>1 DEF PtPacketOK, PtOrder, Alive
<1>8. PtAlone(p)'
  <2>1. Written(p)' = 0 /\ PassedFields(kind, 0) = {}
    BY <1>3 DEF Written, PassedFields
  <2>2. ptPacket'[p].alone =>
           \A q \in Packets : q # p /\ Alive(q)' => ptPacket'[q].key # ptPacket'[p].key
    BY <1>3, <1>4 DEF SameButAlone
  <2> QED
    BY <1>3, <2>1, <2>2 DEF PtAlone
<1>9. ASSUME NEW q \in Packets, q # p PROVE PtPacketOK(q)' /\ PtOrder(q)' /\ PtAlone(q)'
  <2>1. PtPacketOK(q)'
    BY <1>2, <1>4, <1>6, <1>9, PacketKept
  <2>2. PtOrder(q)'
    <3>1. /\ ptPacket'[q].key = ptPacket[q].key /\ ptPacket'[q].own = ptPacket[q].own
          /\ ptPacket'[q].raced = ptPacket[q].raced
      BY <1>4, <1>9 DEF SameButAlone
    <3>2. \A x \in Packets : ptPacket'[x].pc = "read" /\ ~ptPacket'[x].stale =>
            \/ ptPacket'[x].now > ptClock
            \/ SameButAlone(ptPacket'[x], ptPacket[x])
      BY <1>3, <1>4
    <3> QED
      BY <1>2, <1>5, <3>1, <3>2, OrderKept
  <2>3. PtAlone(q)'
    <3> SUFFICES ASSUME Alive(q)', ptPacket'[q].alone PROVE PtAlone(q)'
      BY DEF PtAlone
    <3>1. /\ ptPacket[q].alone /\ ptPacket'[q].key = ptPacket[q].key
          /\ ptPacket'[q].kind = ptPacket[q].kind
          /\ ptPacket'[q].own = ptPacket[q].own /\ ptPacket'[q].raced = ptPacket[q].raced
          /\ Written(q)' = Written(q) /\ Alive(q)
      BY <1>4, <1>9 DEF SameButAlone, Written, Alive
    <3>2. ASSUME NEW o \in Packets, o # q, Alive(o)' PROVE ptPacket'[o].key # ptPacket[q].key
      <4>1. CASE o = p
        BY <1>3, <1>4, <1>9, <4>1
      <4>2. CASE o # p
        <5>1. PtAlone(q)
          BY DEF PtInv
        <5>2. ptPacket'[o].key = ptPacket[o].key /\ Alive(o)
          BY <1>4, <3>2, <4>2 DEF SameButAlone, Alive
        <5> QED
          BY <3>1, <3>2, <5>1, <5>2 DEF PtAlone
      <4> QED
        BY <4>1, <4>2
    <3>3. PassedFields(ptPacket[q].kind, Written(q)') \cap Layers \subseteq
             PassedFields(ptPacket[q].kind, Written(q))
      BY <3>1
    <3> QED
      BY <1>2, <3>1, <3>2, <3>3, AloneKept
  <2> QED
    BY <2>1, <2>2, <2>3
<1> QED
  BY <1>6, <1>7, <1>8, <1>9 DEF PtInv

(* The probe looks up its entry, or makes it.                              *)
LEMMA PtInvFind ==
  ASSUME PtInv, NEW p \in Packets, PtFind(p)
  PROVE  PtInv'
<1> DEFINE r == ptPacket[p]
<1>1. /\ Alive(p) /\ r.pc = "off" /\ ptClock' = ptClock /\ r \in PtPacketType
      /\ PtPacketOK(p) /\ PtOrder(p) /\ PtAlone(p) /\ ptClock \in Nat /\ ~r.stale
  BY DEF PtFind, PtInv, PtTypeOK, PtPacketOK
<1>2. PICK e \in Elements :
        /\ \/ ptElement[e].key = r.key /\ ptElement' = ptElement
           \/ /\ Creates(r)
              /\ \A f \in Elements : ptElement[f].key # r.key
              /\ ptElement[e].key = "none"
              /\ ptElement' = [ptElement EXCEPT ![e] = [Empty EXCEPT !.key = r.key]]
        /\ ptPacket' = [ptPacket EXCEPT
               ![p].pc = IF Field(p) = "end" THEN "sending" ELSE "found",
               ![p].at = e]
  BY DEF PtFind
<1> DEFINE x == IF Field(p) = "end" THEN "sending" ELSE "found"
           v == [r EXCEPT !.pc = x, !.at = e]
<1>3. x \in {"found", "sending"} /\ (x = "sending" <=> Field(p) = "end")
  OBVIOUS
<1>4. ptPacket' = [ptPacket EXCEPT ![p] = v]
  BY <1>2
<1> HIDE DEF x
<1>5. /\ v \in PtPacketType /\ v.pc = x /\ v.at = e
      /\ v.kind = r.kind /\ v.key = r.key /\ v.passed = r.passed /\ v.now = r.now
      /\ v.stale = r.stale /\ v.own = r.own /\ v.raced = r.raced /\ v.alone = r.alone
  BY <1>1, <1>3 DEF PtPacketType
<1> HIDE DEF v
<1>6. ptPacket'[p] = v /\ \A o \in Packets : o # p => ptPacket'[o] = ptPacket[o]
  BY <1>4 DEF PtInv, PtTypeOK
<1>7. /\ r.key \in Keys /\ r.key # "none"
      /\ Field(p) \in Layers \cup {"sk", "end"} /\ "sk" \notin Layers /\ "end" \notin Layers
      /\ Field(p) = "end" => IsLast(p) /\ r.passed # 0
      /\ PassedFields(r.kind, r.passed + 1) = PassedFields(r.kind, r.passed) \cup {Field(p)}
  BY <1>1, OnItsWay DEF Alive
<1>8. Field(p)' = Field(p) /\ (IsLast(p)' <=> IsLast(p)) /\ Alive(p)'
  BY <1>1, <1>5, <1>6 DEF Field, IsLast, Alive
<1>9. PtPacketOK(p)'
  <2>1. ptElement'[e].key = r.key
    <3>1. CASE ptElement[e].key = r.key /\ ptElement' = ptElement
      BY <3>1
    <3>2. CASE ptElement' = [ptElement EXCEPT ![e] = [Empty EXCEPT !.key = r.key]]
      <4>1. [Empty EXCEPT !.key = r.key].key = r.key
        BY DEF Empty
      <4> QED
        BY <3>2, <4>1 DEF PtInv, PtTypeOK
    <3> QED
      BY <1>2, <3>1, <3>2
  <2> QED
    BY <1>1, <1>3, <1>5, <1>6, <1>7, <1>8, <2>1 DEF PtPacketOK
<1>10. CASE ptElement' = ptElement
  <2>1. PassedFields(r.kind, Written(p)') \cap Layers \subseteq PassedFields(r.kind, Written(p))
    <3>1. Written(p) = r.passed
      BY <1>1 DEF Written
    <3>2. CASE x = "found"
      <4>1. Written(p)' = r.passed
        BY <1>5, <1>6, <3>2 DEF Written
      <4> QED
        BY <3>1, <4>1
    <3>3. CASE x = "sending"
      <4>1. Written(p)' = r.passed + 1
        BY <1>5, <1>6, <3>3 DEF Written
      <4> QED
        BY <1>3, <1>7, <3>1, <3>3, <4>1
    <3> QED
      BY <1>3, <3>2, <3>3
  <2>2. v.pc # "read" /\ ptClock' \in Nat /\ ptClock' >= ptClock
    BY <1>1, <1>3, <1>5
  <2> QED
    BY <1>4, <1>5, <1>9, <1>10, <2>1, <2>2, PacketGoesOn
<1>11. CASE /\ Creates(r)
            /\ \A f \in Elements : ptElement[f].key # r.key
            /\ ptElement[e].key = "none"
            /\ ptElement' = [ptElement EXCEPT ![e] = [Empty EXCEPT !.key = r.key]]
  <2> DEFINE n == [Empty EXCEPT !.key = r.key]
  <2>1. /\ n \in PtElementType /\ n.key = r.key
        /\ \A l \in Layers : n.time[l] = 0
    <3>1. n \in PtElementType /\ n.key = r.key /\ n.time = Empty.time
      BY <1>7, EmptyFields DEF PtElementType
    <3> QED
      BY <3>1, EmptyFields
  <2>2. ptElement' = [ptElement EXCEPT ![e] = n]
    BY <1>11
  <2> HIDE DEF n
  <2>3. ptElement'[e] = n /\ \A f \in Elements : f # e => ptElement'[f] = ptElement[f]
    BY <2>2 DEF PtInv, PtTypeOK
  <2>4. PtTypeOK'
    BY <1>1, <1>4, <1>5, <2>1, <2>2 DEF PtInv, PtTypeOK
  <2>5. PtOneEntry'
    BY <1>11, <2>1, <2>3 DEF PtInv, PtOneEntry
  <2>6. \A q \in Packets : ~ptPacket[q].stale => ptPacket[q].at # e
    <3> SUFFICES ASSUME NEW q \in Packets, ~ptPacket[q].stale, ptPacket[q].at = e PROVE FALSE
      OBVIOUS
    <3>1. PtPacketOK(q) /\ ptPacket[q] \in PtPacketType
      BY DEF PtInv, PtTypeOK
    <3>2. ptPacket[q].pc \notin {"off", "gone"}
      BY <3>1, PacketAssumption DEF PtPacketOK
    <3>3. ptPacket[q].pc \in {"found", "read", "sending"} /\ Alive(q)
      BY <3>1, <3>2 DEF PtPacketOK, PtPacketType
    <3> QED
      BY <1>11, <3>1, <3>3 DEF PtPacketOK, Alive
  <2>7. ASSUME NEW q \in Packets, q # p PROVE PtPacketOK(q)'
    <3>1. SameButAlone(ptPacket'[q], ptPacket[q])
      BY <1>6, <2>7 DEF SameButAlone
    <3>2. ptPacket[q].pc \in {"found", "read", "sending"} /\ ~ptPacket[q].stale =>
            ptElement'[ptPacket[q].at].key = ptElement[ptPacket[q].at].key
      <4>1. PtPacketOK(q)
        BY DEF PtInv
      <4> QED
        BY <2>3, <2>6, <4>1 DEF PtPacketOK
    <3> QED
      BY <1>1, <3>1, <3>2, PacketKept
  <2>8. ASSUME NEW q \in Packets PROVE PtOrder(q)'
    <3> SUFFICES ASSUME Alive(q)', NEW f \in Elements,
                        ptElement'[f].key = ptPacket'[q].key, ~ptElement'[f].foreign,
                        NEW l \in Layers, l \notin ptPacket'[q].raced, ptPacket'[q].own[l] # 0
                 PROVE  /\ ptElement'[f].time[l] = 0 \/ ptElement'[f].time[l] >= ptPacket'[q].own[l]
                        /\ \A y \in Packets :
                              /\ ptPacket'[y].pc = "read" /\ ~ptPacket'[y].stale
                              /\ ptPacket'[y].at = f /\ Field(y)' = l
                              => ptPacket'[y].now >= ptPacket'[q].own[l]
      BY DEF PtOrder
    <3>1. /\ Alive(q) /\ PtOrder(q) /\ ptPacket'[q].key = ptPacket[q].key
          /\ ptPacket'[q].own = ptPacket[q].own /\ ptPacket'[q].raced = ptPacket[q].raced
      BY <1>1, <1>5, <1>6 DEF PtInv, Alive
    <3>2. \A y \in Packets : ptPacket'[y].pc = "read" /\ ~ptPacket'[y].stale =>
             /\ ptPacket[y].pc = "read" /\ ~ptPacket[y].stale /\ ptPacket'[y].at = ptPacket[y].at
             /\ Field(y)' = Field(y) /\ ptPacket'[y].now = ptPacket[y].now
      BY <1>3, <1>5, <1>6 DEF Field
    <3>3. CASE f = e
      BY <2>1, <2>3, <2>6, <3>2, <3>3
    <3>4. CASE f # e
      BY <2>3, <3>1, <3>2, <3>4 DEF PtOrder
    <3> QED
      BY <3>3, <3>4
  <2>9. ASSUME NEW q \in Packets, Alive(q)', ptPacket'[q].alone
        PROVE  /\ Alive(q) /\ PtAlone(q) /\ ptPacket[q].alone /\ ptPacket'[q].key = ptPacket[q].key
               /\ ptPacket'[q].kind = ptPacket[q].kind /\ ptPacket'[q].own = ptPacket[q].own
               /\ ptPacket'[q].raced = ptPacket[q].raced
               /\ Written(q)' = Written(q)
               /\ \A o \in Packets : o # q /\ Alive(o)' => ptPacket'[o].key # ptPacket'[q].key
    <3>1. /\ Alive(q) /\ PtAlone(q) /\ ptPacket[q].alone /\ ptPacket'[q].key = ptPacket[q].key
          /\ ptPacket'[q].kind = ptPacket[q].kind /\ ptPacket'[q].own = ptPacket[q].own
          /\ ptPacket'[q].raced = ptPacket[q].raced
      BY <1>1, <1>5, <1>6, <2>9 DEF PtInv, Alive
    <3>2. Written(q)' = Written(q)
      <4>1. CASE q = p
        <5>1. x # "sending"
          BY <1>3, <1>7, <1>11 DEF Creates
        <5> QED
          BY <1>1, <1>5, <1>6, <4>1, <5>1 DEF Written
      <4>2. CASE q # p
        BY <1>6, <4>2 DEF Written
      <4> QED
        BY <4>1, <4>2
    <3>3. \A o \in Packets : Alive(o)' => Alive(o) /\ ptPacket'[o].key = ptPacket[o].key
      BY <1>1, <1>5, <1>6 DEF Alive
    <3> QED
      BY <3>1, <3>2, <3>3 DEF PtAlone
  <2>10. ASSUME NEW q \in Packets PROVE PtAlone(q)'
    <3> SUFFICES ASSUME Alive(q)', ptPacket'[q].alone PROVE PtAlone(q)'
      BY DEF PtAlone
    <3>1. CASE q = p
      <4>1. r.passed = 0 /\ \A l \in Layers : r.own[l] = 0
        BY <1>1, <1>11 DEF Creates, PtPacketOK
      <4> QED
        BY <2>9, <3>1, <4>1 DEF PtAlone
    <3>2. CASE q # p
      <4>1. ptPacket'[p].key # ptPacket'[q].key
        BY <1>8, <2>9, <3>2
      <4>2. \A f \in Elements : ptElement'[f].key = ptPacket'[q].key => ptElement'[f] = ptElement[f]
        BY <1>5, <1>6, <2>1, <2>3, <4>1
      <4> QED
        BY <2>9, <4>2 DEF PtAlone
    <3> QED
      BY <3>1, <3>2
  <2> QED
    BY <1>9, <2>4, <2>5, <2>7, <2>8, <2>10 DEF PtInv
<1> QED
  BY <1>2, <1>10, <1>11

(* The packet ends, or passes a probe without effect.                      *)
LEMMA PtInvGone ==
  ASSUME PtInv, NEW p \in Packets, PtSubmit(p) \/ PtDrop(p)
  PROVE  PtInv'
  BY PacketEnds DEF PtSubmit, PtDrop

LEMMA PtInvUnseen ==
  ASSUME PtInv, NEW p \in Packets, PtUnseen(p)
  PROVE  PtInv'
<1> DEFINE r == ptPacket[p]
           b == r.alone /\ Field(p) = "sk"
           v == [Left(r) EXCEPT !.alone = b]
<1>1. /\ Alive(p) /\ r.pc = "off" /\ ptElement' = ptElement /\ ptClock' = ptClock
      /\ r \in PtPacketType /\ PtPacketOK(p) /\ ptClock \in Nat
  BY DEF PtUnseen, PtInv, PtTypeOK
<1>2. CASE IsLast(p)
  <2>1. ptPacket' = [ptPacket EXCEPT ![p] = Gone]
    BY <1>2 DEF PtUnseen
  <2> QED
    BY <1>1, <2>1, PacketEnds
<1>3. CASE ~IsLast(p)
  <2>1. Left(r).alone = r.alone /\ b \in BOOLEAN
    BY <1>1, LeftRecord
  <2>2. ptPacket' = [ptPacket EXCEPT ![p] = v]
    <3>1. ptPacket' = [ptPacket EXCEPT ![p] = IF IsLast(p) THEN Gone ELSE v]
      BY DEF PtUnseen
    <3> HIDE DEF v
    <3> QED
      BY <1>3, <3>1
  <2>3. b => r.alone /\ Field(p) = "sk"
    BY <2>1
  <2> HIDE DEF b
  <2>4. /\ Left(r) \in PtPacketType /\ Left(r).pc = "off" /\ Left(r).now = 0
        /\ Left(r).kind = r.kind /\ Left(r).key = r.key /\ Left(r).passed = r.passed + 1
        /\ Left(r).at = "none" /\ ~Left(r).stale
        /\ Left(r).own = r.own /\ Left(r).raced = r.raced
    BY <1>1, LeftRecord
  <2>5. /\ v \in PtPacketType /\ v.pc = "off" /\ v.now = 0
        /\ v.kind = r.kind /\ v.key = r.key /\ v.passed = r.passed + 1
        /\ v.at = "none" /\ ~v.stale /\ v.own = r.own /\ v.raced = r.raced /\ v.alone = b
    <3> DEFINE s == Left(r)
    <3>1. s \in PtPacketType
      BY <2>4
    <3> HIDE DEF s
    <3>2. LET w == [s EXCEPT !.alone = b]
          IN  /\ w \in PtPacketType /\ w.pc = s.pc /\ w.now = s.now
              /\ w.kind = s.kind /\ w.key = s.key /\ w.passed = s.passed /\ w.at = s.at
              /\ w.stale = s.stale /\ w.own = s.own /\ w.raced = s.raced /\ w.alone = b
      BY <2>1, <3>1, AloneRecord
    <3> QED
      BY <2>4, <3>2 DEF s
  <2> HIDE DEF v
  <2>6. ptPacket'[p] = v
    BY <2>2 DEF PtInv, PtTypeOK
  <2>7. /\ r.passed \in Nat /\ r.passed < Len(Fields[r.kind]) /\ "sk" \notin Layers
        /\ PassedFields(r.kind, r.passed + 1) = PassedFields(r.kind, r.passed) \cup {Field(p)}
        /\ Len(Fields[r.kind]) \in Nat
    BY <1>1, OnItsWay, FieldsPassed
  <2>8. r.passed + 1 < Len(Fields[r.kind]) /\ r.passed + 1 # 0
    <3> DEFINE len == Len(Fields[r.kind])
               m == r.passed
    <3>1. m \in Nat /\ len \in Nat /\ m < len /\ m + 1 # len
      BY <1>3, <2>7 DEF IsLast
    <3> HIDE DEF len, m
    <3>2. m + 1 < len /\ m + 1 # 0
      BY <3>1
    <3> QED
      BY <3>2 DEF len, m
  <2>9. PtPacketOK(p)'
    BY <1>1, <2>5, <2>6, <2>8 DEF PtPacketOK, Alive
  <2>10. v.alone => PassedFields(r.kind, Written(p)') \cap Layers \subseteq
                        PassedFields(r.kind, Written(p))
    <3>1. Written(p) = r.passed /\ Written(p)' = r.passed + 1
      BY <1>1, <2>5, <2>6 DEF Written
    <3> QED
      BY <2>3, <2>5, <2>7, <3>1
  <2>11. ptClock' \in Nat /\ ptClock' >= ptClock /\ v.pc # "read" /\ (v.alone => r.alone)
    BY <1>1, <2>3, <2>5
  <2> QED
    BY <1>1, <2>2, <2>5, <2>9, <2>10, <2>11, PacketGoesOn
<1> QED
  BY <1>2, <1>3

LEMMA PtInvClock ==
  ASSUME PtInv, NEW p \in Packets, PtClock(p)
  PROVE  PtInv'
<1> DEFINE r == ptPacket[p]
           n == ptClock + 1
           v == [r EXCEPT !.pc = "read", !.now = n]
<1>1. /\ r.pc = "found" /\ Field(p) \in Layers /\ ptElement' = ptElement /\ ptClock' = n
      /\ r \in PtPacketType /\ PtPacketOK(p) /\ ptClock \in Nat
      /\ ptPacket' = [ptPacket EXCEPT ![p] = v]
  BY DEF PtClock, PtInv, PtTypeOK
<1>2. n \in Nat /\ n > ptClock /\ n # 0
  BY <1>1
<1> HIDE DEF n
<1>3. /\ v \in PtPacketType /\ v.pc = "read" /\ v.now = n
      /\ v.kind = r.kind /\ v.key = r.key /\ v.passed = r.passed /\ v.at = r.at
      /\ v.stale = r.stale /\ v.own = r.own /\ v.raced = r.raced /\ v.alone = r.alone
  BY <1>1, <1>2, ClockRecord
<1> HIDE DEF v
<1>4. ptPacket'[p] = v
  BY <1>1 DEF PtInv, PtTypeOK
<1>5. /\ Field(p)' = Field(p) /\ (IsLast(p)' <=> IsLast(p)) /\ (Alive(p)' <=> Alive(p))
      /\ Written(p)' = Written(p)
  BY <1>1, <1>3, <1>4 DEF Field, IsLast, Alive, Written
<1>6. PtPacketOK(p)'
  <2>1. \A l \in Layers : r.own[l] \in Nat /\ r.own[l] =< ptClock
    BY <1>1 DEF PtPacketType, PtPacketOK
  <2>2. \A l \in Layers : ptPacket'[p].own[l] =< ptClock'
    BY <1>1, <1>2, <1>3, <1>4, <2>1
  <2>3. ptPacket'[p].now =< ptClock' /\ ptPacket'[p].now # 0
    BY <1>1, <1>2, <1>3, <1>4
  <2> QED
    BY <1>1, <1>3, <1>4, <1>5, <2>2, <2>3 DEF PtPacketOK
<1>7. ptClock' \in Nat /\ ptClock' >= ptClock /\ v.now > ptClock
  BY <1>1, <1>2, <1>3
<1> QED
  BY <1>1, <1>3, <1>5, <1>6, <1>7, PacketGoesOn

(* The probe stores its time.                                              *)
LEMMA PtInvStore ==
  ASSUME PtInv, NEW p \in Packets, PtStore(p)
  PROVE  PtInv'
<1> DEFINE r == ptPacket[p]
           e == r.at
           field == Field(p)
           stored == Stored(p)
           after == After(p)
           w == IF ~IsLast(p) THEN Left(after)
                ELSE IF stored.sk THEN [after EXCEPT !.pc = "sending"] ELSE Gone
<1>1. /\ \/ r.pc = "read"
         \/ r.pc = "found" /\ field = "sk"
      /\ ptElement' = [ptElement EXCEPT ![e] = stored]
      /\ ptPacket' = [ptPacket EXCEPT ![p] = w]
      /\ ptClock' = ptClock
  BY DEF PtStore
<1>2. /\ r \in PtPacketType /\ PtPacketOK(p) /\ PtOrder(p) /\ PtAlone(p) /\ ptClock \in Nat
      /\ r.now \in Nat /\ r.own \in [Layers -> Nat] /\ r.raced \in SUBSET Layers
      /\ r.stale \in BOOLEAN
  BY DEF PtInv, PtTypeOK, PtPacketType
<1>3. /\ Alive(p) /\ e \in Elements /\ r.now =< ptClock
      /\ ~r.stale => ptElement[e].key = r.key
      /\ r.pc = "read" => field \in Layers /\ r.now # 0
      /\ e # "none"
  BY <1>1, <1>2, PacketAssumption DEF PtPacketOK
<1>4. /\ r.kind \in Kinds /\ r.passed \in Nat
      /\ r.passed < Len(Fields[r.kind]) /\ r.key # "none" /\ "sk" \notin Layers
      /\ PassedFields(r.kind, r.passed + 1) = PassedFields(r.kind, r.passed) \cup {field}
      /\ Len(Fields[r.kind]) \in Nat
  BY <1>2, <1>3, OnItsWay, FieldsPassed DEF Alive
<1>5. field \in Layers <=> r.pc = "read"
  BY <1>1, <1>3, <1>4
<1>6. ptElement[e] \in PtElementType
  BY <1>3 DEF PtInv, PtTypeOK
<1>7. /\ stored \in PtElementType /\ stored.key = ptElement[e].key
      /\ stored.foreign <=> ptElement[e].foreign \/ r.stale
      /\ \A l \in Layers : stored.time[l] =
            IF field \in Layers /\ l = field THEN r.now ELSE ptElement[e].time[l]
  <2> DEFINE s == Stamp(ptElement[e], field, r.now)
  <2>1. /\ s \in PtElementType /\ s.key = ptElement[e].key /\ s.foreign = ptElement[e].foreign
        /\ \A l \in Layers : s.time[l] =
              IF field \in Layers /\ l = field THEN r.now ELSE ptElement[e].time[l]
    <3>1. CASE field \in Layers
      BY <1>2, <1>6, <3>1 DEF Stamp, PtElementType
    <3>2. CASE field \notin Layers
      BY <1>6, <3>2 DEF Stamp
    <3> QED
      BY <3>1, <3>2
  <2> DEFINE a == s.sk \/ StoresSocket(r, field)
             b == s.foreign \/ r.stale
  <2>2. stored = [s EXCEPT !.sk = a, !.foreign = b]
    BY DEF Stored
  <2>3. a \in BOOLEAN /\ b \in BOOLEAN /\ (b <=> ptElement[e].foreign \/ r.stale)
    BY <2>1
  <2> HIDE DEF s, a, b, stored
  <2>4. /\ stored \in PtElementType /\ stored.key = s.key /\ stored.foreign = b
        /\ stored.time = s.time
    BY <2>1, <2>2, <2>3 DEF PtElementType
  <2> QED
    BY <2>1, <2>3, <2>4
<1> DEFINE own == [l \in Layers |-> IF l = field THEN r.now ELSE r.own[l]]
           raced == IF field \in Layers /\ (r.stale \/ WillBeReplaced(p))
                    THEN r.raced \cup {field} ELSE r.raced
<1>8. /\ own \in [Layers -> Nat] /\ raced \in SUBSET Layers /\ r.raced \subseteq raced
      /\ \A l \in Layers : own[l] = IF l = field THEN r.now ELSE r.own[l]
      /\ field \in Layers /\ field \notin raced => ~r.stale /\ ~WillBeReplaced(p)
  BY <1>2
<1>9. after = [r EXCEPT !.own = own, !.raced = raced]
  <2>1. CASE field \in Layers
    <3>1. own = [r.own EXCEPT ![field] = r.now]
      BY <1>2, <2>1
    <3>2. raced = IF r.stale \/ WillBeReplaced(p) THEN r.raced \cup {field} ELSE r.raced
      BY <2>1
    <3> HIDE DEF own, raced
    <3> QED
      BY <2>1, <3>1, <3>2 DEF After
  <2>2. CASE field \notin Layers
    <3>1. own = r.own /\ raced = r.raced
      BY <1>2, <2>2
    <3> HIDE DEF own, raced
    <3> QED
      BY <1>2, <2>2, <3>1 DEF PtPacketType, After
  <2> QED
    BY <2>1, <2>2
<1> HIDE DEF own, raced, stored
<1>10. /\ after \in PtPacketType /\ after.pc = r.pc /\ after.now = r.now
       /\ after.kind = r.kind /\ after.key = r.key /\ after.passed = r.passed /\ after.at = e
       /\ after.stale = r.stale /\ after.own = own /\ after.raced = raced
       /\ after.alone = r.alone
  <2> HIDE DEF after
  <2> QED
    BY <1>2, <1>8, <1>9 DEF PtPacketType
<1> HIDE DEF after
<1>11. /\ w \in PtPacketType /\ w.pc \in {"off", "sending", "gone"}
       /\ w.key # "none" => /\ w.key = r.key /\ w.kind = r.kind /\ w.own = own
                            /\ w.raced = raced /\ w.alone = r.alone /\ w.pc # "gone"
       /\ w.key = "none" => w = Gone
       /\ w.pc = "off" => /\ w.passed = r.passed + 1 /\ w.at = "none" /\ ~w.stale /\ w.now = 0
                          /\ ~IsLast(p) /\ w.key = r.key
       /\ w.pc = "sending" => /\ w.passed = r.passed /\ w.at = e /\ w.stale = r.stale
                              /\ w.now = r.now /\ IsLast(p) /\ w.key = r.key
  <2>1. CASE ~IsLast(p)
    <3>1. w = Left(after)
      BY <2>1
    <3> HIDE DEF w
    <3> QED
      BY <1>4, <1>10, <2>1, <3>1, LeftRecord
  <2>2. CASE IsLast(p) /\ stored.sk
    <3>1. w = [after EXCEPT !.pc = "sending"]
      BY <2>2
    <3> HIDE DEF w
    <3>2. /\ w \in PtPacketType /\ w.pc = "sending" /\ w.now = after.now
          /\ w.kind = after.kind /\ w.key = after.key /\ w.passed = after.passed
          /\ w.at = after.at /\ w.stale = after.stale /\ w.own = after.own
          /\ w.raced = after.raced /\ w.alone = after.alone
      BY <1>10, <3>1 DEF PtPacketType
    <3> QED
      BY <1>4, <1>10, <2>2, <3>2
  <2>3. CASE IsLast(p) /\ ~stored.sk
    <3>1. w = Gone
      BY <2>3
    <3> HIDE DEF w
    <3> QED
      BY <3>1, NoneFields
  <2> QED
    BY <2>1, <2>2, <2>3
<1> HIDE DEF w
<1>12. /\ ptPacket'[p] = w /\ \A o \in Packets : o # p => ptPacket'[o] = ptPacket[o]
       /\ ptElement'[e] = stored /\ \A f \in Elements : f # e => ptElement'[f] = ptElement[f]
  BY <1>1, <1>3 DEF PtInv, PtTypeOK
<1>13. PtTypeOK'
  BY <1>1, <1>2, <1>7, <1>11 DEF PtInv, PtTypeOK
<1>14. \A f \in Elements : /\ ptElement'[f].key = ptElement[f].key
                           /\ ~ptElement'[f].foreign => ~ptElement[f].foreign
  BY <1>7, <1>12
<1>15. PtOneEntry'
  BY <1>14 DEF PtInv, PtOneEntry
<1>16. ASSUME NEW q \in Packets, q # p PROVE PtPacketOK(q)'
  <2>1. SameButAlone(ptPacket'[q], ptPacket[q])
    BY <1>12, <1>16 DEF SameButAlone
  <2>2. ptPacket[q].pc \in {"found", "read", "sending"} /\ ~ptPacket[q].stale =>
            ptElement'[ptPacket[q].at].key = ptElement[ptPacket[q].at].key
    BY <1>14 DEF PtInv, PtPacketOK
  <2>3. ptClock' \in Nat /\ ptClock' >= ptClock
    BY <1>1, <1>2
  <2> QED
    BY <2>1, <2>2, <2>3, PacketKept
<1>17. PtPacketOK(p)'
  <2>1. CASE w.key = "none"
    <3>1. ptPacket'[p] = Gone
      BY <1>11, <1>12, <2>1
    <3> QED
      BY <1>1, <1>2, <3>1, NoneFields DEF PtPacketOK, Alive
  <2>2. CASE w.key # "none"
    <3>1. \A l \in Layers : own[l] =< ptClock
      BY <1>2, <1>3, <1>8 DEF PtPacketOK
    <3>2. /\ Alive(p)' /\ (Field(p)' = Field(p) \/ w.pc # "sending")
          /\ (w.pc = "sending" => IsLast(p)')
      BY <1>11, <1>12, <2>2 DEF Alive, Field, IsLast
    <3>3. CASE w.pc = "off"
      <4>1. r.passed + 1 < Len(Fields[r.kind]) /\ r.passed + 1 # 0
        <5> DEFINE len == Len(Fields[r.kind])
                   m == r.passed
        <5>1. m \in Nat /\ len \in Nat /\ m < len /\ m + 1 # len
          BY <1>4, <1>11, <3>3 DEF IsLast
        <5> HIDE DEF len, m
        <5>2. m + 1 < len /\ m + 1 # 0
          BY <5>1
        <5> QED
          BY <5>2 DEF len, m
      <4>2. ptPacket'[p].now =< ptClock'
        BY <1>1, <1>2, <1>11, <1>12, <3>3
      <4> QED
        BY <1>1, <1>11, <1>12, <2>2, <3>1, <3>2, <3>3, <4>1, <4>2 DEF PtPacketOK
    <3>4. CASE w.pc = "sending"
      BY <1>1, <1>3, <1>4, <1>11, <1>12, <1>14, <2>2, <3>1, <3>2, <3>4 DEF PtPacketOK
    <3> QED
      BY <1>11, <2>2, <3>3, <3>4
  <2> QED
    BY <2>1, <2>2
<1>18. \A y \in Packets : ptPacket'[y].pc = "read" =>
          y # p /\ ptPacket'[y] = ptPacket[y] /\ Field(y)' = Field(y)
  BY <1>11, <1>12 DEF Field
<1>19. ASSUME NEW f \in Elements, Alive(p)', ptElement'[f].key = ptPacket'[p].key,
              ~ptElement'[f].foreign, NEW l \in Layers, l \notin raced
       PROVE  /\ ptElement[f].key = r.key /\ ~ptElement[f].foreign /\ l \notin r.raced
              /\ l = field => f = e /\ ~r.stale /\ ~WillBeReplaced(p) /\ r.pc = "read"
                              /\ ptElement'[f].time[l] = r.now /\ own[l] = r.now
              /\ l # field => ptElement'[f].time[l] = ptElement[f].time[l] /\ own[l] = r.own[l]
  <2>1. ptElement[f].key = r.key /\ ~ptElement[f].foreign /\ l \notin r.raced
    BY <1>8, <1>11, <1>12, <1>14, <1>19 DEF Alive
  <2>2. CASE l = field
    <3>1. ~r.stale /\ ~WillBeReplaced(p) /\ r.pc = "read" /\ ptElement[e].key = r.key
      BY <1>3, <1>5, <1>8, <1>19, <2>2
    <3>2. f = e
      BY <1>3, <1>4, <2>1, <3>1 DEF PtInv, PtOneEntry
    <3> QED
      BY <1>7, <1>8, <1>12, <2>1, <2>2, <3>1, <3>2
  <2>3. CASE l # field
    BY <1>7, <1>8, <1>12, <2>1, <2>3
  <2> QED
    BY <2>2, <2>3
<1>20. PtOrder(p)'
  <2> SUFFICES ASSUME Alive(p)', NEW f \in Elements,
                      ptElement'[f].key = ptPacket'[p].key, ~ptElement'[f].foreign,
                      NEW l \in Layers, l \notin ptPacket'[p].raced, ptPacket'[p].own[l] # 0
               PROVE  /\ ptElement'[f].time[l] = 0 \/ ptElement'[f].time[l] >= ptPacket'[p].own[l]
                      /\ \A y \in Packets :
                            /\ ptPacket'[y].pc = "read" /\ ~ptPacket'[y].stale
                            /\ ptPacket'[y].at = f /\ Field(y)' = l
                            => ptPacket'[y].now >= ptPacket'[p].own[l]
    BY DEF PtOrder
  <2>1. ptPacket'[p].own = own /\ ptPacket'[p].raced = raced
    BY <1>11, <1>12 DEF Alive
  <2>2. /\ ptElement[f].key = r.key /\ ~ptElement[f].foreign /\ l \notin r.raced
        /\ l = field => f = e /\ ~r.stale /\ ~WillBeReplaced(p) /\ r.pc = "read"
                        /\ ptElement'[f].time[l] = r.now /\ own[l] = r.now
        /\ l # field => ptElement'[f].time[l] = ptElement[f].time[l] /\ own[l] = r.own[l]
    BY <1>19, <2>1
  <2>3. CASE l = field
    <3>1. ASSUME NEW y \in Packets, ptPacket'[y].pc = "read", ptPacket'[y].at = f,
                 Field(y)' = l
          PROVE  ptPacket'[y].now >= ptPacket'[p].own[l]
      <4>1. /\ ptPacket[y].pc = "read" /\ ptPacket[y].at = e /\ Field(y) = field
            /\ ptPacket'[y].now = ptPacket[y].now /\ ptPacket[y].now \in Nat
        BY <1>18, <2>2, <2>3, <3>1 DEF PtInv, PtTypeOK, PtPacketType
      <4>2. ~(ptPacket[y].now < r.now)
        BY <2>2, <2>3, <4>1 DEF WillBeReplaced
      <4> QED
        BY <1>2, <2>1, <2>2, <2>3, <4>1, <4>2
    <3>2. ptElement'[f].time[l] >= ptPacket'[p].own[l]
      BY <1>2, <2>1, <2>2, <2>3
    <3> QED
      BY <3>1, <3>2
  <2>4. CASE l # field
    <3>1. /\ ptElement[f].time[l] = 0 \/ ptElement[f].time[l] >= r.own[l]
          /\ \A y \in Packets :
                ptPacket[y].pc = "read" /\ ~ptPacket[y].stale /\ ptPacket[y].at = f /\ Field(y) = l
                => ptPacket[y].now >= r.own[l]
      BY <1>2, <1>3, <2>1, <2>2, <2>4 DEF PtOrder
    <3> QED
      BY <1>18, <2>1, <2>2, <2>4, <3>1
  <2> QED
    BY <2>3, <2>4
<1>21. ASSUME NEW q \in Packets, q # p PROVE PtOrder(q)'
  <2> SUFFICES ASSUME Alive(q)', NEW f \in Elements,
                      ptElement'[f].key = ptPacket'[q].key, ~ptElement'[f].foreign,
                      NEW l \in Layers, l \notin ptPacket'[q].raced, ptPacket'[q].own[l] # 0
               PROVE  /\ ptElement'[f].time[l] = 0 \/ ptElement'[f].time[l] >= ptPacket'[q].own[l]
                      /\ \A y \in Packets :
                            /\ ptPacket'[y].pc = "read" /\ ~ptPacket'[y].stale
                            /\ ptPacket'[y].at = f /\ Field(y)' = l
                            => ptPacket'[y].now >= ptPacket'[q].own[l]
    BY DEF PtOrder
  <2>1. /\ ptPacket'[q] = ptPacket[q] /\ Alive(q) /\ PtOrder(q)
        /\ ptElement[f].key = ptPacket[q].key /\ ~ptElement[f].foreign
    BY <1>12, <1>14, <1>21 DEF PtInv, Alive
  <2>2. /\ ptElement[f].time[l] = 0 \/ ptElement[f].time[l] >= ptPacket[q].own[l]
        /\ \A y \in Packets :
              ptPacket[y].pc = "read" /\ ~ptPacket[y].stale /\ ptPacket[y].at = f /\ Field(y) = l
              => ptPacket[y].now >= ptPacket[q].own[l]
    BY <2>1 DEF PtOrder
  <2>3. ptElement'[f].time[l] = 0 \/ ptElement'[f].time[l] >= ptPacket'[q].own[l]
    <3>1. CASE f = e /\ field \in Layers /\ l = field
      <4>1. r.pc = "read" /\ ~r.stale /\ r.at = f /\ Field(p) = l
        BY <1>5, <1>7, <1>12, <3>1
      <4>2. r.now >= ptPacket[q].own[l]
        BY <2>2, <4>1
      <4> QED
        BY <1>7, <1>12, <2>1, <3>1, <4>2
    <3>2. CASE ~(f = e /\ field \in Layers /\ l = field)
      <4>1. ptElement'[f].time[l] = ptElement[f].time[l]
        BY <1>7, <1>12, <3>2
      <4> QED
        BY <2>1, <2>2, <4>1
    <3> QED
      BY <3>1, <3>2
  <2> QED
    BY <1>18, <2>1, <2>2, <2>3
<1>22. \A o \in Packets : Alive(o)' => Alive(o) /\ ptPacket'[o].key = ptPacket[o].key
  BY <1>3, <1>11, <1>12 DEF Alive
<1>23. PtAlone(p)'
  <2> SUFFICES ASSUME Alive(p)', ptPacket'[p].alone PROVE PtAlone(p)'
    BY DEF PtAlone
  <2>1. /\ ptPacket'[p].own = own /\ ptPacket'[p].raced = raced /\ ptPacket'[p].kind = r.kind
        /\ r.alone /\ ptPacket'[p].key = r.key
    BY <1>11, <1>12 DEF Alive
  <2>2. Written(p)' = r.passed + 1 /\ Written(p) = r.passed
    BY <1>1, <1>11, <1>12 DEF Written, Alive
  <2>3. /\ r.kind # "retrans"
        /\ \A q \in Packets : q # p /\ Alive(q) => ptPacket[q].key # r.key
        /\ \A l \in PassedFields(r.kind, r.passed) \cap Layers : r.own[l] # 0
        /\ \A f \in Elements : ptElement[f].key = r.key /\ ~ptElement[f].foreign =>
              \A l \in Layers \ r.raced : r.own[l] # 0 => ptElement[f].time[l] = r.own[l]
    BY <1>2, <1>3, <2>1, <2>2 DEF PtAlone
  <2>4. \A q \in Packets : q # p /\ Alive(q)' => ptPacket'[q].key # ptPacket'[p].key
    BY <1>22, <2>1, <2>3
  <2>5. \A l \in PassedFields(r.kind, r.passed + 1) \cap Layers : own[l] # 0
    BY <1>3, <1>4, <1>5, <1>8, <2>3
  <2>6. ASSUME NEW f \in Elements, ptElement'[f].key = ptPacket'[p].key,
               ~ptElement'[f].foreign, NEW l \in Layers, l \notin raced, own[l] # 0
        PROVE  ptElement'[f].time[l] = own[l]
    BY <1>19, <2>3, <2>6
  <2> QED
    BY <2>1, <2>2, <2>3, <2>4, <2>5, <2>6 DEF PtAlone
<1>24. ASSUME NEW q \in Packets, q # p PROVE PtAlone(q)'
  <2> SUFFICES ASSUME Alive(q)', ptPacket'[q].alone PROVE PtAlone(q)'
    BY DEF PtAlone
  <2>1. ptPacket'[q] = ptPacket[q] /\ Alive(q) /\ PtAlone(q)
    BY <1>12, <1>22, <1>24 DEF PtInv
  <2>2. Written(q)' = Written(q)
    BY <2>1 DEF Written
  <2>3. \A o \in Packets : o # q /\ Alive(o)' => ptPacket'[o].key # ptPacket'[q].key
    BY <1>22, <2>1 DEF PtAlone
  <2>4. ptPacket[q].key # r.key
    BY <1>3, <1>24, <2>1 DEF PtAlone
  <2>5. ASSUME NEW f \in Elements, ptElement'[f].key = ptPacket'[q].key, ~ptElement'[f].foreign
        PROVE  ptElement'[f] = ptElement[f]
    <3>1. f # e
      BY <1>3, <1>7, <1>12, <1>14, <2>1, <2>4, <2>5
    <3> QED
      BY <1>12, <3>1
  <2> QED
    BY <2>1, <2>2, <2>3, <2>5 DEF PtAlone
<1> QED
  BY <1>13, <1>15, <1>16, <1>17, <1>20, <1>21, <1>23, <1>24 DEF PtInv

(* The map takes an element away.                                          *)
LEMMA PtInvEvict ==
  ASSUME PtInv, NEW e \in Elements, PtEvict(e)
  PROVE  PtInv'
<1>1. /\ ptPacket' = [p \in Packets |-> [ptPacket[p] EXCEPT !.stale = @ \/ ptPacket[p].at = e]]
      /\ ptClock' = ptClock /\ ptClock \in Nat
  BY DEF PtEvict, PtInv, PtTypeOK
<1>2. /\ ptElement' \in [Elements -> PtElementType] /\ ptElement'[e].key = "none"
      /\ \A f \in Elements : f # e => ptElement'[f] = ptElement[f]
  <2> DEFINE v == IF \E p \in Packets : ptPacket[p].at = e
                  THEN [ptElement[e] EXCEPT !.key = "none"] ELSE Empty
  <2>1. v \in PtElementType /\ v.key = "none"
    <3>1. ptElement[e] \in PtElementType
      BY DEF PtInv, PtTypeOK
    <3>2. LET u == [ptElement[e] EXCEPT !.key = "none"]
          IN  u \in PtElementType /\ u.key = "none"
      BY <3>1 DEF PtElementType
    <3> QED
      BY <3>2, EmptyFields
  <2>2. ptElement' = [ptElement EXCEPT ![e] = v]
    BY DEF PtEvict
  <2> HIDE DEF v
  <2> QED
    BY <2>1, <2>2 DEF PtInv, PtTypeOK
<1>3. ASSUME NEW q \in Packets
      PROVE  LET v == ptPacket'[q]
                 r == ptPacket[q]
             IN  /\ v \in PtPacketType /\ v.pc = r.pc /\ v.now = r.now
                 /\ v.kind = r.kind /\ v.key = r.key /\ v.passed = r.passed /\ v.at = r.at
                 /\ (v.stale <=> r.stale \/ r.at = e) /\ v.own = r.own /\ v.raced = r.raced
                 /\ v.alone = r.alone
  <2> DEFINE r == ptPacket[q]
             b == r.stale \/ r.at = e
  <2>1. b \in BOOLEAN /\ r \in PtPacketType
    BY DEF PtInv, PtTypeOK
  <2>2. ptPacket'[q] = [r EXCEPT !.stale = b]
    BY <1>1
  <2>3. b <=> r.stale \/ r.at = e
    OBVIOUS
  <2> HIDE DEF b, r
  <2>4. LET v == [r EXCEPT !.stale = b]
        IN  /\ v \in PtPacketType /\ v.pc = r.pc /\ v.now = r.now
            /\ v.kind = r.kind /\ v.key = r.key /\ v.passed = r.passed /\ v.at = r.at
            /\ v.stale = b /\ v.own = r.own /\ v.raced = r.raced /\ v.alone = r.alone
    BY <2>1, StaleRecord
  <2> QED
    BY <2>2, <2>3, <2>4 DEF r
<1>4. PtTypeOK'
  <2>1. ptPacket' \in [Packets -> PtPacketType]
    <3>1. \A q \in Packets : ptPacket'[q] \in PtPacketType
      BY <1>3
    <3>2. ptPacket' = [q \in Packets |-> ptPacket'[q]]
      BY <1>1
    <3> QED
      BY <3>1, <3>2
  <2> QED
    BY <1>1, <1>2, <2>1 DEF PtTypeOK
<1>5. PtOneEntry'
  BY <1>2 DEF PtInv, PtOneEntry
<1>6. ASSUME NEW q \in Packets PROVE PtPacketOK(q)' /\ PtOrder(q)' /\ PtAlone(q)'
  <2>1. /\ PtPacketOK(q) /\ PtOrder(q) /\ PtAlone(q) /\ (Alive(q)' <=> Alive(q))
        /\ Field(q)' = Field(q) /\ (IsLast(q)' <=> IsLast(q)) /\ Written(q)' = Written(q)
    BY <1>3 DEF PtInv, Alive, Field, IsLast, Written
  <2>2. PtPacketOK(q)'
    <3>1. ptPacket[q].at = "none" => ptPacket[q].at # e
      BY PacketAssumption
    <3>2. ~ptPacket'[q].stale => ~ptPacket[q].stale /\ ptPacket[q].at # e
      BY <1>3
    <3> QED
      BY <1>1, <1>2, <1>3, <2>1, <3>1, <3>2 DEF PtPacketOK
  <2>3. PtOrder(q)'
    <3>1. \A f \in Elements : ptElement'[f].key # "none" => ptElement'[f] = ptElement[f]
      BY <1>2
    <3>2. \A y \in Packets : ptPacket'[y].pc = "read" /\ ~ptPacket'[y].stale =>
             /\ ptPacket[y].pc = "read" /\ ~ptPacket[y].stale /\ ptPacket'[y].at = ptPacket[y].at
             /\ Field(y)' = Field(y) /\ ptPacket'[y].now = ptPacket[y].now
      BY <1>3 DEF Field
    <3>3. /\ ptPacket'[q].key = ptPacket[q].key /\ ptPacket'[q].own = ptPacket[q].own
          /\ ptPacket'[q].raced = ptPacket[q].raced
      BY <1>3
    <3> SUFFICES ASSUME Alive(q)', NEW f \in Elements,
                        ptElement'[f].key = ptPacket'[q].key, ~ptElement'[f].foreign,
                        NEW l \in Layers, l \notin ptPacket'[q].raced, ptPacket'[q].own[l] # 0
                 PROVE  /\ ptElement'[f].time[l] = 0 \/ ptElement'[f].time[l] >= ptPacket'[q].own[l]
                        /\ \A y \in Packets :
                              /\ ptPacket'[y].pc = "read" /\ ~ptPacket'[y].stale
                              /\ ptPacket'[y].at = f /\ Field(y)' = l
                              => ptPacket'[y].now >= ptPacket'[q].own[l]
      BY DEF PtOrder
    <3>4. ptElement'[f] = ptElement[f] /\ Alive(q)
      BY <2>1, <3>1 DEF Alive
    <3> QED
      BY <2>1, <3>2, <3>3, <3>4 DEF PtOrder
  <2>4. PtAlone(q)'
    <3> SUFFICES ASSUME Alive(q)', ptPacket'[q].alone PROVE PtAlone(q)'
      BY DEF PtAlone
    <3>1. \A o \in Packets : Alive(o)' => Alive(o) /\ ptPacket'[o].key = ptPacket[o].key
      BY <1>3 DEF Alive
    <3>2. \A f \in Elements : ptElement'[f].key = ptPacket'[q].key => ptElement'[f] = ptElement[f]
      BY <1>2 DEF Alive
    <3>3. /\ Alive(q) /\ ptPacket[q].alone /\ ptPacket'[q].key = ptPacket[q].key
          /\ ptPacket'[q].kind = ptPacket[q].kind
          /\ ptPacket'[q].own = ptPacket[q].own /\ ptPacket'[q].raced = ptPacket[q].raced
      BY <1>3, <2>1
    <3> QED
      BY <2>1, <3>1, <3>2, <3>3 DEF PtAlone
  <2> QED
    BY <2>2, <2>3, <2>4
<1> QED
  BY <1>4, <1>5, <1>6 DEF PtInv

LEMMA PtInvNext == PtInv /\ [PacketNext]_ptVars => PtInv'
<1> SUFFICES ASSUME PtInv, [PacketNext]_ptVars PROVE PtInv'
  OBVIOUS
<1>1. ASSUME NEW p \in Packets, PtArrive(p) PROVE PtInv'
  BY <1>1, PtInvArrive
<1>2. ASSUME NEW p \in Packets, PtFind(p) PROVE PtInv'
  BY <1>2, PtInvFind
<1>3. ASSUME NEW p \in Packets, PtClock(p) PROVE PtInv'
  BY <1>3, PtInvClock
<1>4. ASSUME NEW p \in Packets, PtStore(p) PROVE PtInv'
  BY <1>4, PtInvStore
<1>5. ASSUME NEW p \in Packets, PtSubmit(p) \/ PtDrop(p) PROVE PtInv'
  BY <1>5, PtInvGone
<1>6. ASSUME NEW p \in Packets, PtUnseen(p) PROVE PtInv'
  BY <1>6, PtInvUnseen
<1>7. ASSUME NEW e \in Elements, PtEvict(e) PROVE PtInv'
  BY <1>7, PtInvEvict
<1>8. CASE UNCHANGED ptVars
  BY <1>8 DEF ptVars, PtInv, PtTypeOK, PtPacketType, PtElementType, PtOneEntry, PtPacketOK,
       PtOrder, PtAlone, Alive, Field, IsLast, Written
<1> QED
  BY <1>1, <1>2, <1>3, <1>4, <1>5, <1>6, <1>7, <1>8 DEF PacketNext

LEMMA TimesOfPacket == PtInv => PtTimesNeverOlder
<1> SUFFICES ASSUME PtInv, NEW p \in Packets, ptPacket[p].pc = "sending", ~ptPacket[p].stale,
                    ~ptElement[ptPacket[p].at].foreign,
                    NEW l \in Reported[ptPacket[p].kind], l \notin ptPacket[p].raced
             PROVE  /\ ptElement[ptPacket[p].at].time[l] # 0 =>
                          ptElement[ptPacket[p].at].time[l] >= ptPacket[p].own[l]
                    /\ ptPacket[p].alone =>
                          ptElement[ptPacket[p].at].time[l] = ptPacket[p].own[l]
  BY DEF PtTimesNeverOlder
<1> DEFINE r == ptPacket[p]
           e == r.at
<1>1. /\ PtPacketOK(p) /\ PtOrder(p) /\ PtAlone(p) /\ r \in PtPacketType
  BY DEF PtInv, PtTypeOK
<1>2. /\ Alive(p) /\ e \in Elements /\ ptElement[e].key = r.key /\ IsLast(p)
  BY <1>1 DEF PtPacketOK
<1>3. /\ r.kind \in Kinds /\ r.passed \in Nat /\ r.passed < Len(Fields[r.kind])
  BY <1>2, OnItsWay
<1>4. l \in Layers
  BY <1>3, FieldsPassed
<1>5. r.own[l] \in Nat /\ ptElement[e].time[l] \in Nat
  BY <1>1, <1>2, <1>4 DEF PtPacketType, PtInv, PtTypeOK, PtElementType
<1>6. ptElement[e].time[l] # 0 => ptElement[e].time[l] >= r.own[l]
  BY <1>1, <1>2, <1>4, <1>5 DEF PtOrder
<1>7. ASSUME r.alone PROVE ptElement[e].time[l] = r.own[l]
  <2>1. r.kind # "retrans" /\ Written(p) = r.passed + 1
    BY <1>1, <1>2, <1>7 DEF PtAlone, Written
  <2>2. l \in PassedFields(r.kind, r.passed + 1) \cap Layers
    BY <1>2, <1>3, <2>1, FieldsPassed DEF IsLast
  <2>3. r.own[l] # 0
    BY <1>1, <1>2, <1>7, <2>1, <2>2 DEF PtAlone
  <2> QED
    BY <1>1, <1>2, <1>4, <1>7, <2>3 DEF PtAlone
<1> QED
  BY <1>6, <1>7

LEMMA PtInvHolds == PacketSpec => []PtInv
  BY PtInvInit, PtInvNext, PTL DEF PacketSpec

(* A layer time of a packet (packet.bpf.h, udp.bpf.h) is never computed    *)
(* from a stamp older than the packet's own, and from its own alone when   *)
(* no other packet of its key was on its way: for any number of packets,   *)
(* keys and elements, with lookup, clock and store of the probes apart and *)
(* any loss of entries.                                                    *)
THEOREM TimesNeverOlder == PacketSpec => []PtTimesNeverOlder
<1>1. PtInv => PtTimesNeverOlder
  BY TimesOfPacket
<1> QED
  BY <1>1, PtInvHolds, PTL

----------------------------------------------------------------------------
(* NetfilterTimes: a report holds the time of another packet only where no *)
(* probe ran on the packet it is of.                                       *)
USE NetfilterAssumption

(* A packet on its way; probes ran only at hooks it has passed.            *)
NfPacketOK(s) ==
    nfSkb[s] # NoSkb =>
       /\ nfSkb[s].id \in 1 .. nfPackets
       /\ nfSkb[s].passed < Len(Routes[nfSkb[s].route])
       /\ \A h \in nfSkb[s].ran : \E i \in 1 .. nfSkb[s].passed : h = Routes[nfSkb[s].route][i]

(* The last hooks delete the entry, and leave no stamp in it.              *)
NfLastUnset == \A s \in DOMAIN nfTime, h \in Hooks : LastHook(h) => ~Set(nfTime[s].time[h])

(* At the hooks whose probes ran on the packet of an sk_buff, its entry    *)
(* holds nothing of another packet; and it holds all of the packet whose   *)
(* probes all ran.                                                         *)
NfMet(s) == \A i \in 1 .. nfSkb[s].passed : Routes[nfSkb[s].route][i] \in nfSkb[s].ran

NfPassedStamps(s) ==
    nfSkb[s] # NoSkb /\ s \in DOMAIN nfTime =>
       /\ \A h \in nfSkb[s].ran :
             ~Set(nfTime[s].time[h]) \/ nfTime[s].time[h].id = nfSkb[s].id
       /\ nfSkb[s].passed # 0 /\ NfMet(s) =>
             /\ nfTime[s].init = nfSkb[s].id
             /\ \A i \in 1 .. nfSkb[s].passed :
                   nfTime[s].time[Routes[nfSkb[s].route][i]] = [id |-> nfSkb[s].id, at |-> i]

NfInv ==
    /\ NetfilterTypeOK
    /\ NfLastUnset
    /\ \A s \in Skbs : NfPacketOK(s) /\ NfPassedStamps(s)
    /\ NfReportOfOnePacket

(* The routes: an entry is created only by their first hook and deleted    *)
(* only by their last one, and no hook comes twice.                        *)
LEMMA RouteHooks ==
  ASSUME NEW route \in DOMAIN Routes, NEW n \in Nat, n < Len(Routes[route])
  PROVE  /\ Len(Routes[route]) \in 3 .. 4 /\ n \in 0 .. 3
         /\ \A i \in 1 .. n : Routes[route][i] # Routes[route][n + 1]
         /\ n # 0 => Routes[route][n + 1] \in Hooks
         /\ n = 0 /\ Routes[route][n + 1] \in Hooks => Started(Routes[route][n + 1])
         /\ n # 0 => ~Started(Routes[route][n + 1])
         /\ LastHook(Routes[route][n + 1]) <=> n + 1 = Len(Routes[route])
         /\ n + 1 # Len(Routes[route]) => n + 1 \in 0 .. 3 /\ n + 1 < Len(Routes[route])
<1>1. CASE route = "received"
  <2>1. Routes[route] = <<"ip_rcv", "ip_local_deliver", "ip_local_deliver_finish">>
    BY <1>1 DEF Routes
  <2>2. n \in 0 .. 2
    BY <2>1
  <2> QED
    BY <2>1, <2>2 DEF Started, LastHook, Hooks
<1>2. CASE route = "forwarded"
  <2>1. Routes[route] = <<"ip_rcv", "ip_forward", "ip_output", "__ip_finish_output">>
    BY <1>2 DEF Routes
  <2>2. n \in 0 .. 3
    BY <2>1
  <2> QED
    BY <2>1, <2>2 DEF Started, LastHook, Hooks
<1>3. CASE route = "sent"
  <2>1. Routes[route] = <<"ip_local_out", "ip_output", "__ip_finish_output">>
    BY <1>3 DEF Routes
  <2>2. n \in 0 .. 2
    BY <2>1
  <2> QED
    BY <2>1, <2>2 DEF Started, LastHook, Hooks
<1>4. CASE route = "received_in_list"
  <2>1. Routes[route] = <<"ip_list_rcv", "ip_local_deliver", "ip_local_deliver_finish">>
    BY <1>4 DEF Routes
  <2>2. n \in 0 .. 2
    BY <2>1
  <2> QED
    BY <2>1, <2>2 DEF Started, LastHook, Hooks
<1>5. CASE route = "forwarded_in_list"
  <2>1. Routes[route] = <<"ip_list_rcv", "ip_forward", "ip_output", "__ip_finish_output">>
    BY <1>5 DEF Routes
  <2>2. n \in 0 .. 3
    BY <2>1
  <2> QED
    BY <2>1, <2>2 DEF Started, LastHook, Hooks
<1> QED
  BY <1>1, <1>2, <1>3, <1>4, <1>5 DEF Routes

LEMMA NfInvInit == NetfilterInit => NfInv
<1> SUFFICES ASSUME NetfilterInit PROVE NfInv
  OBVIOUS
<1>1. NoSkb \in [id : 0 .. MaxPackets, route : DOMAIN Routes, passed : 0 .. 3,
                 ran : SUBSET Hooks, wanted : BOOLEAN]
  BY DEF NoSkb, Routes
<1>2. NetfilterTypeOK
  BY <1>1 DEF NetfilterInit, NetfilterTypeOK
<1>3. ~Whole(NfNoReport) /\ NfNoReport.used = {}
  <2>1. NfNoReport.route = "sent" /\ NfNoReport.ran = {} /\ NfNoReport.used = {}
    BY DEF NfNoReport
  <2>2. 1 \in DOMAIN Routes["sent"]
    BY DEF Routes
  <2> QED
    BY <2>1, <2>2 DEF Whole
<1>4. NfReportOfOnePacket
  BY <1>3 DEF NetfilterInit, NfReportOfOnePacket
<1> QED
  BY <1>2, <1>4 DEF NetfilterInit, NfInv, NfLastUnset, NfPacketOK, NfPassedStamps

(* The types of a packet and of an entry.                                  *)
NfSkbType   == [id : 0 .. MaxPackets, route : DOMAIN Routes, passed : 0 .. 3,
                ran : SUBSET Hooks, wanted : BOOLEAN]
NfEntryType == [init : 0 .. MaxPackets, wanted : BOOLEAN, time : [Hooks -> Stamps]]

(* What a kprobe writes into the entry.                                    *)
LEMMA EntryStamped ==
  ASSUME NetfilterTypeOK, NEW s \in Skbs, NEW hook \in Hooks, NEW v, v = Stamped(s, hook)
  PROVE  /\ v \in NfEntryType
         /\ v.time[hook] = [id |-> nfSkb[s].id, at |-> nfSkb[s].passed + 1]
         /\ \A h \in Hooks : h # hook =>
               v.time[h] = IF s \in DOMAIN nfTime THEN nfTime[s].time[h] ELSE NoStamp
         /\ Started(hook) => v.init = nfSkb[s].id
         /\ ~Started(hook) /\ s \in DOMAIN nfTime => v.init = nfTime[s].init
<1> DEFINE found == IF s \in DOMAIN nfTime THEN nfTime[s] ELSE Zero
           r == nfSkb[s]
           e == Entry(s, hook)
           stamp == [id |-> r.id, at |-> r.passed + 1]
<1>1. found \in NfEntryType
  BY NetfilterAssumption DEF NetfilterTypeOK, NfEntryType, Zero, Stamps, NoStamp
<1>2. \A h \in Hooks : found.time[h] = IF s \in DOMAIN nfTime THEN nfTime[s].time[h] ELSE NoStamp
  BY DEF Zero
<1>3. r \in NfSkbType /\ r.id \in 0 .. MaxPackets /\ r.wanted \in BOOLEAN
  BY DEF NetfilterTypeOK, NfSkbType
<1>4. stamp \in Stamps
  BY <1>3 DEF Stamps, NfSkbType
<1>5. e = IF Started(hook) THEN [found EXCEPT !.init = r.id, !.wanted = r.wanted] ELSE found
  BY DEF Entry
<1>6. v = [e EXCEPT !.time[hook] = stamp]
  BY DEF Stamped
<1>7. s \in DOMAIN nfTime => found = nfTime[s]
  OBVIOUS
<1> HIDE DEF found, r, e, stamp
<1>8. /\ e \in NfEntryType /\ e.time = found.time
      /\ Started(hook) => e.init = r.id
      /\ ~Started(hook) => e.init = found.init
  BY <1>1, <1>3, <1>5 DEF NfEntryType
<1>9. /\ v \in NfEntryType /\ v.init = e.init /\ v.time[hook] = stamp
      /\ \A h \in Hooks : h # hook => v.time[h] = e.time[h]
  BY <1>4, <1>6, <1>8 DEF NfEntryType
<1> QED
  BY <1>2, <1>7, <1>8, <1>9 DEF r, stamp

(* What is used of a set of hooks.                                         *)
LEMMA UsedFrom ==
  ASSUME NEW t, NEW hooks, NEW x \in From(t, hooks)
  PROVE  x.hook \in hooks /\ x.id = t[x.hook].id /\ Set(t[x.hook])
<1>1. Complete(t, hooks) /\ x \in {[hook |-> h, id |-> t[h].id] : h \in hooks}
  BY DEF From
<1>2. PICK h \in hooks : x = [hook |-> h, id |-> t[h].id]
  BY <1>1
<1>3. x.hook = h /\ x.id = t[h].id
  BY <1>2
<1> QED
  BY <1>1, <1>3 DEF Complete

(* The report of a packet at the last hook of its route.                   *)
LEMMA ReportOfPacket ==
  ASSUME NetfilterTypeOK, NfLastUnset, NEW s \in Skbs, NfPassedStamps(s), NfPacketOK(s),
         nfSkb[s] # NoSkb, s \in DOMAIN nfTime,
         NEW route, NEW n, route = nfSkb[s].route, n = nfSkb[s].passed,
         LastHook(Routes[route][n + 1]),
         NEW skb, skb.id = nfSkb[s].id, skb.route = route,
         skb.ran = nfSkb[s].ran \cup {Routes[route][n + 1]},
         nfReport' = Message(skb, Stamped(s, Routes[route][n + 1]),
                             IF Routes[route][n + 1] = "ip_local_deliver_finish" THEN 1 ELSE 0)
  PROVE  NfReportOfOnePacket'
<1> DEFINE hook == Routes[route][n + 1]
           v    == Stamped(s, hook)
           id   == nfSkb[s].id
           rx   == IF hook = "ip_local_deliver_finish" THEN 1 ELSE 0
<1>1. /\ route \in DOMAIN Routes /\ n \in 0 .. 3 /\ n \in Nat /\ n < Len(Routes[route])
      /\ id \in 1 .. nfPackets /\ nfSkb[s].ran \subseteq Hooks
  BY DEF NetfilterTypeOK, NfPacketOK
<1>2. /\ hook \in Hooks /\ n + 1 = Len(Routes[route]) /\ ~Started(hook) /\ n # 0
      /\ \A i \in 1 .. n : Routes[route][i] # hook
  <2>1. /\ Len(Routes[route]) \in 3 .. 4
        /\ LastHook(Routes[route][n + 1]) <=> n + 1 = Len(Routes[route])
        /\ n # 0 => Routes[route][n + 1] \in Hooks /\ ~Started(Routes[route][n + 1])
        /\ \A i \in 1 .. n : Routes[route][i] # Routes[route][n + 1]
    BY <1>1, RouteHooks
  <2>2. n # 0
    <3> DEFINE len == Len(Routes[route])
    <3>1. len \in 3 .. 4 /\ n + 1 = len
      BY <2>1
    <3> HIDE DEF len
    <3> QED
      BY <1>1, <3>1
  <2> QED
    BY <2>1, <2>2
<1>3. \A h \in nfSkb[s].ran : h # hook
  BY <1>2 DEF NfPacketOK
<1>4. /\ v.time[hook] = [id |-> id, at |-> n + 1]
      /\ \A h \in Hooks : h # hook => v.time[h] = nfTime[s].time[h]
      /\ v.init = nfTime[s].init
  <2>1. v = Stamped(s, hook)
    OBVIOUS
  <2> HIDE DEF v, hook
  <2> QED
    BY <1>2, <2>1, EntryStamped
<1> DEFINE message == nfReport'
           used == IF rx = 1 THEN From(v.time, InboundHooks)
                   ELSE From(v.time, ForwardHooks) \cup From(v.time, OutboundHooks)
           shown == IF rx = 0 /\ Complete(v.time, ForwardHooks) THEN 2 ELSE rx
<1>5. /\ message.by = id /\ message.route = route /\ message.ran = nfSkb[s].ran \cup {hook}
      /\ message.of = v.init /\ message.used = used
  <2>1. message = [by |-> skb.id, route |-> skb.route, ran |-> skb.ran,
                   of |-> v.init, rx |-> shown, used |-> used]
    BY DEF Message
  <2> HIDE DEF message, used, shown, rx
  <2>2. /\ message.by = skb.id /\ message.route = skb.route /\ message.ran = skb.ran
        /\ message.of = v.init /\ message.used = used
    BY <2>1
  <2> QED
    BY <2>2
<1> HIDE DEF v, hook, message, used
(* No time of another packet at a hook whose probe ran.                    *)
<1>6. ASSUME NEW x \in used, x.id # id PROVE x.hook \notin nfSkb[s].ran \cup {hook}
  <2>1. /\ x.hook \in Hooks /\ x.id = v.time[x.hook].id /\ Set(v.time[x.hook])
    <3>1. \E hooks \in {InboundHooks, ForwardHooks, OutboundHooks} : x \in From(v.time, hooks)
      BY <1>6 DEF used
    <3>2. PICK hooks \in {InboundHooks, ForwardHooks, OutboundHooks} : x \in From(v.time, hooks)
      BY <3>1
    <3>3. hooks \subseteq Hooks
      BY DEF InboundHooks, ForwardHooks, OutboundHooks, Hooks
    <3> QED
      BY <3>2, <3>3, UsedFrom
  <2>2. x.hook # hook
    BY <1>4, <1>6, <2>1
  <2>3. x.hook \notin nfSkb[s].ran
    BY <1>4, <1>6, <2>1, <2>2 DEF NfPassedStamps
  <2> QED
    BY <2>2, <2>3
(* All the times of a packet whose probes all ran.                         *)
<1>7. ASSUME \A i \in DOMAIN Routes[route] : Routes[route][i] \in nfSkb[s].ran \cup {hook}
      PROVE  /\ v.init = id
             /\ \A i \in 1 .. n : v.time[Routes[route][i]] = [id |-> id, at |-> i]
             /\ \A i \in 1 .. n : Routes[route][i] \in nfSkb[s].ran
  <2>1. ASSUME NEW i \in 1 .. n PROVE Routes[route][i] \in nfSkb[s].ran
    <3>1. i \in DOMAIN Routes[route]
      <4>1. DOMAIN Routes[route] = 1 .. Len(Routes[route])
        BY <1>1 DEF Routes
      <4> QED
        BY <1>1, <1>2, <4>1
    <3> QED
      BY <1>2, <1>7, <3>1
  <2>2. NfMet(s)
    BY <2>1 DEF NfMet
  <2>3. /\ nfTime[s].init = id
        /\ \A i \in 1 .. n : nfTime[s].time[Routes[route][i]] = [id |-> id, at |-> i]
    BY <1>2, <2>2 DEF NfPassedStamps
  <2> QED
    BY <1>1, <1>2, <1>4, <2>1, <2>3
<1>8. nfSkb[s].ran \subseteq {Routes[route][i] : i \in 1 .. n}
  BY DEF NfPacketOK
<1>e. ASSUME route # "forwarded",
             (\A i \in DOMAIN Routes[route] : Routes[route][i] \in nfSkb[s].ran \cup {hook})
             => /\ v.init = id
                /\ used = {[hook |-> h, id |-> id] : h \in nfSkb[s].ran \cup {hook}}
      PROVE  NfReportOfOnePacket'
  <2>1. /\ nfReport'.by = id /\ nfReport'.route = route
        /\ nfReport'.ran = nfSkb[s].ran \cup {hook}
        /\ nfReport'.of = v.init /\ nfReport'.used = used
    BY <1>5 DEF message
  <2>2. ASSUME Whole(nfReport)'
        PROVE  /\ nfReport'.of = nfReport'.by
               /\ nfReport'.used = {[hook |-> h, id |-> nfReport'.by] : h \in nfReport'.ran}
    <3>1. \A i \in DOMAIN Routes[route] : Routes[route][i] \in nfSkb[s].ran \cup {hook}
      BY <2>1, <2>2 DEF Whole
    <3>2. /\ v.init = id
          /\ used = {[hook |-> h, id |-> id] : h \in nfSkb[s].ran \cup {hook}}
      BY <1>e, <3>1
    <3>3. {[hook |-> h, id |-> nfReport'.by] : h \in nfReport'.ran} =
             {[hook |-> h, id |-> id] : h \in nfSkb[s].ran \cup {hook}}
      BY <2>1
    <3> QED
      BY <2>1, <3>2, <3>3
  <2>3. \A time \in nfReport'.used : time.id # nfReport'.by => time.hook \notin nfReport'.ran
    BY <1>6, <2>1
  <2> QED
    BY <2>2, <2>3 DEF NfReportOfOnePacket
<1>9. CASE route = "received"
  <2>1. /\ hook = "ip_local_deliver_finish" /\ n = 2
        /\ Routes[route][1] = "ip_rcv" /\ Routes[route][2] = "ip_local_deliver"
    BY <1>1, <1>2, <1>9 DEF Routes, hook
  <2>2. used = From(v.time, InboundHooks)
    BY <2>1 DEF used
  <2>3. ASSUME \A i \in DOMAIN Routes[route] : Routes[route][i] \in nfSkb[s].ran \cup {hook}
        PROVE  v.init = id /\ used = {[hook |-> h, id |-> id] : h \in nfSkb[s].ran \cup {hook}}
    <3>1. 1 \in 1 .. n /\ 2 \in 1 .. n
      BY <2>1
    <3>2. /\ v.init = id
          /\ v.time["ip_rcv"] = [id |-> id, at |-> 1]
          /\ v.time["ip_local_deliver"] = [id |-> id, at |-> 2]
          /\ "ip_rcv" \in nfSkb[s].ran /\ "ip_local_deliver" \in nfSkb[s].ran
      BY <1>7, <2>1, <2>3, <3>1
    <3>3. nfSkb[s].ran \cup {hook} = InboundHooks
      BY <1>8, <2>1, <3>2 DEF InboundHooks
    <3>4. \A h \in InboundHooks : v.time[h].id = id /\ Set(v.time[h])
      BY <1>1, <1>4, <2>1, <3>2 DEF InboundHooks, Set, NoStamp
    <3>5. used = {[hook |-> h, id |-> v.time[h].id] : h \in InboundHooks}
      BY <2>2, <3>4 DEF From, Complete
    <3>6. {[hook |-> h, id |-> v.time[h].id] : h \in InboundHooks} =
             {[hook |-> h, id |-> id] : h \in InboundHooks}
      BY <3>4
    <3> QED
      BY <3>2, <3>3, <3>5, <3>6
  <2> QED
    BY <1>9, <1>e, <2>3
<1>10. CASE route = "sent"
  <2>1. /\ hook = "__ip_finish_output" /\ n = 2
        /\ Routes[route][1] = "ip_local_out" /\ Routes[route][2] = "ip_output"
    BY <1>1, <1>2, <1>10 DEF Routes, hook
  <2>2. From(v.time, ForwardHooks) = {}
    <3>1. /\ "ip_local_deliver_finish" \in Hooks /\ LastHook("ip_local_deliver_finish")
          /\ "ip_local_deliver_finish" \in ForwardHooks
      BY DEF Hooks, LastHook, ForwardHooks, InboundHooks
    <3>2. v.time["ip_local_deliver_finish"] = nfTime[s].time["ip_local_deliver_finish"]
      BY <1>4, <2>1, <3>1
    <3>3. ~Set(v.time["ip_local_deliver_finish"])
      BY <3>1, <3>2 DEF NfLastUnset
    <3> QED
      BY <3>1, <3>3 DEF From, Complete
  <2>3. used = From(v.time, OutboundHooks)
    BY <2>1, <2>2 DEF used
  <2>4. ASSUME \A i \in DOMAIN Routes[route] : Routes[route][i] \in nfSkb[s].ran \cup {hook}
        PROVE  v.init = id /\ used = {[hook |-> h, id |-> id] : h \in nfSkb[s].ran \cup {hook}}
    <3>1. 1 \in 1 .. n /\ 2 \in 1 .. n
      BY <2>1
    <3>2. /\ v.init = id
          /\ v.time["ip_local_out"] = [id |-> id, at |-> 1]
          /\ v.time["ip_output"] = [id |-> id, at |-> 2]
          /\ "ip_local_out" \in nfSkb[s].ran /\ "ip_output" \in nfSkb[s].ran
      BY <1>7, <2>1, <2>4, <3>1
    <3>3. nfSkb[s].ran \cup {hook} = OutboundHooks
      BY <1>8, <2>1, <3>2 DEF OutboundHooks
    <3>4. \A h \in OutboundHooks : v.time[h].id = id /\ Set(v.time[h])
      BY <1>1, <1>4, <2>1, <3>2 DEF OutboundHooks, Set, NoStamp
    <3>5. used = {[hook |-> h, id |-> v.time[h].id] : h \in OutboundHooks}
      BY <2>3, <3>4 DEF From, Complete
    <3>6. {[hook |-> h, id |-> v.time[h].id] : h \in OutboundHooks} =
             {[hook |-> h, id |-> id] : h \in OutboundHooks}
      BY <3>4
    <3> QED
      BY <3>2, <3>3, <3>5, <3>6
  <2> QED
    BY <1>10, <1>e, <2>4
<1>11. CASE route \in {"received_in_list", "forwarded_in_list"}
  <2>1. Routes[route][1] = "ip_list_rcv" /\ 1 \in DOMAIN Routes[route]
    BY <1>11 DEF Routes
  <2>2. "ip_list_rcv" \notin nfSkb[s].ran \cup {hook}
    BY <1>1, <1>2 DEF Hooks
  <2> QED
    BY <1>11, <1>e, <2>1, <2>2
<1>12. CASE route = "forwarded"
  BY <1>5, <1>6, <1>12 DEF NfReportOfOnePacket, message
<1> QED
  BY <1>1, <1>9, <1>10, <1>11, <1>12 DEF Routes

LEMMA NfInvNext == NfInv /\ [NetfilterNext]_nfVars => NfInv'
<1> SUFFICES ASSUME NfInv, [NetfilterNext]_nfVars
             PROVE  NfInv'
  OBVIOUS
<1>a. /\ NetfilterTypeOK /\ NfLastUnset /\ NfReportOfOnePacket
      /\ \A s \in Skbs : NfPacketOK(s) /\ NfPassedStamps(s)
      /\ nfPackets \in 0 .. MaxPackets
      /\ nfSkb \in [Skbs -> NfSkbType]
      /\ DOMAIN nfTime \subseteq Skbs
      /\ \A s \in DOMAIN nfTime : nfTime[s] \in NfEntryType
  BY DEF NfInv, NetfilterTypeOK, NfSkbType, NfEntryType
<1>n. ASSUME nfReport' = NfNoReport PROVE NfReportOfOnePacket'
  <2>1. nfReport'.route = "sent" /\ nfReport'.ran = {} /\ nfReport'.used = {}
    BY <1>n DEF NfNoReport
  <2>2. 1 \in DOMAIN Routes["sent"]
    BY DEF Routes
  <2> QED
    BY <2>1, <2>2 DEF NfReportOfOnePacket, Whole
<1>t. ASSUME nfSkb' \in [Skbs -> NfSkbType], DOMAIN nfTime' \subseteq Skbs,
             \A s \in DOMAIN nfTime' : nfTime'[s] \in NfEntryType,
             nfPackets' \in 0 .. MaxPackets
      PROVE  NetfilterTypeOK'
  BY <1>t DEF NetfilterTypeOK, NfSkbType, NfEntryType
<1>z. NoSkb \in NfSkbType
  BY DEF NfSkbType, NoSkb, Routes
<1>1. ASSUME NEW s \in Skbs, NfArrive(s) PROVE NfInv'
  <2>1. PICK route \in DOMAIN Routes, wanted \in BOOLEAN :
           nfSkb' = [nfSkb EXCEPT ![s] = [id |-> nfPackets + 1, route |-> route,
                                          passed |-> 0, ran |-> {}, wanted |-> wanted]]
    BY <1>1 DEF NfArrive
  <2> DEFINE r == [id |-> nfPackets + 1, route |-> route, passed |-> 0, ran |-> {},
                   wanted |-> wanted]
  <2>2. /\ nfPackets < MaxPackets /\ nfPackets' = nfPackets + 1 /\ nfReport' = NfNoReport
        /\ nfTime' = nfTime
    BY <1>1 DEF NfArrive
  <2>3. /\ r \in NfSkbType /\ r.id = nfPackets + 1 /\ r.passed = 0 /\ r.route = route
        /\ r.ran = {}
    BY <1>a, <2>2 DEF NfSkbType
  <2>4. nfSkb' = [nfSkb EXCEPT ![s] = r]
    BY <2>1
  <2> HIDE DEF r
  <2>5. /\ nfSkb' \in [Skbs -> NfSkbType] /\ nfSkb'[s] = r
        /\ \A o \in Skbs : o # s => nfSkb'[o] = nfSkb[o]
    BY <1>a, <2>3, <2>4
  <2>6. NetfilterTypeOK'
    BY <1>a, <1>t, <2>2, <2>5
  <2>7. NfLastUnset'
    BY <1>a, <2>2 DEF NfLastUnset
  <2>8. NfPacketOK(s)' /\ NfPassedStamps(s)'
    <3>1. 0 < Len(Routes[route])
      BY DEF Routes
    <3> QED
      BY <1>a, <2>2, <2>3, <2>5, <3>1 DEF NfPacketOK, NfPassedStamps
  <2>9. ASSUME NEW o \in Skbs, o # s PROVE NfPacketOK(o)' /\ NfPassedStamps(o)'
    <3>1. NfPacketOK(o)'
      <4>1. nfSkb'[o] = nfSkb[o] /\ NfPacketOK(o)
        BY <1>a, <2>5, <2>9
      <4>2. nfSkb[o].id \in 1 .. nfPackets => nfSkb[o].id \in 1 .. nfPackets'
        BY <1>a, <2>2
      <4> QED
        BY <4>1, <4>2 DEF NfPacketOK
    <3>2. NfPassedStamps(o)'
      BY <1>a, <2>2, <2>5, <2>9 DEF NfPassedStamps, NfMet
    <3> QED
      BY <3>1, <3>2
  <2> QED
    BY <1>n, <2>2, <2>6, <2>7, <2>8, <2>9 DEF NfInv
(* A packet at the next hook of its route.                                 *)
<1>p. ASSUME NEW s \in Skbs, nfSkb[s] # NoSkb
      PROVE  /\ nfSkb[s].route \in DOMAIN Routes /\ nfSkb[s].passed \in 0 .. 3
             /\ nfSkb[s].passed \in Nat /\ nfSkb[s].passed < Len(Routes[nfSkb[s].route])
             /\ nfSkb[s] \in NfSkbType /\ nfSkb[s].id \in 1 .. nfPackets
             /\ nfSkb[s].ran \subseteq Hooks
             /\ \A h \in nfSkb[s].ran : /\ h # NextHook(s)
                                         /\ \E i \in 1 .. nfSkb[s].passed :
                                               h = Routes[nfSkb[s].route][i]
             /\ nfSkb[s].passed + 1 # Len(Routes[nfSkb[s].route]) =>
                   /\ nfSkb[s].passed + 1 \in 0 .. 3
                   /\ nfSkb[s].passed + 1 < Len(Routes[nfSkb[s].route])
  <2>1. /\ nfSkb[s].route \in DOMAIN Routes /\ nfSkb[s].passed \in 0 .. 3
        /\ nfSkb[s].passed \in Nat /\ nfSkb[s].passed < Len(Routes[nfSkb[s].route])
        /\ nfSkb[s] \in NfSkbType /\ nfSkb[s].id \in 1 .. nfPackets
        /\ nfSkb[s].ran \subseteq Hooks
        /\ \A h \in nfSkb[s].ran : \E i \in 1 .. nfSkb[s].passed :
              h = Routes[nfSkb[s].route][i]
    BY <1>a, <1>p DEF NfPacketOK, NfSkbType
  <2>2. /\ \A i \in 1 .. nfSkb[s].passed : Routes[nfSkb[s].route][i] # NextHook(s)
        /\ nfSkb[s].passed + 1 # Len(Routes[nfSkb[s].route]) =>
              /\ nfSkb[s].passed + 1 \in 0 .. 3
              /\ nfSkb[s].passed + 1 < Len(Routes[nfSkb[s].route])
    BY <2>1, RouteHooks DEF NextHook
  <2> QED
    BY <2>1, <2>2
<1>2. ASSUME NEW s \in Skbs, NfHook(s) PROVE NfInv'
  <2> DEFINE r    == nfSkb[s]
             route == r.route
             n    == r.passed
             hook == Routes[route][n + 1]
             v    == Stamped(s, hook)
             skb  == [r EXCEPT !.ran = r.ran \cup {hook}]
             after == [skb EXCEPT !.passed = n + 1]
             last == n + 1 = Len(Routes[route])
  <2>0. r # NoSkb
    BY <1>2 DEF NfHook
  <2>2. /\ route \in DOMAIN Routes /\ n \in 0 .. 3 /\ n \in Nat /\ n < Len(Routes[route])
        /\ r \in NfSkbType /\ r.id \in 1 .. nfPackets /\ r.ran \subseteq Hooks
        /\ \A h \in r.ran : h # hook /\ \E i \in 1 .. n : h = Routes[route][i]
        /\ ~last => n + 1 \in 0 .. 3 /\ n + 1 < Len(Routes[route])
    BY <1>p, <2>0 DEF NextHook
  <2>3. /\ hook \in Hooks
        /\ \A i \in 1 .. n : Routes[route][i] # hook
        /\ Started(hook) <=> n = 0
        /\ LastHook(hook) <=> last
    <3>1. hook \in Hooks
      BY <1>2 DEF NfHook, NextHook
    <3> QED
      BY <2>2, <3>1, RouteHooks
  <2>4. /\ skb \in NfSkbType /\ skb.ran = r.ran \cup {hook} /\ skb.route = route
        /\ skb.id = r.id /\ skb.passed = n
    <3>1. r \in NfSkbType /\ r.ran \cup {hook} \in SUBSET Hooks
      BY <2>2, <2>3
    <3> HIDE DEF r, hook
    <3> QED
      BY <3>1 DEF NfSkbType, route, n
  <2>1. /\ store_nf_time(s, hook, skb)
        /\ nfSkb' = [nfSkb EXCEPT ![s] = IF last THEN NoSkb ELSE after]
        /\ nfPackets' = nfPackets
    <3>1. /\ store_nf_time(s, hook, skb) /\ Passed(s, skb) /\ nfPackets' = nfPackets
      BY <1>2 DEF NfHook, NextHook
    <3>2. [skb EXCEPT !.passed = @ + 1] = after
      <4> HIDE DEF skb
      <4> QED
        BY <2>4
    <3>3. nfSkb' = [nfSkb EXCEPT ![s] = IF last THEN NoSkb ELSE [skb EXCEPT !.passed = @ + 1]]
      BY <3>1 DEF Passed
    <3> QED
      BY <3>1, <3>2, <3>3
  <2>5. ~last => /\ after \in NfSkbType /\ after.route = route /\ after.passed = n + 1
                 /\ after.id = r.id /\ after.ran = r.ran \cup {hook}
    <3> HIDE DEF skb, last
    <3>1. ~last => after \in NfSkbType
      BY <2>2, <2>4 DEF NfSkbType
    <3>2. /\ after.passed = n + 1 /\ after.route = skb.route /\ after.id = skb.id
          /\ after.ran = skb.ran
      BY <2>4 DEF NfSkbType
    <3> QED
      BY <2>4, <3>1, <3>2
  <2>v. v = Stamped(s, hook)
    OBVIOUS
  <2>h. Routes[route][n + 1] = hook /\ (IF n + 1 = Len(Routes[route]) THEN last ELSE ~last)
    OBVIOUS
  <2> HIDE DEF v, hook, last, after, skb
  <2>7. /\ v \in NfEntryType
        /\ v.time[hook] = [id |-> r.id, at |-> n + 1]
        /\ \A h \in Hooks : h # hook =>
              v.time[h] = IF s \in DOMAIN nfTime THEN nfTime[s].time[h] ELSE NoStamp
        /\ Started(hook) => v.init = r.id
        /\ ~Started(hook) /\ s \in DOMAIN nfTime => v.init = nfTime[s].init
    BY <1>a, <2>3, <2>v, EntryStamped
  <2>8. /\ nfSkb' \in [Skbs -> NfSkbType]
        /\ nfSkb'[s] = IF last THEN NoSkb ELSE after
        /\ \A o \in Skbs : o # s => nfSkb'[o] = nfSkb[o]
    BY <1>a, <1>z, <2>1, <2>5
  <2>9. NfPacketOK(s)'
    <3> SUFFICES ASSUME ~last
                 PROVE  /\ after.id \in 1 .. nfPackets'
                        /\ after.passed < Len(Routes[after.route])
                        /\ \A h \in after.ran : \E i \in 1 .. after.passed :
                              h = Routes[after.route][i]
      BY <2>8 DEF NfPacketOK
    <3>1. ASSUME NEW h \in after.ran PROVE \E i \in 1 .. n + 1 : h = Routes[route][i]
      <4>1. CASE h = hook
        <5>1. n + 1 \in 1 .. n + 1
          BY <2>2
        <5> QED
          BY <2>h, <4>1, <5>1
      <4>2. CASE h # hook
        BY <2>2, <2>5, <3>1, <4>2
      <4> QED
        BY <4>1, <4>2
    <3> QED
      BY <2>1, <2>2, <2>5, <3>1
  <2>10. \A o \in Skbs : NfPacketOK(o)'
    <3>1. ASSUME NEW o \in Skbs, o # s PROVE NfPacketOK(o)'
      BY <1>a, <2>1, <2>8, <3>1 DEF NfPacketOK
    <3> QED
      BY <2>9, <3>1
  <2>11. CASE ~Started(hook) /\ s \notin DOMAIN nfTime
    <3>0. nfTime' = nfTime /\ nfReport' = NfNoReport
      BY <2>1, <2>11 DEF store_nf_time
    <3>1. NetfilterTypeOK'
      BY <1>a, <1>t, <2>1, <2>8, <3>0
    <3>2. NfLastUnset'
      BY <1>a, <3>0 DEF NfLastUnset
    <3>3. ASSUME NEW o \in Skbs PROVE NfPassedStamps(o)'
      <4>1. CASE o = s
        BY <2>11, <3>0, <4>1 DEF NfPassedStamps
      <4>2. CASE o # s
        BY <1>a, <2>8, <3>0, <4>2 DEF NfPassedStamps, NfMet
      <4> QED
        BY <4>1, <4>2
    <3> QED
      BY <1>n, <2>10, <3>0, <3>1, <3>2, <3>3 DEF NfInv
  (* The last hook: the entry goes.                                        *)
  <2>12. CASE LastHook(hook) /\ (Started(hook) \/ s \in DOMAIN nfTime)
    <3>a. s \in DOMAIN nfTime
      <4>1. ~Started(hook)
        BY <2>12 DEF Started, LastHook
      <4> QED
        BY <2>12, <4>1
    <3>b. /\ nfTime' = Without(nfTime, {s})
          /\ submit_nf_time(skb, v, IF hook = "ip_local_deliver_finish" THEN 1 ELSE 0)
      BY <2>1, <2>v, <2>12, <3>a DEF store_nf_time
    <3>1. \A x \in DOMAIN nfTime' : x \in DOMAIN nfTime /\ x # s /\ nfTime'[x] = nfTime[x]
      BY <3>b DEF Without, Restrict
    <3>2. NetfilterTypeOK'
      BY <1>a, <1>t, <2>1, <2>8, <3>1
    <3>3. NfLastUnset'
      BY <1>a, <3>1 DEF NfLastUnset
    <3>4. ASSUME NEW o \in Skbs PROVE NfPassedStamps(o)'
      BY <1>a, <2>8, <3>1, <3>4 DEF NfPassedStamps, NfMet
    <3>5. NfReportOfOnePacket'
      <4>1. CASE nfReport' = NfNoReport
        BY <1>n, <4>1
      <4>2. CASE nfReport' = Message(skb, v, IF hook = "ip_local_deliver_finish" THEN 1 ELSE 0)
        BY <1>a, <2>0, <2>4, <2>12, <2>v, <3>a, <4>2, ReportOfPacket DEF hook
      <4> QED
        BY <3>b, <4>1, <4>2 DEF submit_nf_time
    <3> QED
      BY <2>10, <3>2, <3>3, <3>4, <3>5 DEF NfInv
  (* Any other hook: the entry is stamped.                                 *)
  <2>13. CASE ~LastHook(hook) /\ (Started(hook) \/ s \in DOMAIN nfTime)
    <3>0. nfTime' = Updated(nfTime, s, v) /\ nfReport' = NfNoReport
      BY <2>1, <2>v, <2>13 DEF store_nf_time
    <3>1. /\ DOMAIN nfTime' = DOMAIN nfTime \cup {s} /\ nfTime'[s] = v
          /\ \A x \in DOMAIN nfTime' : x # s => x \in DOMAIN nfTime /\ nfTime'[x] = nfTime[x]
      BY <3>0 DEF Updated
    <3>2. NetfilterTypeOK'
      BY <1>a, <1>t, <2>1, <2>7, <2>8, <3>1
    <3>3. NfLastUnset'
      <4> SUFFICES ASSUME NEW x \in DOMAIN nfTime', NEW h \in Hooks, LastHook(h)
                   PROVE  ~Set(nfTime'[x].time[h])
        BY DEF NfLastUnset
      <4>1. CASE x = s /\ s \notin DOMAIN nfTime
        BY <2>7, <2>13, <3>1, <4>1 DEF Set
      <4>2. CASE x = s /\ s \in DOMAIN nfTime
        BY <1>a, <2>7, <2>13, <3>1, <4>2 DEF NfLastUnset
      <4>3. CASE x # s
        BY <1>a, <3>1, <4>3 DEF NfLastUnset
      <4> QED
        BY <4>1, <4>2, <4>3
    <3>4. ASSUME NEW o \in Skbs, o # s PROVE NfPassedStamps(o)'
      BY <1>a, <2>8, <3>1, <3>4 DEF NfPassedStamps, NfMet
    <3>5. ASSUME NEW h \in r.ran \cup {hook}
          PROVE  ~Set(v.time[h]) \/ v.time[h].id = r.id
      <4>1. CASE h = hook
        BY <2>7, <4>1
      <4>2. CASE h # hook /\ s \notin DOMAIN nfTime
        BY <2>2, <2>7, <3>5, <4>2 DEF Set
      <4>3. CASE h # hook /\ s \in DOMAIN nfTime
        BY <1>a, <2>0, <2>2, <2>7, <3>5, <4>3 DEF NfPassedStamps
      <4> QED
        BY <4>1, <4>2, <4>3
    <3>6. ASSUME \A i \in 1 .. n + 1 : Routes[route][i] \in r.ran \cup {hook}
          PROVE  /\ v.init = r.id
                 /\ \A i \in 1 .. n + 1 : v.time[Routes[route][i]] = [id |-> r.id, at |-> i]
      <4>1. CASE n = 0
        BY <2>3, <2>7, <2>h, <4>1
      <4>2. CASE n # 0
        <5>1. ~Started(hook) /\ s \in DOMAIN nfTime
          BY <2>3, <2>13, <4>2
        <5>2. \A i \in 1 .. n : Routes[route][i] \in r.ran
          BY <2>2, <2>3, <3>6
        <5>3. NfMet(s)
          BY <5>2 DEF NfMet
        <5>4. /\ nfTime[s].init = r.id
              /\ \A i \in 1 .. n : nfTime[s].time[Routes[route][i]] = [id |-> r.id, at |-> i]
          BY <1>a, <2>0, <4>2, <5>1, <5>3 DEF NfPassedStamps
        <5>5. ASSUME NEW i \in 1 .. n + 1
              PROVE  v.time[Routes[route][i]] = [id |-> r.id, at |-> i]
          <6>1. CASE i = n + 1
            BY <2>7, <2>h, <6>1
          <6>2. CASE i \in 1 .. n
            <7>1. Routes[route][i] \in Hooks /\ Routes[route][i] # hook
              BY <2>2, <2>3, <5>2, <6>2
            <7> QED
              BY <2>7, <5>1, <5>4, <6>2, <7>1
          <6> QED
            BY <2>2, <6>1, <6>2
        <5> QED
          BY <2>7, <5>1, <5>4, <5>5
      <4> QED
        BY <4>1, <4>2
    <3>7. NfPassedStamps(s)'
      <4> SUFFICES ASSUME ~last
                   PROVE  /\ \A h \in after.ran : ~Set(v.time[h]) \/ v.time[h].id = after.id
                          /\ (\A i \in 1 .. after.passed : Routes[after.route][i] \in after.ran) =>
                                /\ v.init = after.id
                                /\ \A i \in 1 .. after.passed :
                                      v.time[Routes[after.route][i]] = [id |-> after.id, at |-> i]
        BY <2>8, <3>1 DEF NfPassedStamps, NfMet
      <4> QED
        BY <2>5, <3>5, <3>6
    <3> QED
      BY <1>n, <2>10, <3>0, <3>2, <3>3, <3>4, <3>7 DEF NfInv
  <2> QED
    BY <2>11, <2>12, <2>13
<1>3. ASSUME NEW s \in Skbs, NfUnseen(s) PROVE NfInv'
  <2> DEFINE r    == nfSkb[s]
             route == r.route
             n    == r.passed
             after == [r EXCEPT !.passed = n + 1]
             last == n + 1 = Len(Routes[route])
  <2>1. /\ r # NoSkb /\ nfSkb' = [nfSkb EXCEPT ![s] = IF last THEN NoSkb ELSE after]
        /\ nfReport' = NfNoReport /\ nfTime' = nfTime /\ nfPackets' = nfPackets
    BY <1>3 DEF NfUnseen, Passed
  <2>2. /\ route \in DOMAIN Routes /\ n \in Nat
        /\ r \in NfSkbType /\ r.id \in 1 .. nfPackets
        /\ \A h \in r.ran : h # NextHook(s) /\ \E i \in 1 .. n : h = Routes[route][i]
        /\ ~last => n + 1 \in 0 .. 3 /\ n + 1 < Len(Routes[route])
    BY <1>p, <2>1
  <2>3. ~last => /\ after \in NfSkbType /\ after.route = route /\ after.passed = n + 1
                 /\ after.id = r.id /\ after.ran = r.ran
    <3> HIDE DEF r, last
    <3> QED
      BY <2>2 DEF NfSkbType, n, route
  <2>h. Routes[route][n + 1] = NextHook(s)
    BY DEF NextHook
  <2> HIDE DEF last, after
  <2>4. /\ nfSkb' \in [Skbs -> NfSkbType]
        /\ nfSkb'[s] = IF last THEN NoSkb ELSE after
        /\ \A o \in Skbs : o # s => nfSkb'[o] = nfSkb[o]
    BY <1>a, <1>z, <2>1, <2>3
  <2>5. NetfilterTypeOK' /\ NfLastUnset'
    BY <1>a, <1>t, <2>1, <2>4 DEF NfLastUnset
  <2>6. ASSUME NEW o \in Skbs, o # s PROVE NfPacketOK(o)' /\ NfPassedStamps(o)'
    BY <1>a, <2>1, <2>4, <2>6 DEF NfPacketOK, NfPassedStamps, NfMet
  <2>7. NfPacketOK(s)'
    BY <2>1, <2>2, <2>3, <2>4 DEF NfPacketOK
  <2>8. NfPassedStamps(s)'
    <3> SUFFICES ASSUME ~last, s \in DOMAIN nfTime
                 PROVE  /\ \A h \in after.ran : \/ ~Set(nfTime[s].time[h])
                                                \/ nfTime[s].time[h].id = after.id
                        /\ ~\A i \in 1 .. after.passed : Routes[after.route][i] \in after.ran
      BY <2>1, <2>4 DEF NfPassedStamps, NfMet
    <3>1. n + 1 \in 1 .. n + 1
      BY <2>2
    <3>2. \A h \in r.ran : ~Set(nfTime[s].time[h]) \/ nfTime[s].time[h].id = r.id
      BY <1>a, <2>1 DEF NfPassedStamps
    <3> QED
      BY <2>2, <2>3, <2>h, <3>1, <3>2
  <2> QED
    BY <1>n, <2>1, <2>5, <2>6, <2>7, <2>8 DEF NfInv
<1>4. ASSUME NEW s \in Skbs, NfDrop(s) PROVE NfInv'
  <2>1. /\ nfSkb' = [nfSkb EXCEPT ![s] = NoSkb] /\ nfReport' = NfNoReport
        /\ nfTime' = nfTime /\ nfPackets' = nfPackets
    BY <1>4 DEF NfDrop
  <2>3. /\ nfSkb' \in [Skbs -> NfSkbType] /\ nfSkb'[s] = NoSkb
        /\ \A o \in Skbs : o # s => nfSkb'[o] = nfSkb[o]
    BY <1>a, <1>z, <2>1
  <2>4. NetfilterTypeOK'
    BY <1>a, <1>t, <2>1, <2>3
  <2>5. NfLastUnset'
    BY <1>a, <2>1 DEF NfLastUnset
  <2>6. \A o \in Skbs : NfPacketOK(o)' /\ NfPassedStamps(o)'
    BY <1>a, <2>1, <2>3 DEF NfPacketOK, NfPassedStamps, NfMet
  <2> QED
    BY <1>n, <2>1, <2>4, <2>5, <2>6 DEF NfInv
<1>5. ASSUME NEW s \in Skbs, NfEvict(s) PROVE NfInv'
  <2>1. /\ nfTime' = Without(nfTime, {s}) /\ nfReport' = NfNoReport
        /\ nfSkb' = nfSkb /\ nfPackets' = nfPackets
    BY <1>5 DEF NfEvict
  <2>2. \A x \in DOMAIN nfTime' : x \in DOMAIN nfTime /\ nfTime'[x] = nfTime[x]
    BY <2>1 DEF Without, Restrict
  <2>3. NetfilterTypeOK'
    BY <1>a, <1>t, <2>1, <2>2
  <2>4. NfLastUnset'
    BY <1>a, <2>2 DEF NfLastUnset
  <2>5. ASSUME NEW o \in Skbs PROVE NfPacketOK(o)' /\ NfPassedStamps(o)'
    <3>1. NfPacketOK(o)' /\ (NfMet(o)' <=> NfMet(o))
      BY <1>a, <2>1 DEF NfPacketOK, NfMet
    <3>2. ASSUME o \in DOMAIN nfTime' PROVE o \in DOMAIN nfTime /\ nfTime'[o] = nfTime[o]
      BY <2>2, <3>2
    <3>3. NfPassedStamps(o)
      BY <1>a
    <3>4. NfPassedStamps(o)'
      BY <2>1, <3>1, <3>2, <3>3 DEF NfPassedStamps
    <3> QED
      BY <3>1, <3>4
  <2> QED
    BY <1>n, <2>1, <2>3, <2>4, <2>5 DEF NfInv
<1>6. CASE UNCHANGED nfVars
  <2>1. nfSkb' = nfSkb /\ nfTime' = nfTime /\ nfPackets' = nfPackets /\ nfReport' = nfReport
    BY <1>6 DEF nfVars
  <2>2. NetfilterTypeOK' /\ NfLastUnset'
    BY <1>a, <2>1 DEF NetfilterTypeOK, NfLastUnset
  <2>3. \A s \in Skbs : NfPacketOK(s)' /\ NfPassedStamps(s)'
    BY <1>a, <2>1 DEF NfPacketOK, NfPassedStamps, NfMet
  <2>4. NfReportOfOnePacket'
    BY <1>a, <2>1 DEF NfReportOfOnePacket, Whole
  <2> QED
    BY <2>2, <2>3, <2>4 DEF NfInv
<1> QED
  BY <1>1, <1>2, <1>3, <1>4, <1>5, <1>6 DEF NetfilterNext

LEMMA NfInvHolds == NetfilterSpec => []NfInv
  BY NfInvInit, NfInvNext, PTL DEF NetfilterSpec

(* A report uses the time of another packet only at a hook whose probe did *)
(* not run on the packet it is of, whatever a dropped packet left in the   *)
(* entry of the same sk_buff; and a packet that is delivered locally or    *)
(* sent and met every probe of its route is reported with all its times    *)
(* and with its own addresses (store_nf_time, submit_nf_time).             *)
THEOREM NetfilterReportsOnePacket == NetfilterSpec => []NfReportOfOnePacket
<1>1. NfInv => NfReportOfOnePacket
  BY DEF NfInv
<1> QED
  BY <1>1, NfInvHolds, PTL
=============================================================================
