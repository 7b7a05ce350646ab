----------------------------- MODULE IpcProofs ------------------------------
(***************************************************************************)
(* ipcwatcher, for every set of threads, sockets and segments, and any     *)
(* number of calls and events.                                             *)
(***************************************************************************)
EXTENDS UdsTrace, ShmTrace, TLAPS

----------------------------------------------------------------------------
(* UdsTrace: what is reported of a socket only advances.                   *)
USE UdsAssumption

Socks       == UdsSockets \cup {NoSock}
UdEventType == [key : Socks, first : Nat, last : Nat, payload : Nat, recv : Socks, to : Socks]
UdCallType  == {UdIdle}
   \cup [pc : {"fill", "filled"}, from : UdsSockets, to : UdsSockets, nr : Nat, at : UdsElements]
   \cup [pc : {"build"}, from : UdsSockets, nr : Nat]
   \cup [pc : {"payload"}, from : UdsSockets, nr : Nat, at : UdsElements]
   \cup [pc : Receiving, key : UdsSockets, by : UdsSockets, at : UdsElements, since : Nat,
         event : UdEventType]
   \cup [pc : {"delete"}, key : UdsSockets]

(* Type invariant of the socket trace.                                     *)
UdTypeOK ==
    /\ udPeer \in [UdsSockets -> Socks]
    /\ udElement \in [UdsElements -> UdEventType]
    /\ udCall \in [UdsThreads -> UdCallType]
    /\ udSends \in Nat
    /\ udLast \in [UdsSockets -> Nat]
    /\ udStale \subseteq UdsThreads

(* A key has one entry at most.                                            *)
UdOneEntry ==
    \A e, f \in UdsElements :
       udElement[e].key = udElement[f].key /\ e # f => udElement[e].key = NoSock

(* No message has a number that was not given yet.                         *)
UdBounded ==
    /\ \A e \in UdsElements : /\ udElement[e].first =< udSends /\ udElement[e].last =< udSends
                              /\ udElement[e].payload =< udSends
    /\ \A s \in UdsSockets : udLast[s] =< udSends

(* A thread's element is in the map for its key, unless it was taken away. *)
UdThreadOK(t) ==
    /\ t \in udStale => udCall[t].pc \in Filling \cup Receiving
    /\ t \notin udStale /\ udCall[t].pc \in Filling => udElement[udCall[t].at].key = udCall[t].from
    /\ t \notin udStale /\ udCall[t].pc \in Receiving => udElement[udCall[t].at].key = udCall[t].key
    /\ t \in udStale /\ udCall[t].pc \in Receiving => t \in udSpoilt
    /\ udCall[t].pc \in {"fill", "filled", "build", "payload"} => udCall[t].nr =< udSends
    /\ udCall[t].pc \in Receiving => udCall[t].since =< udSends

(* A socket's sends that do not overlap: one thread at a time, and the     *)
(* element it fills is the one in the map.                                 *)
UdOneSender(k) ==
    k \notin udUneven =>
       /\ \A t, u \in UdsThreads : Sends(t, k) /\ Sends(u, k) => t = u
       /\ \A t \in UdsThreads, e \in UdsElements :
             Sends(t, k) /\ udCall[t].pc \in Filling /\ udElement[e].key = k =>
                udCall[t].at = e /\ t \notin udStale

(* How far the element is that a sender is at work on.                     *)
UdProgress(event, call) ==
    /\ call.pc = "fill" => event.first =< call.nr
    /\ call.pc = "filled" => event.first = call.nr
    /\ call.pc \in {"build", "payload"} => event.last = call.nr

(* The receivers that have the element have not copied anything yet.       *)
UdUntouched(e) ==
    \A t \in UdsThreads : t \in Readers(e) /\ t \notin udStale => udCall[t].pc = "mark"

(* The entry of such a socket: its parts are in order, and later than what *)
(* was copied.                                                             *)
UdEntryOK(e) ==
    LET event == udElement[e]
    IN  event.key # NoSock /\ event.key \notin udUneven /\ e \notin udMixed =>
           /\ event.payload =< event.last /\ event.last =< event.first
           /\ \A t \in UdsThreads : Sends(t, event.key) => UdProgress(event, udCall[t])
           /\ UdUntouched(e) =>
                 /\ \A nr \in Messages(event) : nr > udLast[event.key]
                 /\ \A t \in UdsThreads : Sends(t, event.key) => udCall[t].nr > udLast[event.key]

(* What the copy of a receiver has from the element.                       *)
UdSame(call, event) ==
    /\ call.pc \in {"copied", "read", "report"} => call.event.first = event.first
    /\ call.pc \in {"read", "report"} => call.event.last = event.last
    /\ call.pc = "report" => call.event.payload = event.payload

(* A receiver that has its element to itself.                              *)
UdReaderOK(t) ==
    LET call  == udCall[t]
        event == udElement[call.at]
    IN  call.pc \in Receiving /\ t \notin udSpoilt =>
           /\ call.at \notin udMixed
           /\ \A u \in UdsThreads : u \in Readers(call.at) => u = t
           /\ call.pc # "mark" => event.recv = call.by
           /\ call.pc \in {"copied", "read", "report"} => call.event.recv = call.by
           /\ call.key \notin udUneven =>
                 /\ \A nr \in Messages(event) : nr > call.since
                 /\ \A nr \in Messages(call.event) : nr > call.since
                 /\ \A u \in UdsThreads : Sends(u, call.key) => udCall[u].nr > call.since
                 /\ t \notin udMoved => UdSame(call, event)

UdInv ==
    /\ UdTypeOK
    /\ UdOneEntry
    /\ UdBounded
    /\ \A t \in UdsThreads : UdThreadOK(t)
    /\ \A k \in UdsSockets : UdOneSender(k)
    /\ \A e \in UdsElements : UdEntryOK(e)
    /\ \A t \in UdsThreads : UdReaderOK(t)

(* The fields of a thread's call.                                          *)
LEMMA CallKinds ==
  ASSUME NEW c \in UdCallType
  PROVE  /\ c.pc \in {"idle", "fill", "filled", "build", "payload", "delete"} \cup Receiving
         /\ c.pc = "idle" <=> c = UdIdle
         /\ c.pc \in {"fill", "filled"} => c.to \in UdsSockets
         /\ c.pc \in {"fill", "filled", "build", "payload"} => c.from \in UdsSockets /\ c.nr \in Nat
         /\ c.pc \in Filling \cup Receiving => c.at \in UdsElements
         /\ c.pc \in Receiving => /\ c.key \in UdsSockets /\ c.by \in UdsSockets /\ c.since \in Nat
                                  /\ c.event \in UdEventType
         /\ c.pc = "delete" => c.key \in UdsSockets
  BY DEF UdCallType, UdIdle, Filling, Receiving

LEMMA ZeroFields ==
  ASSUME NEW key \in Socks
  PROVE  /\ ZeroEvent(key) \in UdEventType /\ ZeroEvent(key).key = key
         /\ Messages(ZeroEvent(key)) = {} /\ ZeroEvent(key).first = 0
         /\ ZeroEvent(key).last = 0 /\ ZeroEvent(key).payload = 0
  BY DEF ZeroEvent, UdEventType, Socks, Messages

LEMMA UdInvInit == UdsInit => UdInv
<1> SUFFICES ASSUME UdsInit PROVE UdInv
  OBVIOUS
<1>1. /\ \A e \in UdsElements : udElement[e].key = NoSock /\ udElement[e].first = 0
                                /\ udElement[e].last = 0 /\ udElement[e].payload = 0
      /\ \A t \in UdsThreads : udCall[t] = UdIdle /\ udCall[t].pc = "idle"
      /\ udSends = 0 /\ udStale = {} /\ \A s \in UdsSockets : udLast[s] = 0
  BY DEF UdsInit, ZeroEvent, UdIdle
<1>2. UdTypeOK
  BY <1>1, ZeroFields DEF UdsInit, UdTypeOK, Socks, UdCallType
<1>3. UdOneEntry /\ UdBounded
  BY <1>1 DEF UdOneEntry, UdBounded
<1>4. \A t \in UdsThreads : UdThreadOK(t) /\ UdReaderOK(t)
  BY <1>1 DEF UdThreadOK, UdReaderOK, Filling, Receiving
<1>5. \A k \in UdsSockets : UdOneSender(k)
  BY <1>1 DEF UdOneSender, Sends
<1>6. \A e \in UdsElements : UdEntryOK(e)
  BY <1>1 DEF UdEntryOK
<1> QED
  BY <1>2, <1>3, <1>4, <1>5, <1>6 DEF UdInv

(* A thread that a step leaves alone, or whose element it takes away.      *)
LEMMA ThreadKept ==
  ASSUME UdInv, NEW u \in UdsThreads, udCall'[u] = udCall[u],
         udSends' \in Nat, udSends' >= udSends,
         u \in udStale => u \in udStale',
         u \in udStale' /\ u \notin udStale => udCall[u].pc \in Filling \cup Receiving,
         u \in udStale' /\ udCall[u].pc \in Receiving => u \in udSpoilt',
         u \notin udStale' /\ udCall[u].pc \in Filling \cup Receiving =>
            udElement'[udCall[u].at].key = udElement[udCall[u].at].key
  PROVE  UdThreadOK(u)'
<1>1. UdThreadOK(u) /\ udCall[u] \in UdCallType /\ udSends \in Nat
  BY DEF UdInv, UdTypeOK
<1>2. /\ udCall[u].pc \in {"fill", "filled", "build", "payload"} => udCall[u].nr =< udSends'
      /\ udCall[u].pc \in Receiving => udCall[u].since =< udSends'
  BY <1>1, CallKinds DEF UdThreadOK
<1> QED
  BY <1>1, <1>2 DEF UdThreadOK

(* An entry that a step leaves as it is.                                   *)
LEMMA EntryKept ==
  ASSUME UdInv, NEW e \in UdsElements, udElement'[e] = udElement[e],
         e \notin udMixed' => e \notin udMixed,
         udElement[e].key \notin udUneven' => udElement[e].key \notin udUneven,
         UdUntouched(e)' => /\ UdUntouched(e)
                            /\ udLast'[udElement[e].key] = udLast[udElement[e].key],
         udElement[e].key # NoSock /\ udElement[e].key \notin udUneven' =>
            \A x \in UdsThreads : Sends(x, udElement[e].key)' =>
               /\ Sends(x, udElement[e].key) /\ udCall'[x].nr = udCall[x].nr
               /\ UdProgress(udElement[e], udCall[x]) => UdProgress(udElement[e], udCall'[x])
  PROVE  UdEntryOK(e)'
<1>1. UdEntryOK(e)
  BY DEF UdInv
<1> SUFFICES ASSUME udElement[e].key # NoSock, udElement[e].key \notin udUneven', e \notin udMixed'
             PROVE  UdEntryOK(e)'
  BY DEF UdEntryOK
<1>2. /\ udElement[e].payload =< udElement[e].last /\ udElement[e].last =< udElement[e].first
      /\ \A x \in UdsThreads : Sends(x, udElement[e].key) => UdProgress(udElement[e], udCall[x])
      /\ UdUntouched(e) =>
            /\ \A nr \in Messages(udElement[e]) : nr > udLast[udElement[e].key]
            /\ \A x \in UdsThreads :
                  Sends(x, udElement[e].key) => udCall[x].nr > udLast[udElement[e].key]
  BY <1>1 DEF UdEntryOK
<1>3. \A x \in UdsThreads : Sends(x, udElement[e].key)' => UdProgress(udElement[e], udCall'[x])
  BY <1>2
<1>4. UdUntouched(e)' =>
         /\ \A nr \in Messages(udElement[e]) : nr > udLast'[udElement[e].key]
         /\ \A x \in UdsThreads :
               Sends(x, udElement[e].key)' => udCall'[x].nr > udLast'[udElement[e].key]
  BY <1>2
<1> QED
  BY <1>2, <1>3, <1>4 DEF UdEntryOK

(* A receiver that a step leaves alone, with its element.                  *)
LEMMA ReaderKept ==
  ASSUME UdInv, NEW u \in UdsThreads, udCall'[u] = udCall[u],
         udCall[u].pc \in Receiving /\ u \notin udSpoilt' =>
            /\ u \notin udSpoilt
            /\ udElement'[udCall[u].at] = udElement[udCall[u].at]
            /\ udCall[u].at \notin udMixed => udCall[u].at \notin udMixed'
            /\ \A x \in UdsThreads : x \in Readers(udCall[u].at)' => x \in Readers(udCall[u].at)
            /\ u \notin udMoved' => u \notin udMoved
            /\ udCall[u].key \notin udUneven' =>
                  /\ udCall[u].key \notin udUneven
                  /\ \A x \in UdsThreads : Sends(x, udCall[u].key)' =>
                        \/ udCall'[x].nr > udCall[u].since
                        \/ Sends(x, udCall[u].key) /\ udCall'[x].nr = udCall[x].nr
  PROVE  UdReaderOK(u)'
<1> SUFFICES ASSUME udCall[u].pc \in Receiving, u \notin udSpoilt' PROVE UdReaderOK(u)'
  BY DEF UdReaderOK
<1> DEFINE call  == udCall[u]
           event == udElement[call.at]
<1>1. /\ call.at \notin udMixed
      /\ \A x \in UdsThreads : x \in Readers(call.at) => x = u
      /\ call.pc # "mark" => event.recv = call.by
      /\ call.pc \in {"copied", "read", "report"} => call.event.recv = call.by
      /\ call.key \notin udUneven =>
            /\ \A nr \in Messages(event) : nr > call.since
            /\ \A nr \in Messages(call.event) : nr > call.since
            /\ \A x \in UdsThreads : Sends(x, call.key) => udCall[x].nr > call.since
            /\ u \notin udMoved => UdSame(call, event)
  BY DEF UdInv, UdReaderOK
<1>2. udElement'[call.at] = event /\ call.at \notin udMixed'
  BY <1>1
<1>3. \A x \in UdsThreads : x \in Readers(call.at)' => x = u
  BY <1>1
<1>4. ASSUME call.key \notin udUneven'
      PROVE  /\ \A nr \in Messages(event) : nr > call.since
             /\ \A nr \in Messages(call.event) : nr > call.since
             /\ \A x \in UdsThreads : Sends(x, call.key)' => udCall'[x].nr > call.since
             /\ u \notin udMoved' => UdSame(call, event)
  <2>1. /\ call.key \notin udUneven
        /\ \A x \in UdsThreads : Sends(x, call.key)' =>
              \/ udCall'[x].nr > call.since
              \/ Sends(x, call.key) /\ udCall'[x].nr = udCall[x].nr
        /\ u \notin udMoved' => u \notin udMoved
    BY <1>4
  <2> QED
    BY <1>1, <2>1
<1> QED
  BY <1>1, <1>2, <1>3, <1>4 DEF UdReaderOK

(* The sender writes a part of its message into the element it holds.      *)
LEMMA SenderWrites ==
  ASSUME UdInv, UdTypeOK', NEW t \in UdsThreads, NEW w, NEW v,
         udCall[t].pc \in Filling,
         udCall' = [udCall EXCEPT ![t] = w],
         w.from = udCall[t].from, w.nr = udCall[t].nr,
         \/ w.pc = "filled" /\ w.at = udCall[t].at /\ udStale' = udStale
         \/ w.pc = "build" /\ udStale' = udStale \ {t},
         udElement' = [udElement EXCEPT ![udCall[t].at] = v],
         v.key = udElement[udCall[t].at].key, v.recv = udElement[udCall[t].at].recv,
         v.first \in {udElement[udCall[t].at].first, udCall[t].nr},
         v.last \in {udElement[udCall[t].at].last, udCall[t].nr},
         v.payload \in {udElement[udCall[t].at].payload, udCall[t].nr},
         /\ udElement[udCall[t].at].payload =< udElement[udCall[t].at].last
         /\ udElement[udCall[t].at].last =< udElement[udCall[t].at].first
         /\ UdProgress(udElement[udCall[t].at], udCall[t])
         => v.payload =< v.last /\ v.last =< v.first /\ UdProgress(v, w),
         udMixed' = IF t \in udStale THEN udMixed \cup {udCall[t].at} ELSE udMixed,
         udSpoilt' = IF t \in udStale THEN udSpoilt \cup Readers(udCall[t].at) ELSE udSpoilt,
         udMoved' = udMoved \cup Readers(udCall[t].at),
         udSends' = udSends, udLast' = udLast, udUneven' = udUneven
  PROVE  UdInv'
<1>0. PICK call, e, k, n :
        call = udCall[t] /\ e = udCall[t].at /\ k = udCall[t].from /\ n = udCall[t].nr
  OBVIOUS
<1>1. /\ call \in UdCallType /\ UdThreadOK(t) /\ udSends \in Nat
      /\ e \in UdsElements /\ k \in UdsSockets /\ n \in Nat /\ n =< udSends
      /\ Sends(t, k) /\ call.pc \notin Receiving
  <2>1. call \in UdCallType /\ UdThreadOK(t) /\ udSends \in Nat
    BY <1>0 DEF UdInv, UdTypeOK
  <2>2. call.pc \in {"fill", "filled", "payload"}
    BY <1>0 DEF Filling
  <2> QED
    BY <1>0, <2>1, <2>2, CallKinds DEF UdThreadOK, Sends, Receiving
<1>2. /\ udCall'[t] = w /\ \A u \in UdsThreads : u # t => udCall'[u] = udCall[u]
      /\ udElement'[e] = v /\ \A f \in UdsElements : f # e => udElement'[f] = udElement[f]
  BY <1>0, <1>1 DEF UdInv, UdTypeOK
<1>3. /\ w.pc \notin Receiving /\ w \in UdCallType /\ v \in UdEventType
      /\ \A u \in UdsThreads : \A s : /\ Sends(u, s)' <=> Sends(u, s)
                                      /\ udCall[u].nr = udCall'[u].nr
  <2>1. w.pc \notin Receiving /\ w \in UdCallType /\ v \in UdEventType
    BY <1>0, <1>1, <1>2 DEF Receiving, UdTypeOK
  <2>2. call.pc \in {"fill", "filled", "build", "payload"}
        /\ w.pc \in {"fill", "filled", "build", "payload"}
    BY <1>0 DEF Filling
  <2> QED
    BY <1>0, <1>2, <2>1, <2>2 DEF Sends
<1>4. \A f : \A x : x \in Readers(f)' <=> x \in Readers(f)
  BY <1>0, <1>1, <1>2, <1>3 DEF Readers
<1>5. /\ \A u \in UdsThreads : u # t => (u \in udStale' <=> u \in udStale)
      /\ w.pc = "filled" => (t \in udStale' <=> t \in udStale)
      /\ w.pc = "build" => t \notin udStale'
  BY <1>0
<1>6. \A f \in UdsElements : UdUntouched(f)' => UdUntouched(f)
  BY <1>0, <1>1, <1>2, <1>4, <1>5 DEF UdUntouched, Readers
<1>7. \A f \in UdsElements : udElement'[f].key = udElement[f].key
  BY <1>0, <1>2
<1>8. UdOneEntry' /\ UdBounded'
  <2>1. UdOneEntry'
    BY <1>0, <1>7 DEF UdInv, UdOneEntry
  <2>2. UdBounded
    BY <1>0 DEF UdInv
  <2>3. v.first =< udSends /\ v.last =< udSends /\ v.payload =< udSends
    BY <1>0, <1>1, <2>2 DEF UdBounded
  <2> QED
    BY <1>0, <1>2, <2>1, <2>2, <2>3 DEF UdBounded
<1>9. ASSUME NEW u \in UdsThreads PROVE UdThreadOK(u)'
  <2>1. CASE u = t
    BY <1>0, <1>1, <1>2, <1>3, <1>5, <1>7, <2>1 DEF UdThreadOK, Filling, Receiving
  <2>2. CASE u # t
    <3>1. u \in udStale' /\ udCall[u].pc \in Receiving => u \in udSpoilt'
      BY <1>0, <1>5, <2>2 DEF UdInv, UdThreadOK
    <3>2. udCall[u].pc \in Filling \cup Receiving =>
             udElement'[udCall[u].at].key = udElement[udCall[u].at].key
      BY <1>0, <1>7, CallKinds DEF UdInv, UdTypeOK
    <3> QED
      BY <1>0, <1>1, <1>2, <1>5, <2>2, <3>1, <3>2, ThreadKept
  <2> QED
    BY <1>0, <2>1, <2>2
<1>10. ASSUME NEW s \in UdsSockets PROVE UdOneSender(s)'
  <2>1. UdOneSender(s)
    BY <1>0 DEF UdInv
  <2>2. \A u \in UdsThreads : udCall'[u].pc \in Filling =>
           udCall[u].pc \in Filling /\ udCall'[u].at = udCall[u].at
                                    /\ (u \in udStale' <=> u \in udStale)
    BY <1>0, <1>1, <1>2, <1>5 DEF Filling
  <2> QED
    BY <1>0, <1>3, <1>7, <2>1, <2>2 DEF UdOneSender
<1>11. ASSUME NEW f \in UdsElements, f # e PROVE UdEntryOK(f)'
  <2>1. udElement[f].key # NoSock /\ udElement[f].key \notin udUneven' =>
            \A x \in UdsThreads : Sends(x, udElement[f].key)' =>
               /\ Sends(x, udElement[f].key) /\ udCall'[x].nr = udCall[x].nr
               /\ UdProgress(udElement[f], udCall[x]) => UdProgress(udElement[f], udCall'[x])
    <3> SUFFICES ASSUME udElement[f].key # NoSock, udElement[f].key \notin udUneven',
                        NEW x \in UdsThreads, Sends(x, udElement[f].key)'
                 PROVE  /\ Sends(x, udElement[f].key) /\ udCall'[x].nr = udCall[x].nr
                        /\ UdProgress(udElement[f], udCall[x]) =>
                              UdProgress(udElement[f], udCall'[x])
      BY <1>0
    <3>1. Sends(x, udElement[f].key) /\ udElement[f].key \in UdsSockets
      BY <1>0, <1>3 DEF UdInv, UdTypeOK, UdEventType, Socks
    <3>2. x # t
      BY <1>0, <1>11, <3>1 DEF UdInv, UdOneSender
    <3> QED
      BY <1>0, <1>2, <3>1, <3>2
  <2>2. UdUntouched(f)' => UdUntouched(f)
    BY <1>0, <1>6
  <2> QED
    BY <1>0, <1>2, <1>11, <2>1, <2>2, EntryKept
<1>12. UdEntryOK(e)'
  <2> SUFFICES ASSUME v.key # NoSock, v.key \notin udUneven, e \notin udMixed'
               PROVE  UdEntryOK(e)'
    BY <1>0, <1>2 DEF UdEntryOK
  <2>1. t \notin udStale /\ e \notin udMixed /\ v.key = k /\ udElement[e].key = k
    BY <1>0, <1>1 DEF UdThreadOK
  <2>2. /\ udElement[e].payload =< udElement[e].last /\ udElement[e].last =< udElement[e].first
        /\ \A x \in UdsThreads : Sends(x, k) => UdProgress(udElement[e], udCall[x])
        /\ UdUntouched(e) =>
              /\ \A nr \in Messages(udElement[e]) : nr > udLast[k]
              /\ \A x \in UdsThreads : Sends(x, k) => udCall[x].nr > udLast[k]
    <3>1. UdEntryOK(e)
      BY <1>1 DEF UdInv
    <3>2. k # NoSock /\ k \notin udUneven
      BY <2>1
    <3> QED
      BY <2>1, <3>1, <3>2 DEF UdEntryOK
  <2>3. v.payload =< v.last /\ v.last =< v.first /\ UdProgress(v, w)
    BY <1>0, <1>1, <2>2
  <2>4. \A x \in UdsThreads : Sends(x, k)' => x = t
    BY <1>0, <1>1, <1>3, <2>1 DEF UdInv, UdOneSender
  <2>5. \A x \in UdsThreads : Sends(x, k)' => UdProgress(v, udCall'[x])
    BY <1>0, <1>2, <2>3, <2>4
  <2>6. UdUntouched(e)' =>
           /\ \A nr \in Messages(v) : nr > udLast'[k]
           /\ \A x \in UdsThreads : Sends(x, k)' => udCall'[x].nr > udLast'[k]
    <3> SUFFICES ASSUME UdUntouched(e)'
                 PROVE  /\ \A nr \in Messages(v) : nr > udLast[k]
                        /\ \A x \in UdsThreads : Sends(x, k)' => udCall'[x].nr > udLast[k]
      BY <1>0
    <3>1. /\ \A nr \in Messages(udElement[e]) : nr > udLast[k]
          /\ \A x \in UdsThreads : Sends(x, k) => udCall[x].nr > udLast[k]
      BY <1>0, <1>1, <1>6, <2>2
    <3>2. \A nr \in Messages(v) : nr = n \/ nr \in Messages(udElement[e])
      BY <1>0 DEF Messages
    <3> QED
      BY <1>0, <1>1, <1>3, <3>1, <3>2
  <2> QED
    BY <1>0, <1>2, <2>1, <2>3, <2>5, <2>6 DEF UdEntryOK
<1>13. ASSUME NEW u \in UdsThreads PROVE UdReaderOK(u)'
  <2> DEFINE a == udCall[u].at
  <2>1. CASE udCall'[u].pc \notin Receiving
    BY <1>0, <2>1 DEF UdReaderOK
  <2>2. CASE udCall'[u].pc \in Receiving /\ u \in udSpoilt'
    BY <1>0, <2>2 DEF UdReaderOK
  <2>3. CASE udCall'[u].pc \in Receiving /\ u \notin udSpoilt' /\ a # e
    <3>1. u # t /\ udCall'[u] = udCall[u] /\ a \in UdsElements
      BY <1>0, <1>2, <1>3, <2>3, CallKinds DEF UdInv, UdTypeOK
    <3> QED
      BY <1>0, <1>2, <1>3, <1>4, <2>3, <3>1, ReaderKept
  <2>4. CASE udCall'[u].pc \in Receiving /\ u \notin udSpoilt' /\ a = e
    <3>1. u # t /\ udCall'[u] = udCall[u]
      BY <1>0, <1>2, <1>3, <2>4
    <3>2. u \in Readers(e)
      BY <1>0, <2>4, <3>1 DEF Readers
    <3>3. t \notin udStale /\ u \notin udSpoilt /\ udMixed' = udMixed /\ u \in udMoved'
      BY <1>0, <2>4, <3>2
    <3>4. udElement[e].key = k /\ udElement[e].key = udCall[u].key
      BY <1>0, <1>1, <2>4, <3>1, <3>3 DEF UdInv, UdThreadOK
    <3>5. /\ e \notin udMixed
          /\ \A x \in UdsThreads : x \in Readers(e) => x = u
          /\ udCall[u].pc # "mark" => udElement[e].recv = udCall[u].by
          /\ udCall[u].pc \in {"copied", "read", "report"} => udCall[u].event.recv = udCall[u].by
          /\ k \notin udUneven =>
                /\ \A nr \in Messages(udElement[e]) : nr > udCall[u].since
                /\ \A nr \in Messages(udCall[u].event) : nr > udCall[u].since
                /\ \A x \in UdsThreads : Sends(x, k) => udCall[x].nr > udCall[u].since
      BY <1>0, <2>4, <3>1, <3>3, <3>4 DEF UdInv, UdReaderOK
    <3>6. k \notin udUneven =>
             /\ \A nr \in Messages(v) : nr > udCall[u].since
             /\ \A x \in UdsThreads : Sends(x, k)' => udCall'[x].nr > udCall[u].since
      <4>1. \A nr \in Messages(v) : nr = n \/ nr \in Messages(udElement[e])
        BY <1>0 DEF Messages
      <4> QED
        BY <1>0, <1>1, <1>3, <3>5, <4>1
    <3>7. \A x \in UdsThreads : x \in Readers(e)' => x = u
      BY <1>0, <1>4, <3>5
    <3> QED
      BY <1>0, <1>2, <2>4, <3>1, <3>3, <3>4, <3>5, <3>6, <3>7 DEF UdReaderOK
  <2> QED
    BY <1>0, <2>1, <2>2, <2>3, <2>4
<1> QED
  BY <1>8, <1>9, <1>10, <1>11, <1>12, <1>13 DEF UdInv

(* The receiver copies a part of the element it has.                       *)
LEMMA ReaderCopies ==
  ASSUME UdInv, UdTypeOK', NEW t \in UdsThreads, NEW w, NEW nr \in Nat,
         udCall[t].pc \in {"copy", "copied", "read"},
         udCall' = [udCall EXCEPT ![t] = w],
         w.pc \in {"copied", "read", "report"},
         w.key = udCall[t].key, w.by = udCall[t].by, w.at = udCall[t].at, w.since = udCall[t].since,
         udElement' = udElement,
         nr \in {udElement[udCall[t].at].first, udElement[udCall[t].at].last,
                 udElement[udCall[t].at].payload},
         \A x \in Messages(w.event) :
            x \in Messages(udCall[t].event) \/ x \in Messages(udElement[udCall[t].at]),
         /\ udElement[udCall[t].at].recv = udCall[t].by
         /\ udCall[t].pc \in {"copied", "read", "report"} => udCall[t].event.recv = udCall[t].by
         => w.event.recv = udCall[t].by,
         UdSame(udCall[t], udElement[udCall[t].at]) => UdSame(w, udElement[udCall[t].at]),
         udLast' = IF t \notin udSpoilt /\ nr > udLast[udCall[t].key]
                   THEN [udLast EXCEPT ![udCall[t].key] = nr] ELSE udLast,
         udSends' = udSends, udUneven' = udUneven, udStale' = udStale, udMixed' = udMixed,
         udMoved' = udMoved, udSpoilt' = udSpoilt
  PROVE  UdInv'
<1>0. PICK call, e, k :
        call = udCall[t] /\ e = udCall[t].at /\ k = udCall[t].key
  OBVIOUS
<1>1. /\ call \in UdCallType /\ UdThreadOK(t) /\ udSends \in Nat /\ UdBounded
      /\ e \in UdsElements /\ k \in UdsSockets /\ call.pc \in Receiving /\ w.pc \in Receiving
      /\ call.pc # "mark" /\ call.pc \notin Filling /\ w.pc \notin Filling
      /\ udElement[e] \in UdEventType
  <2>1. call \in UdCallType /\ UdThreadOK(t) /\ udSends \in Nat /\ UdBounded
    BY <1>0 DEF UdInv, UdTypeOK
  <2>2. /\ call.pc \in Receiving /\ w.pc \in Receiving
        /\ call.pc # "mark" /\ call.pc \notin Filling /\ w.pc \notin Filling
    BY <1>0 DEF Receiving, Filling
  <2>3. e \in UdsElements /\ k \in UdsSockets
    BY <1>0, <2>1, <2>2, CallKinds
  <2> QED
    BY <2>1, <2>2, <2>3 DEF UdInv, UdTypeOK
<1>2. udCall'[t] = w /\ \A u \in UdsThreads : u # t => udCall'[u] = udCall[u]
  BY <1>0 DEF UdInv, UdTypeOK
<1>3. \A u \in UdsThreads : \A s : Sends(u, s)' <=> Sends(u, s) /\ u # t
  <2>1. call.pc \notin {"fill", "filled", "build", "payload"}
        /\ w.pc \notin {"fill", "filled", "build", "payload"}
    BY <1>0
  <2> QED
    BY <1>0, <1>2, <2>1 DEF Sends
<1>4. \A f : \A x : x \in Readers(f)' <=> x \in Readers(f)
  BY <1>0, <1>1, <1>2 DEF Readers
<1>5. \A f \in UdsElements : UdUntouched(f)' => UdUntouched(f) /\ ~(f = e /\ t \notin udStale)
  <2> SUFFICES ASSUME NEW f \in UdsElements, UdUntouched(f)'
               PROVE  UdUntouched(f) /\ ~(f = e /\ t \notin udStale)
    OBVIOUS
  <2>1. ~(f = e /\ t \notin udStale)
    BY <1>0, <1>1, <1>2 DEF UdUntouched, Readers
  <2>2. t \in Readers(f) => f = e
    BY <1>0 DEF Readers
  <2> QED
    BY <1>0, <1>2, <1>4, <2>1, <2>2 DEF UdUntouched
<1>6. UdOneEntry' /\ UdBounded'
  <2>1. UdOneEntry'
    BY DEF UdInv, UdOneEntry
  <2>2. nr =< udSends
    BY <1>0, <1>1 DEF UdBounded
  <2>3. \A s \in UdsSockets : udLast'[s] =< udSends
    BY <1>0, <1>1, <2>2 DEF UdBounded, UdInv, UdTypeOK
  <2> QED
    BY <1>1, <2>1, <2>3 DEF UdBounded
<1>7. ASSUME NEW u \in UdsThreads PROVE UdThreadOK(u)'
  <2>1. CASE u = t
    BY <1>0, <1>1, <1>2, <2>1 DEF UdThreadOK
  <2>2. CASE u # t
    <3>1. u \in udStale' /\ udCall[u].pc \in Receiving => u \in udSpoilt'
      BY DEF UdInv, UdThreadOK
    <3> QED
      BY <1>1, <1>2, <2>2, <3>1, ThreadKept
  <2> QED
    BY <2>1, <2>2
<1>8. ASSUME NEW s \in UdsSockets PROVE UdOneSender(s)'
  <2>1. UdOneSender(s)
    BY DEF UdInv
  <2> QED
    BY <1>2, <1>3, <2>1 DEF UdOneSender
<1>9. ASSUME NEW f \in UdsElements PROVE UdEntryOK(f)'
  <2>1. udElement[f].key # NoSock /\ udElement[f].key \notin udUneven' =>
            \A x \in UdsThreads : Sends(x, udElement[f].key)' =>
               /\ Sends(x, udElement[f].key) /\ udCall'[x].nr = udCall[x].nr
               /\ UdProgress(udElement[f], udCall[x]) => UdProgress(udElement[f], udCall'[x])
    BY <1>2, <1>3
  <2>2. CASE udElement[f].key = NoSock
    BY <2>2 DEF UdEntryOK
  <2>3. CASE udElement[f].key # NoSock
    <3>1. ASSUME UdUntouched(f)'
          PROVE  UdUntouched(f) /\ udLast'[udElement[f].key] = udLast[udElement[f].key]
      <4>1. UdUntouched(f) /\ ~(f = e /\ t \notin udStale)
        BY <1>5, <3>1
      <4>2. CASE t \in udSpoilt
        BY <4>1, <4>2
      <4>3. CASE t \notin udSpoilt
        <5>1. t \notin udStale /\ udElement[e].key = k
          BY <1>0, <1>1, <4>3 DEF UdThreadOK
        <5>2. udElement[f].key # k
          BY <1>1, <2>3, <4>1, <5>1 DEF UdInv, UdOneEntry
        <5>3. udElement[f].key \in UdsSockets
          BY <2>3 DEF UdInv, UdTypeOK, UdEventType, Socks
        <5> QED
          BY <1>0, <1>1, <4>1, <5>2, <5>3 DEF UdInv, UdTypeOK
      <4> QED
        BY <4>2, <4>3
    <3> QED
      BY <2>1, <3>1, EntryKept
  <2> QED
    BY <2>2, <2>3
<1>10. ASSUME NEW u \in UdsThreads, u # t PROVE UdReaderOK(u)'
  BY <1>2, <1>3, <1>4, <1>10, ReaderKept
<1>11. UdReaderOK(t)'
  <2> SUFFICES ASSUME t \notin udSpoilt PROVE UdReaderOK(t)'
    BY DEF UdReaderOK
  <2>1. /\ e \notin udMixed
        /\ \A x \in UdsThreads : x \in Readers(e) => x = t
        /\ udElement[e].recv = call.by
        /\ call.pc \in {"copied", "read", "report"} => call.event.recv = call.by
        /\ k \notin udUneven =>
              /\ \A x \in Messages(udElement[e]) : x > call.since
              /\ \A x \in Messages(call.event) : x > call.since
              /\ \A x \in UdsThreads : Sends(x, k) => udCall[x].nr > call.since
              /\ t \notin udMoved => UdSame(call, udElement[e])
    <3>1. UdReaderOK(t)
      BY DEF UdInv
    <3> QED
      BY <1>0, <1>1, <3>1 DEF UdReaderOK
  <2>2. w.event.recv = call.by /\ (UdSame(call, udElement[e]) => UdSame(w, udElement[e]))
    BY <1>0, <2>1
  <2>3. \A x \in Messages(w.event) : x \in Messages(call.event) \/ x \in Messages(udElement[e])
    BY <1>0
  <2>4. k \notin udUneven =>
           /\ \A x \in Messages(udElement[e]) : x > call.since
           /\ \A x \in Messages(w.event) : x > call.since
           /\ \A x \in UdsThreads : Sends(x, k)' => udCall'[x].nr > call.since
           /\ t \notin udMoved => UdSame(w, udElement[e])
    BY <1>2, <1>3, <2>1, <2>2, <2>3
  <2>5. /\ w.key = k /\ w.by = call.by /\ w.at = e /\ w.since = call.since
    BY <1>0
  <2>6. \A x \in UdsThreads : x \in Readers(e)' => x = t
    BY <1>4, <2>1
  <2> QED
    BY <1>2, <2>1, <2>2, <2>4, <2>5, <2>6 DEF UdReaderOK
<1> QED
  BY <1>6, <1>7, <1>8, <1>9, <1>10, <1>11 DEF UdInv

(* Elements are taken out of the map, by the map or by a receiver at its   *)
(* end, and whoever has them has them no longer.                           *)
LEMMA TakenOut ==
  ASSUME UdInv, UdTypeOK', NEW F \in SUBSET UdsElements, NEW D \in SUBSET UdsThreads,
         \A x \in F : udElement'[x].key = NoSock
                      /\ udElement'[x].first = udElement[x].first
                      /\ udElement'[x].last = udElement[x].last
                      /\ udElement'[x].payload = udElement[x].payload,
         \A x \in UdsElements : x \notin F => udElement'[x] = udElement[x],
         \A u \in UdsThreads : u \notin D => udCall'[u] = udCall[u],
         \A u \in D : /\ udCall[u].pc \in Receiving \cup {"delete"} /\ udCall'[u] = UdIdle
                      /\ \A x \in UdsElements : udElement[x].key = udCall[u].key => x \in F,
         \A u \in UdsThreads :
            /\ u \in udStale' <=> (u \in udStale \/ \E x \in F : HoldsAt(u, x)) /\ u \notin D
            /\ u \in udSpoilt' <=> (u \in udSpoilt \/ \E x \in F : u \in Readers(x)) /\ u \notin D
            /\ u \notin D => (u \in udMoved' <=> u \in udMoved),
         udSends' = udSends, udLast' = udLast, udUneven' = udUneven, udMixed' = udMixed
  PROVE  UdInv'
<1>1. /\ udSends \in Nat /\ UdBounded
      /\ \A u \in UdsThreads : UdThreadOK(u) /\ udCall[u] \in UdCallType
      /\ \A x \in UdsElements : udElement[x].key \in Socks
  BY DEF UdInv, UdTypeOK, UdEventType
<1>2. \A u \in D : udCall'[u].pc = "idle"
  BY DEF UdIdle
<1>3. \A u \in UdsThreads : \A s : /\ Sends(u, s)' <=> Sends(u, s)
                                   /\ Sends(u, s)' => udCall'[u] = udCall[u] /\ u \notin D
  <2>1. \A u \in D : /\ udCall'[u].pc \notin {"fill", "filled", "build", "payload"}
                     /\ udCall[u].pc \notin {"fill", "filled", "build", "payload"}
    BY <1>2 DEF Receiving
  <2> QED
    BY <2>1 DEF Sends
<1>4. \A x : \A u : u \in Readers(x)' <=> u \in Readers(x) /\ u \notin D
  <2>1. \A u \in D : udCall'[u].pc \notin Receiving
    BY <1>2 DEF Receiving
  <2> QED
    BY <2>1 DEF Readers
<1>5. \A x \in UdsElements : udElement'[x].key # NoSock => udElement'[x] = udElement[x] /\ x \notin F
  OBVIOUS
<1>6. UdOneEntry' /\ UdBounded'
  <2>1. UdOneEntry'
    BY <1>5 DEF UdInv, UdOneEntry
  <2>2. UdBounded'
    BY <1>1 DEF UdBounded
  <2> QED
    BY <2>1, <2>2
<1>7. ASSUME NEW u \in UdsThreads PROVE UdThreadOK(u)'
  <2>1. CASE u \in D
    <3>1. udCall'[u].pc \notin Filling /\ udCall'[u].pc \notin Receiving
          /\ udCall'[u].pc \notin {"fill", "filled", "build", "payload"} /\ u \notin udStale'
      BY <1>2, <2>1 DEF Filling, Receiving
    <3> QED
      BY <3>1 DEF UdThreadOK
  <2>2. CASE u \notin D
    <3>1. u \in udStale' /\ u \notin udStale => udCall[u].pc \in Filling \cup Receiving
      BY <2>2 DEF HoldsAt
    <3>2. u \in udStale' /\ udCall[u].pc \in Receiving => u \in udSpoilt'
      BY <1>1, <2>2 DEF HoldsAt, Readers, UdThreadOK
    <3>3. u \notin udStale' /\ udCall[u].pc \in Filling \cup Receiving =>
             udElement'[udCall[u].at].key = udElement[udCall[u].at].key
      BY <1>1, <2>2, CallKinds DEF HoldsAt
    <3>4. udCall'[u] = udCall[u] /\ udSends' \in Nat /\ udSends' >= udSends
          /\ (u \in udStale => u \in udStale')
      BY <1>1, <2>2
    <3> QED
      BY <3>1, <3>2, <3>3, <3>4, ThreadKept
  <2> QED
    BY <2>1, <2>2
<1>8. ASSUME NEW k \in UdsSockets PROVE UdOneSender(k)'
  <2>1. UdOneSender(k)
    BY DEF UdInv
  <2>2. ASSUME k \notin udUneven, NEW u \in UdsThreads, NEW e \in UdsElements, Sends(u, k)',
               udCall'[u].pc \in Filling, udElement'[e].key = k
        PROVE  udCall'[u].at = e /\ u \notin udStale'
    <3>1. /\ udCall'[u] = udCall[u] /\ u \notin D /\ Sends(u, k)
          /\ e \notin F /\ udElement[e].key = k
      BY <1>3, <1>5, <2>2, UdsAssumption
    <3>2. udCall[u].at = e /\ u \notin udStale
      BY <2>1, <2>2, <3>1 DEF UdOneSender
    <3> QED
      BY <3>1, <3>2 DEF HoldsAt
  <2> QED
    BY <1>3, <2>1, <2>2 DEF UdOneSender
<1>9. ASSUME NEW e \in UdsElements PROVE UdEntryOK(e)'
  <2>1. CASE udElement'[e].key = NoSock
    BY <2>1 DEF UdEntryOK
  <2>2. CASE udElement'[e].key # NoSock
    <3>1. udElement'[e] = udElement[e] /\ e \notin F
      BY <1>5, <2>2
    <3>2. ASSUME UdUntouched(e)', NEW u \in UdsThreads, u \in Readers(e), u \notin udStale
          PROVE  udCall[u].pc = "mark"
      <4>1. udCall[u].pc \in Receiving /\ udCall[u].at = e
        BY <3>2 DEF Readers
      <4>2. u \notin D
        BY <1>1, <3>1, <3>2, <4>1 DEF UdThreadOK
      <4>3. u \notin udStale' /\ u \in Readers(e)'
        BY <1>4, <3>1, <3>2, <4>1, <4>2 DEF HoldsAt
      <4> QED
        BY <3>2, <4>2, <4>3 DEF UdUntouched
    <3>3. UdUntouched(e)' => UdUntouched(e)
      BY <3>2 DEF UdUntouched
    <3>4. \A x \in UdsThreads : Sends(x, udElement[e].key)' =>
             /\ Sends(x, udElement[e].key) /\ udCall'[x].nr = udCall[x].nr
             /\ UdProgress(udElement[e], udCall[x]) => UdProgress(udElement[e], udCall'[x])
      BY <1>3, <3>1
    <3> QED
      BY <3>1, <3>3, <3>4, EntryKept
  <2> QED
    BY <2>1, <2>2
<1>10. ASSUME NEW u \in UdsThreads PROVE UdReaderOK(u)'
  <2>1. CASE u \in D
    <3>1. udCall'[u].pc \notin Receiving
      BY <1>2, <2>1 DEF Receiving
    <3> QED
      BY <3>1 DEF UdReaderOK
  <2>2. CASE u \notin D
    <3>1. udCall'[u] = udCall[u]
      BY <2>2
    <3>2. ASSUME udCall[u].pc \in Receiving, u \notin udSpoilt'
          PROVE  /\ u \notin udSpoilt
                 /\ udElement'[udCall[u].at] = udElement[udCall[u].at]
                 /\ \A x \in UdsThreads :
                       x \in Readers(udCall[u].at)' => x \in Readers(udCall[u].at)
                 /\ u \notin udMoved' => u \notin udMoved
                 /\ \A x \in UdsThreads : Sends(x, udCall[u].key)' =>
                       Sends(x, udCall[u].key) /\ udCall'[x].nr = udCall[x].nr
      <4>1. udCall[u].at \in UdsElements /\ u \in Readers(udCall[u].at)
        BY <1>1, <3>2, CallKinds DEF Readers
      <4>2. u \notin udSpoilt /\ udCall[u].at \notin F
        BY <2>2, <3>2, <4>1
      <4> QED
        BY <1>3, <1>4, <2>2, <3>1, <4>1, <4>2
    <3> QED
      BY <3>1, <3>2, ReaderKept
  <2> QED
    BY <2>1, <2>2
<1> QED
  BY <1>6, <1>7, <1>8, <1>9, <1>10 DEF UdInv

(* A thread that begins, goes on or ends a send without touching the       *)
(* element.                                                                *)
LEMMA SenderMoves ==
  ASSUME UdInv, UdTypeOK', NEW t \in UdsThreads, NEW w,
         udCall' = [udCall EXCEPT ![t] = w],
         udCall[t].pc \in {"idle", "build"}, w.pc \in {"idle", "build", "payload"},
         udSends' \in Nat, udSends' >= udSends,
         w.pc \in {"build", "payload"} => w.nr =< udSends',
         w.pc \in {"build", "payload"} /\ w.from \notin udUneven' =>
            udCall[t].pc = "build" /\ w.from = udCall[t].from /\ w.nr = udCall[t].nr,
         w.pc = "payload" => udElement[w.at].key = w.from /\ w.at \in UdsElements,
         udUneven \subseteq udUneven',
         udElement' = udElement, udLast' = udLast, udStale' = udStale, udMixed' = udMixed,
         udMoved' = udMoved, udSpoilt' = udSpoilt
  PROVE  UdInv'
<1>1. /\ udCall'[t] = w /\ \A u \in UdsThreads : u # t => udCall'[u] = udCall[u]
      /\ udCall[t] \in UdCallType /\ udSends \in Nat /\ UdBounded /\ UdThreadOK(t)
      /\ udCall[t].pc \notin Receiving /\ w.pc \notin Receiving /\ udCall[t].pc \notin Filling
  <2>1. /\ udCall'[t] = w /\ \A u \in UdsThreads : u # t => udCall'[u] = udCall[u]
        /\ udCall[t] \in UdCallType /\ udSends \in Nat /\ UdBounded /\ UdThreadOK(t)
    BY DEF UdInv, UdTypeOK
  <2>2. udCall[t].pc \notin Receiving /\ w.pc \notin Receiving /\ udCall[t].pc \notin Filling
    BY DEF Receiving, Filling
  <2> QED
    BY <2>1, <2>2
<1>2. t \notin udStale
  BY <1>1 DEF UdThreadOK
<1>3. \A u \in UdsThreads : \A s : Sends(u, s)' /\ s \notin udUneven' =>
         Sends(u, s) /\ udCall'[u].nr = udCall[u].nr
  BY <1>1 DEF Sends
<1>4. \A f : \A x : x \in Readers(f)' <=> x \in Readers(f)
  BY <1>1 DEF Readers
<1>5. \A f \in UdsElements : UdUntouched(f)' => UdUntouched(f)
  <2>1. \A f : t \notin Readers(f)
    BY <1>1 DEF Readers
  <2> QED
    BY <1>1, <1>4, <2>1 DEF UdUntouched
<1>6. UdOneEntry' /\ UdBounded'
  <2>1. \A e \in UdsElements : /\ udElement[e].first =< udSends' /\ udElement[e].last =< udSends'
                               /\ udElement[e].payload =< udSends'
    BY <1>1 DEF UdBounded, UdInv, UdTypeOK, UdEventType
  <2>2. \A s \in UdsSockets : udLast[s] =< udSends'
    BY <1>1 DEF UdBounded, UdInv, UdTypeOK
  <2> QED
    BY <2>1, <2>2 DEF UdInv, UdOneEntry, UdBounded
<1>7. ASSUME NEW u \in UdsThreads PROVE UdThreadOK(u)'
  <2>1. CASE u = t
    <3>1. w.pc \in Filling <=> w.pc = "payload"
      BY DEF Filling
    <3> QED
      BY <1>1, <1>2, <2>1, <3>1 DEF UdThreadOK
  <2>2. CASE u # t
    <3>1. u \in udStale' /\ udCall[u].pc \in Receiving => u \in udSpoilt'
      BY DEF UdInv, UdThreadOK
    <3> QED
      BY <1>1, <2>2, <3>1, ThreadKept
  <2> QED
    BY <2>1, <2>2
<1>8. ASSUME NEW s \in UdsSockets PROVE UdOneSender(s)'
  <2> SUFFICES ASSUME s \notin udUneven' PROVE UdOneSender(s)'
    BY DEF UdOneSender
  <2>1. UdOneSender(s) /\ s \notin udUneven
    BY DEF UdInv
  <2>2. ASSUME NEW u \in UdsThreads, NEW e \in UdsElements, Sends(u, s)',
               udCall'[u].pc \in Filling, udElement[e].key = s
        PROVE  udCall'[u].at = e /\ u \notin udStale
    <3>1. CASE u = t
      <4>1. w.pc = "payload" /\ w.from = s
        BY <1>1, <2>2, <3>1 DEF Sends, Filling
      <4>2. s # NoSock
        BY UdsAssumption
      <4> QED
        BY <1>1, <1>2, <2>2, <3>1, <4>1, <4>2 DEF UdInv, UdOneEntry
    <3>2. CASE u # t
      BY <1>1, <1>3, <2>1, <2>2, <3>2 DEF UdOneSender
    <3> QED
      BY <3>1, <3>2
  <2> QED
    BY <1>3, <2>1, <2>2 DEF UdOneSender
<1>9. ASSUME NEW f \in UdsElements PROVE UdEntryOK(f)'
  <2>1. ASSUME udElement[f].key # NoSock, udElement[f].key \notin udUneven',
               NEW x \in UdsThreads, Sends(x, udElement[f].key)'
        PROVE  /\ Sends(x, udElement[f].key) /\ udCall'[x].nr = udCall[x].nr
               /\ UdProgress(udElement[f], udCall[x]) => UdProgress(udElement[f], udCall'[x])
    <3>1. Sends(x, udElement[f].key) /\ udCall'[x].nr = udCall[x].nr
      BY <1>3, <2>1
    <3>2. CASE x = t
      <4>1. w.pc \in {"build", "payload"} /\ udCall[t].pc = "build" /\ w.nr = udCall[t].nr
        BY <1>1, <2>1, <3>1, <3>2 DEF Sends
      <4> QED
        BY <1>1, <3>1, <3>2, <4>1 DEF UdProgress
    <3>3. CASE x # t
      BY <1>1, <3>1, <3>3
    <3> QED
      BY <3>2, <3>3
  <2> QED
    BY <1>5, <2>1, EntryKept
<1>10. ASSUME NEW u \in UdsThreads PROVE UdReaderOK(u)'
  <2>1. CASE u = t
    BY <1>1, <2>1 DEF UdReaderOK
  <2>2. CASE u # t
    BY <1>1, <1>3, <1>4, <2>2, ReaderKept
  <2> QED
    BY <2>1, <2>2
<1> QED
  BY <1>6, <1>7, <1>8, <1>9, <1>10 DEF UdInv

(* The calls of a kind as records.                                         *)
LEMMA CallRecords ==
  ASSUME NEW c \in UdCallType
  PROVE  /\ c.pc \in {"fill", "filled"} =>
               c \in [pc : {"fill", "filled"}, from : UdsSockets, to : UdsSockets, nr : Nat,
                      at : UdsElements]
         /\ c.pc = "payload" =>
               c \in [pc : {"payload"}, from : UdsSockets, nr : Nat, at : UdsElements]
         /\ c.pc \in Receiving =>
               c \in [pc : Receiving, key : UdsSockets, by : UdsSockets, at : UdsElements,
                      since : Nat, event : UdEventType]
  BY DEF UdCallType, UdIdle, Receiving

(* An element that was not in the map has no user it was not taken from.   *)
LEMMA FreeUnused ==
  ASSUME UdInv, NEW e \in UdsElements, udElement[e].key = NoSock, NEW u \in UdsThreads,
         u \notin udStale, udCall[u].pc \in Filling \cup Receiving
  PROVE  udCall[u].at # e
<1>1. UdThreadOK(u) /\ udCall[u] \in UdCallType
  BY DEF UdInv, UdTypeOK
<1>2. CASE udCall[u].pc \in Filling
  <2>1. udCall[u].from \in UdsSockets
    BY <1>1, <1>2, CallKinds DEF Filling
  <2> QED
    BY <1>1, <1>2, <2>1, UdsAssumption DEF UdThreadOK
<1>3. CASE udCall[u].pc \in Receiving
  <2>1. udCall[u].key \in UdsSockets
    BY <1>1, <1>3, CallKinds
  <2> QED
    BY <1>1, <1>3, <2>1, UdsAssumption DEF UdThreadOK
<1> QED
  BY <1>2, <1>3

LEMMA UdInvSendEnter ==
  ASSUME UdInv, NEW t \in UdsThreads, NEW from \in UdsSockets, NEW to \in UdsSockets,
         UdSendEnter(t, from, to)
  PROVE  UdInv'
<1>1. /\ udCall[t] = UdIdle /\ udCall[t].pc = "idle" /\ udSends' = udSends + 1
      /\ udSends \in Nat /\ udPeer' = udPeer /\ udLast' = udLast /\ udStale' = udStale
      /\ udMoved' = udMoved /\ udSpoilt' = udSpoilt /\ UdBounded /\ UdThreadOK(t)
  BY DEF UdSendEnter, UdIdle, UdInv, UdTypeOK
<1>2. PICK e \in UdsElements :
        /\ \/ udElement[e].key = from /\ UNCHANGED <<udElement, udMixed>>
           \/ /\ \A f \in UdsElements : udElement[f].key # from
              /\ Free(e)
              /\ udElement' = [udElement EXCEPT ![e] = ZeroEvent(from)]
              /\ udMixed' = udMixed \ {e}
        /\ udCall' = [udCall EXCEPT ![t] = [pc |-> "fill", from |-> from, to |-> to,
                                             nr |-> udSends + 1, at |-> e]]
  BY DEF UdSendEnter
<1>3. PICK n : n = udSends + 1
  OBVIOUS
<1>4. PICK w : w = [pc |-> "fill", from |-> from, to |-> to, nr |-> n, at |-> e]
  OBVIOUS
<1>5. /\ w.pc = "fill" /\ w.from = from /\ w.nr = n /\ w.at = e /\ n \in Nat /\ n > udSends
      /\ udSends' = n /\ w \in UdCallType /\ w.pc \notin Receiving /\ udCall[t].pc \notin Receiving
  BY <1>1, <1>3, <1>4 DEF UdCallType, Receiving
<1>6. /\ udCall' = [udCall EXCEPT ![t] = w] /\ udCall'[t] = w
      /\ \A u \in UdsThreads : u # t => udCall'[u] = udCall[u]
  BY <1>2, <1>3, <1>4 DEF UdInv, UdTypeOK
<1>7. \/ udElement[e].key = from /\ udElement' = udElement /\ udMixed' = udMixed
      \/ /\ \A f \in UdsElements : udElement[f].key # from
         /\ udElement[e].key = NoSock
         /\ udElement' = [udElement EXCEPT ![e] = ZeroEvent(from)]
         /\ udMixed' = udMixed \ {e}
  BY <1>2 DEF Free
<1>8. from \in Socks /\ from # NoSock /\ udElement \in [UdsElements -> UdEventType]
  BY UdsAssumption DEF Socks, UdInv, UdTypeOK
<1>9. /\ udElement' \in [UdsElements -> UdEventType]
      /\ udElement'[e].key = from
      /\ \A f \in UdsElements : f # e => udElement'[f] = udElement[f] /\ udElement[f].key # from
      /\ \/ udElement[e].key = from /\ udElement' = udElement /\ udMixed' = udMixed
         \/ /\ udElement[e].key = NoSock /\ udMixed' = udMixed \ {e}
            /\ udElement'[e] = ZeroEvent(from)
  <2>1. CASE udElement[e].key = from /\ udElement' = udElement /\ udMixed' = udMixed
    BY <1>8, <2>1 DEF UdInv, UdOneEntry
  <2>2. CASE /\ \A f \in UdsElements : udElement[f].key # from
             /\ udElement[e].key = NoSock
             /\ udElement' = [udElement EXCEPT ![e] = ZeroEvent(from)]
             /\ udMixed' = udMixed \ {e}
    BY <1>8, <2>2, ZeroFields
  <2> QED
    BY <1>7, <2>1, <2>2
<1>10. UdTypeOK'
  BY <1>1, <1>5, <1>6, <1>9 DEF UdInv, UdTypeOK
<1>11. \A f \in UdsElements : /\ udElement'[f].first =< udSends /\ udElement'[f].last =< udSends
                              /\ udElement'[f].payload =< udSends
  <2>1. udElement'[e] = ZeroEvent(from) => /\ udElement'[e].first =< udSends
                                           /\ udElement'[e].last =< udSends
                                           /\ udElement'[e].payload =< udSends
    BY <1>1, <1>8, ZeroFields
  <2> QED
    BY <1>1, <1>9, <2>1 DEF UdBounded
<1>12. UdOneEntry' /\ UdBounded'
  <2>1. UdOneEntry'
    BY <1>8, <1>9 DEF UdInv, UdOneEntry
  <2>2. \A f \in UdsElements : /\ udElement'[f].first \in Nat /\ udElement'[f].last \in Nat
                               /\ udElement'[f].payload \in Nat
    BY <1>9 DEF UdEventType
  <2>3. \A s \in UdsSockets : udLast[s] \in Nat /\ udLast[s] =< udSends
    BY <1>1 DEF UdInv, UdTypeOK, UdBounded
  <2>4. \A x \in Nat : x =< udSends => x =< n
    BY <1>1, <1>5
  <2> QED
    BY <1>1, <1>5, <1>11, <2>1, <2>2, <2>3, <2>4 DEF UdBounded
<1>13. /\ udUneven \subseteq udUneven'
       /\ from \notin udUneven' => \A u \in UdsThreads : ~Sends(u, from)
  BY DEF UdSendEnter
<1>14. \A u \in UdsThreads : \A s : /\ u # t => (Sends(u, s)' <=> Sends(u, s))
                                    /\ Sends(t, s)' <=> s = from
                                    /\ ~Sends(t, s)
  BY <1>1, <1>5, <1>6 DEF Sends
<1>15. \A f : \A x : x \in Readers(f)' <=> x \in Readers(f)
  BY <1>5, <1>6 DEF Readers
<1>16. \A f \in UdsElements : UdUntouched(f)' => UdUntouched(f)
  <2>1. \A f : t \notin Readers(f)
    BY <1>5 DEF Readers
  <2> QED
    BY <1>1, <1>6, <1>15, <2>1 DEF UdUntouched
<1>17. t \notin udStale
  BY <1>1 DEF UdThreadOK, Filling, Receiving
<1>18. ASSUME NEW u \in UdsThreads PROVE UdThreadOK(u)'
  <2>1. CASE u = t
    BY <1>1, <1>5, <1>6, <1>9, <1>17, <2>1 DEF UdThreadOK
  <2>2. CASE u # t
    <3>1. u \in udStale' /\ udCall[u].pc \in Receiving => u \in udSpoilt'
      BY <1>1 DEF UdInv, UdThreadOK
    <3>2. u \notin udStale' /\ udCall[u].pc \in Filling \cup Receiving =>
             udElement'[udCall[u].at].key = udElement[udCall[u].at].key
      BY <1>1, <1>9, FreeUnused, CallKinds DEF UdInv, UdTypeOK
    <3>3. udSends' \in Nat /\ udSends' >= udSends
      BY <1>1
    <3> QED
      BY <1>1, <1>6, <2>2, <3>1, <3>2, <3>3, ThreadKept
  <2> QED
    BY <2>1, <2>2
<1>19. ASSUME NEW s \in UdsSockets PROVE UdOneSender(s)'
  <2> SUFFICES ASSUME s \notin udUneven' PROVE UdOneSender(s)'
    BY DEF UdOneSender
  <2>1. UdOneSender(s) /\ s \notin udUneven
    BY <1>13 DEF UdInv
  <2>2. CASE s = from
    <3>1. \A u \in UdsThreads : Sends(u, s)' => u = t
      BY <1>13, <1>14, <2>2
    <3>2. \A f \in UdsElements : udElement'[f].key = s => f = e
      BY <1>9, <2>2
    <3> QED
      BY <1>1, <1>5, <1>6, <1>17, <3>1, <3>2 DEF UdOneSender
  <2>3. CASE s # from
    <3>1. \A u \in UdsThreads : Sends(u, s)' => u # t /\ Sends(u, s) /\ udCall'[u] = udCall[u]
      BY <1>6, <1>14, <2>3
    <3>2. \A f \in UdsElements : udElement'[f].key = s => udElement[f].key = s
      BY <1>9, <2>3
    <3> QED
      BY <1>1, <2>1, <3>1, <3>2 DEF UdOneSender
  <2> QED
    BY <2>2, <2>3
<1>20. ASSUME NEW f \in UdsElements, f # e PROVE UdEntryOK(f)'
  <2>1. \A x \in UdsThreads : Sends(x, udElement[f].key)' =>
           /\ Sends(x, udElement[f].key) /\ udCall'[x].nr = udCall[x].nr
           /\ UdProgress(udElement[f], udCall[x]) => UdProgress(udElement[f], udCall'[x])
    BY <1>6, <1>9, <1>14, <1>20
  <2> QED
    BY <1>1, <1>9, <1>13, <1>16, <1>20, <2>1, EntryKept
<1>21. UdEntryOK(e)'
  <2> SUFFICES ASSUME from \notin udUneven', e \notin udMixed' PROVE UdEntryOK(e)'
    BY <1>9 DEF UdEntryOK
  <2>1. \A x \in UdsThreads : Sends(x, from)' => x = t
    BY <1>13, <1>14
  <2>2. UdProgress(udElement'[e], w) /\ n > udLast[from]
    <3>1. udElement'[e].first =< n /\ n > udLast[from]
      <4>1. udElement'[e].first \in Nat /\ udElement'[e].first =< udSends
        BY <1>9, <1>11 DEF UdEventType
      <4>2. udLast[from] \in Nat /\ udLast[from] =< udSends
        BY <1>1 DEF UdInv, UdTypeOK, UdBounded
      <4> QED
        BY <1>1, <1>5, <4>1, <4>2
    <3> QED
      BY <1>5, <3>1 DEF UdProgress
  <2>3. /\ udElement'[e].payload =< udElement'[e].last
        /\ udElement'[e].last =< udElement'[e].first
        /\ UdUntouched(e)' => \A nr \in Messages(udElement'[e]) : nr > udLast[from]
    <3>1. CASE udElement[e].key = from /\ udElement' = udElement /\ udMixed' = udMixed
      <4>1. UdEntryOK(e) /\ from \notin udUneven /\ e \notin udMixed
        BY <1>13, <3>1 DEF UdInv
      <4> QED
        BY <1>8, <1>16, <3>1, <4>1 DEF UdEntryOK
    <3>2. CASE udElement'[e] = ZeroEvent(from)
      BY <1>8, <3>2, ZeroFields
    <3> QED
      BY <1>9, <3>1, <3>2
  <2> QED
    BY <1>1, <1>5, <1>6, <1>9, <2>1, <2>2, <2>3 DEF UdEntryOK
<1>22. ASSUME NEW u \in UdsThreads PROVE UdReaderOK(u)'
  <2>1. CASE u = t
    BY <1>5, <1>6, <2>1 DEF UdReaderOK
  <2>2. CASE u # t
    <3>1. ASSUME udCall[u].pc \in Receiving, u \notin udSpoilt'
          PROVE  /\ udElement'[udCall[u].at] = udElement[udCall[u].at]
                 /\ udCall[u].at \notin udMixed => udCall[u].at \notin udMixed'
                 /\ \A x \in UdsThreads : Sends(x, udCall[u].key)' =>
                       \/ udCall'[x].nr > udCall[u].since
                       \/ Sends(x, udCall[u].key) /\ udCall'[x].nr = udCall[x].nr
      <4>1. /\ UdThreadOK(u) /\ udCall[u].at \in UdsElements
            /\ udCall[u].since \in Nat /\ udCall[u].since =< udSends
        BY <3>1, CallKinds DEF UdInv, UdTypeOK, UdThreadOK
      <4>2. u \notin udStale
        BY <1>1, <3>1, <4>1 DEF UdThreadOK
      <4>3. udElement'[udCall[u].at] = udElement[udCall[u].at]
        BY <1>9, <3>1, <4>1, <4>2, FreeUnused
      <4>4. n > udCall[u].since
        BY <1>1, <1>5, <4>1
      <4>5. ASSUME NEW x \in UdsThreads, Sends(x, udCall[u].key)'
            PROVE  \/ udCall'[x].nr > udCall[u].since
                   \/ Sends(x, udCall[u].key) /\ udCall'[x].nr = udCall[x].nr
        <5>1. CASE x = t
          BY <1>5, <1>6, <4>4, <5>1
        <5>2. CASE x # t
          BY <1>6, <1>14, <2>2, <4>5, <5>2
        <5> QED
          BY <5>1, <5>2
      <4> QED
        BY <1>9, <4>3, <4>5
    <3> QED
      BY <1>1, <1>6, <1>13, <1>15, <2>2, <3>1, ReaderKept
  <2> QED
    BY <2>1, <2>2
<1> QED
  BY <1>10, <1>12, <1>18, <1>19, <1>20, <1>21, <1>22 DEF UdInv

LEMMA UdInvSendUnseen ==
  ASSUME UdInv, NEW t \in UdsThreads, NEW from \in UdsSockets, NEW to \in UdsSockets,
         UdSendUnseen(t, from, to)
  PROVE  UdInv'
<1>1. PICK n : n = udSends + 1
  OBVIOUS
<1>2. PICK w : w = [pc |-> "build", from |-> from, nr |-> n]
  OBVIOUS
<1>3. /\ udCall[t].pc = "idle" /\ udSends' = n /\ udSends \in Nat /\ n \in Nat /\ n >= udSends
      /\ udPeer' = udPeer /\ udLast' = udLast /\ udStale' = udStale /\ udMixed' = udMixed
      /\ udMoved' = udMoved /\ udSpoilt' = udSpoilt /\ udElement' = udElement
      /\ udCall' = [udCall EXCEPT ![t] = w] /\ udUneven' = udUneven \cup {from}
  BY <1>1, <1>2 DEF UdSendUnseen, UdIdle, UdInv, UdTypeOK
<1>4. w.pc = "build" /\ w.from = from /\ w.nr = n /\ w \in UdCallType
  BY <1>2, <1>3 DEF UdCallType
<1>5. UdTypeOK'
  BY <1>3, <1>4 DEF UdInv, UdTypeOK
<1>6. /\ udCall[t].pc \in {"idle", "build"} /\ w.pc \in {"idle", "build", "payload"}
      /\ udSends' \in Nat /\ udSends' >= udSends
      /\ w.pc \in {"build", "payload"} => w.nr =< udSends'
      /\ w.pc \in {"build", "payload"} /\ w.from \notin udUneven' =>
            udCall[t].pc = "build" /\ w.from = udCall[t].from /\ w.nr = udCall[t].nr
      /\ w.pc = "payload" => udElement[w.at].key = w.from /\ w.at \in UdsElements
      /\ udUneven \subseteq udUneven'
  BY <1>3, <1>4
<1> QED
  BY <1>3, <1>5, <1>6, SenderMoves

LEMMA UdInvPayloadFind ==
  ASSUME UdInv, NEW t \in UdsThreads, UdPayloadFind(t)
  PROVE  UdInv'
<1>1. PICK e \in UdsElements :
        /\ udElement[e].key = udCall[t].from
        /\ udCall' = [udCall EXCEPT ![t] = [pc |-> "payload", from |-> udCall[t].from,
                                             nr |-> udCall[t].nr, at |-> e]]
  BY DEF UdPayloadFind
<1>2. PICK w : w = [pc |-> "payload", from |-> udCall[t].from, nr |-> udCall[t].nr, at |-> e]
  OBVIOUS
<1>3. /\ udCall[t].pc = "build" /\ udSends' = udSends /\ udSends \in Nat
      /\ udPeer' = udPeer /\ udLast' = udLast /\ udStale' = udStale /\ udMixed' = udMixed
      /\ udMoved' = udMoved /\ udSpoilt' = udSpoilt /\ udElement' = udElement
      /\ udCall' = [udCall EXCEPT ![t] = w] /\ udUneven' = udUneven
  BY <1>1, <1>2 DEF UdPayloadFind, UdInv, UdTypeOK
<1>4. /\ udCall[t].from \in UdsSockets /\ udCall[t].nr \in Nat /\ udCall[t].nr =< udSends
  BY <1>3, CallKinds DEF UdInv, UdTypeOK, UdThreadOK
<1>5. /\ w.pc = "payload" /\ w.from = udCall[t].from /\ w.nr = udCall[t].nr /\ w.at = e
      /\ w \in UdCallType
  BY <1>2, <1>4 DEF UdCallType
<1>6. UdTypeOK'
  BY <1>3, <1>5 DEF UdInv, UdTypeOK
<1>7. /\ udCall[t].pc \in {"idle", "build"} /\ w.pc \in {"idle", "build", "payload"}
      /\ udSends' \in Nat /\ udSends' >= udSends
      /\ w.pc \in {"build", "payload"} => w.nr =< udSends'
      /\ w.pc \in {"build", "payload"} /\ w.from \notin udUneven' =>
            udCall[t].pc = "build" /\ w.from = udCall[t].from /\ w.nr = udCall[t].nr
      /\ w.pc = "payload" => udElement[w.at].key = w.from /\ w.at \in UdsElements
      /\ udUneven \subseteq udUneven'
  BY <1>1, <1>3, <1>4, <1>5
<1> QED
  BY <1>3, <1>6, <1>7, SenderMoves

LEMMA UdInvSendEnd ==
  ASSUME UdInv, NEW t \in UdsThreads, UdSendEnd(t)
  PROVE  UdInv'
<1>1. /\ udCall[t].pc = "build" /\ udSends' = udSends /\ udSends \in Nat
      /\ udPeer' = udPeer /\ udLast' = udLast /\ udStale' = udStale /\ udMixed' = udMixed
      /\ udMoved' = udMoved /\ udSpoilt' = udSpoilt /\ udElement' = udElement
      /\ udCall' = [udCall EXCEPT ![t] = UdIdle] /\ udUneven' = udUneven
  BY DEF UdSendEnd, UdInv, UdTypeOK
<1>2. UdIdle.pc = "idle" /\ UdIdle \in UdCallType
  BY DEF UdIdle, UdCallType
<1>3. UdTypeOK'
  BY <1>1, <1>2 DEF UdInv, UdTypeOK
<1>4. /\ udCall[t].pc \in {"idle", "build"} /\ UdIdle.pc \in {"idle", "build", "payload"}
      /\ udSends' \in Nat /\ udSends' >= udSends
      /\ UdIdle.pc \in {"build", "payload"} => UdIdle.nr =< udSends'
      /\ UdIdle.pc \in {"build", "payload"} /\ UdIdle.from \notin udUneven' =>
            udCall[t].pc = "build" /\ UdIdle.from = udCall[t].from /\ UdIdle.nr = udCall[t].nr
      /\ UdIdle.pc = "payload" => udElement[UdIdle.at].key = UdIdle.from /\ UdIdle.at \in UdsElements
      /\ udUneven \subseteq udUneven'
  BY <1>1, <1>2
<1> QED
  BY <1>1, <1>3, <1>4, SenderMoves

LEMMA UdInvSendFill ==
  ASSUME UdInv, NEW t \in UdsThreads, UdSendFill(t)
  PROVE  UdInv'
<1>1. PICK c, e, n : c = udCall[t] /\ e = c.at /\ n = c.nr
  OBVIOUS
<1>2. /\ c.pc = "fill" /\ c \in UdCallType /\ udElement \in [UdsElements -> UdEventType]
      /\ udCall \in [UdsThreads -> UdCallType]
  BY <1>1 DEF UdSendFill, UdInv, UdTypeOK
<1>3. /\ e \in UdsElements /\ n \in Nat /\ c.to \in UdsSockets /\ c.pc \in Filling
      /\ udElement[e] \in UdEventType
      /\ c \in [pc : {"fill", "filled"}, from : UdsSockets, to : UdsSockets, nr : Nat,
                at : UdsElements]
  BY <1>1, <1>2, CallKinds, CallRecords DEF Filling
<1>4. PICK v : v = [udElement[e] EXCEPT !.first = n, !.to = c.to]
  OBVIOUS
<1>5. PICK w : w = [c EXCEPT !.pc = "filled"]
  OBVIOUS
<1>6. /\ v \in UdEventType /\ v.key = udElement[e].key /\ v.recv = udElement[e].recv /\ v.first = n
      /\ v.last = udElement[e].last /\ v.payload = udElement[e].payload
  BY <1>3, <1>4 DEF UdEventType, Socks
<1>7. /\ w \in UdCallType /\ w.pc = "filled" /\ w.from = c.from /\ w.nr = n /\ w.at = e
  BY <1>1, <1>3, <1>5 DEF UdCallType
<1>8. /\ Written(t, e, v) /\ udCall' = [udCall EXCEPT ![t] = w]
      /\ udMoved' = udMoved \cup Readers(e)
      /\ udPeer' = udPeer /\ udSends' = udSends /\ udLast' = udLast /\ udUneven' = udUneven
      /\ udStale' = udStale
  BY <1>1, <1>4, <1>5 DEF UdSendFill
<1>9. /\ udElement' = [udElement EXCEPT ![e] = v]
      /\ udMixed' = IF t \in udStale THEN udMixed \cup {e} ELSE udMixed
      /\ udSpoilt' = IF t \in udStale THEN udSpoilt \cup Readers(e) ELSE udSpoilt
  BY <1>8 DEF Written
<1>10. UdTypeOK'
  BY <1>2, <1>3, <1>6, <1>7, <1>8, <1>9 DEF UdInv, UdTypeOK
<1>11. /\ udElement[e].payload =< udElement[e].last
       /\ udElement[e].last =< udElement[e].first
       /\ UdProgress(udElement[e], c)
       => v.payload =< v.last /\ v.last =< v.first /\ UdProgress(v, w)
  <2>1. /\ udElement[e].first \in Nat /\ udElement[e].last \in Nat
        /\ udElement[e].payload \in Nat
    BY <1>3 DEF UdEventType
  <2> QED
    BY <1>1, <1>2, <1>3, <1>6, <1>7, <2>1 DEF UdProgress
<1> QED
  BY <1>1, <1>3, <1>6, <1>7, <1>8, <1>9, <1>10, <1>11, SenderWrites

LEMMA UdInvSendFilled ==
  ASSUME UdInv, NEW t \in UdsThreads, UdSendFilled(t)
  PROVE  UdInv'
<1>1. PICK c, e, n : c = udCall[t] /\ e = c.at /\ n = c.nr
  OBVIOUS
<1>2. /\ c.pc = "filled" /\ c \in UdCallType /\ udElement \in [UdsElements -> UdEventType]
      /\ udCall \in [UdsThreads -> UdCallType]
  BY <1>1 DEF UdSendFilled, UdInv, UdTypeOK
<1>3. /\ e \in UdsElements /\ n \in Nat /\ c.from \in UdsSockets /\ c.pc \in Filling
      /\ udElement[e] \in UdEventType
  BY <1>1, <1>2, CallKinds DEF Filling
<1>4. PICK v : v = [udElement[e] EXCEPT !.last = n]
  OBVIOUS
<1>5. PICK w : w = [pc |-> "build", from |-> c.from, nr |-> n]
  OBVIOUS
<1>6. /\ v \in UdEventType /\ v.key = udElement[e].key /\ v.recv = udElement[e].recv
      /\ v.first = udElement[e].first /\ v.last = n /\ v.payload = udElement[e].payload
  BY <1>3, <1>4 DEF UdEventType
<1>7. /\ w \in UdCallType /\ w.pc = "build" /\ w.from = c.from /\ w.nr = n
  BY <1>3, <1>5 DEF UdCallType
<1>8. /\ Written(t, e, v) /\ udCall' = [udCall EXCEPT ![t] = w]
      /\ udMoved' = udMoved \cup Readers(e)
      /\ udPeer' = udPeer /\ udSends' = udSends /\ udLast' = udLast /\ udUneven' = udUneven
      /\ udStale' = udStale \ {t}
  BY <1>1, <1>4, <1>5 DEF UdSendFilled
<1>9. /\ udElement' = [udElement EXCEPT ![e] = v]
      /\ udMixed' = IF t \in udStale THEN udMixed \cup {e} ELSE udMixed
      /\ udSpoilt' = IF t \in udStale THEN udSpoilt \cup Readers(e) ELSE udSpoilt
  BY <1>8 DEF Written
<1>10. UdTypeOK'
  BY <1>2, <1>3, <1>6, <1>7, <1>8, <1>9 DEF UdInv, UdTypeOK
<1>11. /\ udElement[e].payload =< udElement[e].last
       /\ udElement[e].last =< udElement[e].first
       /\ UdProgress(udElement[e], c)
       => v.payload =< v.last /\ v.last =< v.first /\ UdProgress(v, w)
  <2>1. /\ udElement[e].first \in Nat /\ udElement[e].last \in Nat
        /\ udElement[e].payload \in Nat
    BY <1>3 DEF UdEventType
  <2> QED
    BY <1>1, <1>2, <1>3, <1>6, <1>7, <2>1 DEF UdProgress
<1> QED
  BY <1>1, <1>3, <1>6, <1>7, <1>8, <1>9, <1>10, <1>11, SenderWrites

LEMMA UdInvPayload ==
  ASSUME UdInv, NEW t \in UdsThreads, UdPayload(t)
  PROVE  UdInv'
<1>1. PICK c, e, n : c = udCall[t] /\ e = c.at /\ n = c.nr
  OBVIOUS
<1>2. /\ c.pc = "payload" /\ c \in UdCallType /\ udElement \in [UdsElements -> UdEventType]
      /\ udCall \in [UdsThreads -> UdCallType]
  BY <1>1 DEF UdPayload, UdInv, UdTypeOK
<1>3. /\ e \in UdsElements /\ n \in Nat /\ c.from \in UdsSockets /\ c.pc \in Filling
      /\ udElement[e] \in UdEventType
  BY <1>1, <1>2, CallKinds DEF Filling
<1>4. PICK v : v = [udElement[e] EXCEPT !.payload = n]
  OBVIOUS
<1>5. PICK w : w = [pc |-> "build", from |-> c.from, nr |-> n]
  OBVIOUS
<1>6. /\ v \in UdEventType /\ v.key = udElement[e].key /\ v.recv = udElement[e].recv
      /\ v.first = udElement[e].first /\ v.last = udElement[e].last /\ v.payload = n
  BY <1>3, <1>4 DEF UdEventType
<1>7. /\ w \in UdCallType /\ w.pc = "build" /\ w.from = c.from /\ w.nr = n
  BY <1>3, <1>5 DEF UdCallType
<1>8. /\ Written(t, e, v) /\ udCall' = [udCall EXCEPT ![t] = w]
      /\ udMoved' = udMoved \cup Readers(e)
      /\ udPeer' = udPeer /\ udSends' = udSends /\ udLast' = udLast /\ udUneven' = udUneven
      /\ udStale' = udStale \ {t}
  BY <1>1, <1>4, <1>5 DEF UdPayload
<1>9. /\ udElement' = [udElement EXCEPT ![e] = v]
      /\ udMixed' = IF t \in udStale THEN udMixed \cup {e} ELSE udMixed
      /\ udSpoilt' = IF t \in udStale THEN udSpoilt \cup Readers(e) ELSE udSpoilt
  BY <1>8 DEF Written
<1>10. UdTypeOK'
  BY <1>2, <1>3, <1>6, <1>7, <1>8, <1>9 DEF UdInv, UdTypeOK
<1>11. /\ udElement[e].payload =< udElement[e].last
       /\ udElement[e].last =< udElement[e].first
       /\ UdProgress(udElement[e], c)
       => v.payload =< v.last /\ v.last =< v.first /\ UdProgress(v, w)
  <2>1. /\ udElement[e].first \in Nat /\ udElement[e].last \in Nat
        /\ udElement[e].payload \in Nat
    BY <1>3 DEF UdEventType
  <2> QED
    BY <1>1, <1>2, <1>3, <1>6, <1>7, <2>1 DEF UdProgress
<1> QED
  BY <1>1, <1>3, <1>6, <1>7, <1>8, <1>9, <1>10, <1>11, SenderWrites

LEMMA UdInvCopy ==
  ASSUME UdInv, NEW t \in UdsThreads, UdRecvCopy(t) \/ UdRecvCopied(t) \/ UdRecvRead(t)
  PROVE  UdInv'
<1>1. PICK c, e, x : c = udCall[t] /\ e = c.at /\ x = c.event
  OBVIOUS
<1>2. /\ c.pc \in {"copy", "copied", "read"} /\ c \in UdCallType
      /\ udElement \in [UdsElements -> UdEventType] /\ udCall \in [UdsThreads -> UdCallType]
      /\ udElement' = udElement /\ udPeer' = udPeer /\ udSends' = udSends
      /\ udUneven' = udUneven /\ udStale' = udStale /\ udMixed' = udMixed
      /\ udMoved' = udMoved /\ udSpoilt' = udSpoilt
  BY <1>1 DEF UdRecvCopy, UdRecvCopied, UdRecvRead, UdInv, UdTypeOK
<1>3. c.pc \in Receiving /\ {"copied", "read", "report"} \subseteq Receiving
  BY <1>2 DEF Receiving
<1>4. /\ e \in UdsElements /\ x \in UdEventType /\ c.key \in UdsSockets
      /\ c \in [pc : Receiving, key : UdsSockets, by : UdsSockets, at : UdsElements,
                since : Nat, event : UdEventType]
      /\ udElement[e] \in UdEventType
  BY <1>1, <1>2, <1>3, CallKinds, CallRecords
<1>5. PICK y \in UdEventType, pc \in {"copied", "read", "report"}, nr \in Nat :
        /\ udCall' = [udCall EXCEPT ![t] = [c EXCEPT !.pc = pc, !.event = y]]
        /\ Copied(t, nr)
        /\ nr \in {udElement[e].first, udElement[e].last, udElement[e].payload}
        /\ \A m \in Messages(y) : m \in Messages(x) \/ m \in Messages(udElement[e])
        /\ /\ udElement[e].recv = c.by
           /\ c.pc \in {"copied", "read", "report"} => x.recv = c.by
           => y.recv = c.by
        /\ UdSame(c, udElement[e]) => UdSame([c EXCEPT !.pc = pc, !.event = y], udElement[e])
  <2> DEFINE now == udElement[e]
  <2>0. now.first \in Nat /\ now.last \in Nat /\ now.payload \in Nat /\ now.to \in Socks
        /\ now.recv \in Socks
    BY <1>4 DEF UdEventType
  <2>1. CASE UdRecvCopy(t)
    <3>1. PICK y : y = [x EXCEPT !.first = now.first, !.to = now.to, !.recv = now.recv]
      OBVIOUS
    <3>2. /\ y \in UdEventType /\ y.first = now.first /\ y.last = x.last
          /\ y.payload = x.payload /\ y.recv = now.recv
      BY <1>4, <2>0, <3>1 DEF UdEventType
    <3>3. udCall' = [udCall EXCEPT ![t] = [c EXCEPT !.pc = "copied", !.event = y]]
      BY <1>1, <2>1, <3>1 DEF UdRecvCopy
    <3>4. Copied(t, now.first)
      BY <1>1, <2>1 DEF UdRecvCopy
    <3>5. UdSame([c EXCEPT !.pc = "copied", !.event = y], now)
      BY <1>4, <3>2 DEF UdSame
    <3>6. \A m \in Messages(y) : m \in Messages(x) \/ m \in Messages(now)
      BY <3>2 DEF Messages
    <3> QED
      BY <2>0, <3>2, <3>3, <3>4, <3>5, <3>6
  <2>2. CASE UdRecvCopied(t)
    <3>1. PICK y : y = [x EXCEPT !.last = now.last]
      OBVIOUS
    <3>2. /\ y \in UdEventType /\ y.first = x.first /\ y.last = now.last
          /\ y.payload = x.payload /\ y.recv = x.recv
      BY <1>4, <2>0, <3>1 DEF UdEventType
    <3>3. udCall' = [udCall EXCEPT ![t] = [c EXCEPT !.pc = "read", !.event = y]]
      <4>1. udCall' = [udCall EXCEPT ![t].pc = "read", ![t].event.last = now.last]
        BY <1>1, <2>2 DEF UdRecvCopied
      <4> QED
        BY <1>1, <1>2, <1>4, <3>1, <4>1
    <3>4. Copied(t, now.last) /\ c.pc = "copied"
      BY <1>1, <2>2 DEF UdRecvCopied
    <3>5. UdSame(c, now) => UdSame([c EXCEPT !.pc = "read", !.event = y], now)
      BY <1>1, <1>4, <3>2, <3>4 DEF UdSame
    <3>6. \A m \in Messages(y) : m \in Messages(x) \/ m \in Messages(now)
      BY <3>2 DEF Messages
    <3> QED
      BY <2>0, <3>2, <3>3, <3>4, <3>5, <3>6
  <2>3. CASE UdRecvRead(t)
    <3>1. PICK y : y = [x EXCEPT !.payload = now.payload]
      OBVIOUS
    <3>2. /\ y \in UdEventType /\ y.first = x.first /\ y.last = x.last
          /\ y.payload = now.payload /\ y.recv = x.recv
      BY <1>4, <2>0, <3>1 DEF UdEventType
    <3>3. udCall' = [udCall EXCEPT ![t] = [c EXCEPT !.pc = "report", !.event = y]]
      <4>1. udCall' = [udCall EXCEPT ![t].pc = "report", ![t].event.payload = now.payload]
        BY <1>1, <2>3 DEF UdRecvRead
      <4> QED
        BY <1>1, <1>2, <1>4, <3>1, <4>1
    <3>4. Copied(t, now.payload) /\ c.pc = "read"
      BY <1>1, <2>3 DEF UdRecvRead
    <3>5. UdSame(c, now) => UdSame([c EXCEPT !.pc = "report", !.event = y], now)
      BY <1>1, <1>4, <3>2, <3>4 DEF UdSame
    <3>6. \A m \in Messages(y) : m \in Messages(x) \/ m \in Messages(now)
      BY <3>2 DEF Messages
    <3> QED
      BY <2>0, <3>2, <3>3, <3>4, <3>5, <3>6
  <2> QED
    BY <2>1, <2>2, <2>3
<1>6. PICK w : w = [c EXCEPT !.pc = pc, !.event = y]
  OBVIOUS
<1>7. /\ w \in UdCallType /\ w.pc = pc /\ w.key = c.key /\ w.by = c.by /\ w.at = e
      /\ w.since = c.since /\ w.event = y
  BY <1>1, <1>3, <1>4, <1>6 DEF UdCallType
<1>8. udLast' = IF t \notin udSpoilt /\ nr > udLast[c.key] THEN [udLast EXCEPT ![c.key] = nr]
                ELSE udLast
  BY <1>1, <1>5 DEF Copied
<1>9. UdTypeOK'
  BY <1>2, <1>4, <1>5, <1>6, <1>7, <1>8 DEF UdInv, UdTypeOK
<1> QED
  BY <1>1, <1>2, <1>5, <1>6, <1>7, <1>8, <1>9, ReaderCopies

LEMMA UdInvEvict ==
  ASSUME UdInv, NEW e \in UdsElements, UdEvict(e)
  PROVE  UdInv'
<1>1. /\ udElement' = [udElement EXCEPT ![e] = [udElement[e] EXCEPT !.key = NoSock]]
      /\ udStale' = udStale \cup {t \in UdsThreads : HoldsAt(t, e)}
      /\ udSpoilt' = udSpoilt \cup Readers(e)
      /\ udPeer' = udPeer /\ udCall' = udCall /\ udSends' = udSends /\ udLast' = udLast
      /\ udUneven' = udUneven /\ udMixed' = udMixed /\ udMoved' = udMoved
  BY DEF UdEvict, ForgetsUsers
<1>2. UdTypeOK /\ udElement[e] \in UdEventType
  BY DEF UdInv, UdTypeOK
<1>3. PICK v : v = [udElement[e] EXCEPT !.key = NoSock]
  OBVIOUS
<1>4. /\ v \in UdEventType /\ v.key = NoSock /\ v.first = udElement[e].first
      /\ v.last = udElement[e].last /\ v.payload = udElement[e].payload
  BY <1>2, <1>3 DEF UdEventType, Socks
<1>5. UdTypeOK' /\ udElement'[e] = v /\ \A x \in UdsElements : x # e => udElement'[x] = udElement[x]
  BY <1>1, <1>2, <1>3, <1>4 DEF UdTypeOK
<1>6. PICK F \in SUBSET UdsElements, D \in SUBSET UdsThreads : F = {e} /\ D = {}
  OBVIOUS
<1> QED
  BY <1>1, <1>4, <1>5, <1>6, TakenOut

LEMMA UdInvDelete ==
  ASSUME UdInv, NEW t \in UdsThreads, UdRecvDelete(t)
  PROVE  UdInv'
<1>1. /\ udCall[t].pc \in {"report", "delete"} /\ udCall' = [udCall EXCEPT ![t] = UdIdle]
      /\ udMoved' = udMoved \ {t} /\ udPeer' = udPeer /\ udSends' = udSends
      /\ udLast' = udLast /\ udUneven' = udUneven /\ udMixed' = udMixed
  BY DEF UdRecvDelete, Receives
<1>2. UdTypeOK /\ UdIdle \in UdCallType
  BY DEF UdInv, UdIdle, UdCallType
<1>3. /\ udCall'[t] = UdIdle /\ \A u \in UdsThreads : u # t => udCall'[u] = udCall[u]
      /\ udCall' \in [UdsThreads -> UdCallType]
      /\ udCall[t].pc \in Receiving \cup {"delete"}
  BY <1>1, <1>2 DEF UdTypeOK, Receiving
<1>4. PICK D \in SUBSET UdsThreads : D = {t}
  OBVIOUS
<1>5. CASE \E e \in UdsElements :
             /\ udElement[e].key = udCall[t].key
             /\ udElement' = [udElement EXCEPT ![e] = [udElement[e] EXCEPT !.key = NoSock]]
             /\ udStale' = (udStale \cup {u \in UdsThreads : HoldsAt(u, e)}) \ {t}
             /\ udSpoilt' = (udSpoilt \cup Readers(e)) \ {t}
  <2>1. PICK e \in UdsElements :
             /\ udElement[e].key = udCall[t].key
             /\ udElement' = [udElement EXCEPT ![e] = [udElement[e] EXCEPT !.key = NoSock]]
             /\ udStale' = (udStale \cup {u \in UdsThreads : HoldsAt(u, e)}) \ {t}
             /\ udSpoilt' = (udSpoilt \cup Readers(e)) \ {t}
    BY <1>5
  <2>2. PICK v : v = [udElement[e] EXCEPT !.key = NoSock]
    OBVIOUS
  <2>3. /\ v \in UdEventType /\ v.key = NoSock /\ v.first = udElement[e].first
        /\ v.last = udElement[e].last /\ v.payload = udElement[e].payload
    BY <1>2, <2>2 DEF UdTypeOK, UdEventType, Socks
  <2>4. /\ UdTypeOK' /\ udElement'[e] = v
        /\ \A x \in UdsElements : x # e => udElement'[x] = udElement[x]
    BY <1>1, <1>2, <1>3, <2>1, <2>2, <2>3 DEF UdTypeOK
  <2>5. PICK F \in SUBSET UdsElements : F = {e}
    OBVIOUS
  <2>6. \A x \in UdsElements : udElement[x].key = udCall[t].key => x \in F
    <3>1. udCall[t].key \in UdsSockets
      BY <1>2, <1>3, CallKinds DEF UdTypeOK
    <3> QED
      BY <2>1, <2>5, <3>1, UdsAssumption DEF UdInv, UdOneEntry
  <2>7. /\ \A x \in F : udElement'[x].key = NoSock
                         /\ udElement'[x].first = udElement[x].first
                         /\ udElement'[x].last = udElement[x].last
                         /\ udElement'[x].payload = udElement[x].payload
        /\ \A x \in UdsElements : x \notin F => udElement'[x] = udElement[x]
    BY <2>3, <2>4, <2>5
  <2>8. /\ \A u \in UdsThreads : u \notin D => udCall'[u] = udCall[u]
        /\ \A u \in D : /\ udCall[u].pc \in Receiving \cup {"delete"} /\ udCall'[u] = UdIdle
                         /\ \A x \in UdsElements : udElement[x].key = udCall[u].key => x \in F
    BY <1>3, <1>4, <2>6
  <2>9. \A u \in UdsThreads :
            /\ u \in udStale' <=> (u \in udStale \/ \E x \in F : HoldsAt(u, x)) /\ u \notin D
            /\ u \in udSpoilt' <=> (u \in udSpoilt \/ \E x \in F : u \in Readers(x)) /\ u \notin D
            /\ u \notin D => (u \in udMoved' <=> u \in udMoved)
    BY <1>1, <1>4, <2>1, <2>5
  <2> QED
    BY <1>1, <2>4, <2>7, <2>8, <2>9, TakenOut
<1>6. CASE /\ \A e \in UdsElements : udElement[e].key # udCall[t].key
           /\ udSpoilt' = udSpoilt \ {t}
           /\ udStale' = udStale \ {t}
           /\ udElement' = udElement
  <2>1. UdTypeOK'
    BY <1>1, <1>2, <1>3, <1>6 DEF UdTypeOK
  <2>2. PICK F \in SUBSET UdsElements : F = {}
    OBVIOUS
  <2>3. /\ \A x \in F : udElement'[x].key = NoSock
                         /\ udElement'[x].first = udElement[x].first
                         /\ udElement'[x].last = udElement[x].last
                         /\ udElement'[x].payload = udElement[x].payload
        /\ \A x \in UdsElements : x \notin F => udElement'[x] = udElement[x]
    BY <1>6, <2>2
  <2>4. /\ \A u \in UdsThreads : u \notin D => udCall'[u] = udCall[u]
        /\ \A u \in D : /\ udCall[u].pc \in Receiving \cup {"delete"} /\ udCall'[u] = UdIdle
                         /\ \A x \in UdsElements : udElement[x].key = udCall[u].key => x \in F
    BY <1>3, <1>4, <1>6
  <2>5. \A u \in UdsThreads :
            /\ u \in udStale' <=> (u \in udStale \/ \E x \in F : HoldsAt(u, x)) /\ u \notin D
            /\ u \in udSpoilt' <=> (u \in udSpoilt \/ \E x \in F : u \in Readers(x)) /\ u \notin D
            /\ u \notin D => (u \in udMoved' <=> u \in udMoved)
    BY <1>1, <1>4, <1>6, <2>2
  <2> QED
    BY <1>1, <2>1, <2>3, <2>4, <2>5, TakenOut
<1> QED
  BY <1>5, <1>6 DEF UdRecvDelete


LEMMA UdInvRecvFind ==
  ASSUME UdInv, NEW t \in UdsThreads, NEW s \in UdsSockets, UdRecvFind(t, s)
  PROVE  UdInv'
<1>1. /\ udCall[t] = UdIdle /\ udCall[t].pc = "idle" /\ udSends \in Nat
      /\ udElement \in [UdsElements -> UdEventType] /\ udCall \in [UdsThreads -> UdCallType]
      /\ udLast \in [UdsSockets -> Nat] /\ UdBounded /\ UdThreadOK(t)
      /\ udPeer' = udPeer /\ udElement' = udElement /\ udSends' = udSends /\ udLast' = udLast
      /\ udUneven' = udUneven /\ udStale' = udStale /\ udMixed' = udMixed
      /\ udMoved' = udMoved
  BY DEF UdRecvFind, UdIdle, UdInv, UdTypeOK
<1>2. PICK e \in UdsElements :
        /\ udPeer[s] # NoSock /\ udElement[e].key = udPeer[s]
        /\ udCall' = [udCall EXCEPT ![t] =
              [pc |-> "mark", key |-> udPeer[s], by |-> s, at |-> e, since |-> udLast[udPeer[s]],
               event |-> ZeroEvent(NoSock)]]
        /\ udSpoilt' = IF Readers(e) # {} \/ e \in udMixed
                       THEN udSpoilt \cup Readers(e) \cup {t} ELSE udSpoilt
  BY DEF UdRecvFind
<1>3. PICK k : k = udPeer[s]
  OBVIOUS
<1>4. PICK w : w = [pc |-> "mark", key |-> k, by |-> s, at |-> e, since |-> udLast[k],
                    event |-> ZeroEvent(NoSock)]
  OBVIOUS
<1>5. k \in UdsSockets /\ udElement[e].key = k /\ k # NoSock
  BY <1>2, <1>3 DEF UdInv, UdTypeOK, Socks
<1>6. /\ w \in UdCallType /\ w.pc = "mark" /\ w.key = k /\ w.by = s /\ w.at = e
      /\ w.since = udLast[k] /\ Messages(w.event) = {}
      /\ w.pc \in Receiving /\ udCall[t].pc \notin Receiving /\ udCall[t].pc \notin Filling
      /\ w.pc \notin Filling
  <2>1. ZeroEvent(NoSock) \in UdEventType /\ Messages(ZeroEvent(NoSock)) = {}
    BY ZeroFields DEF Socks
  <2> QED
    BY <1>1, <1>4, <1>5, <2>1 DEF UdCallType, Receiving, Filling
<1>7. /\ udCall' = [udCall EXCEPT ![t] = w] /\ udCall'[t] = w
      /\ \A u \in UdsThreads : u # t => udCall'[u] = udCall[u]
  BY <1>1, <1>2, <1>3, <1>4
<1>8. UdTypeOK'
  BY <1>1, <1>6, <1>7 DEF UdInv, UdTypeOK
<1>9. \A u \in UdsThreads : \A x : /\ Sends(u, x)' <=> Sends(u, x)
                                   /\ Sends(u, x)' => u # t /\ udCall'[u] = udCall[u]
  BY <1>1, <1>6, <1>7 DEF Sends
<1>10. \A f : \A u : u \in Readers(f)' <=> u \in Readers(f) \/ (u = t /\ f = e)
  BY <1>6, <1>7 DEF Readers
<1>11. t \notin udStale
  BY <1>1, <1>6 DEF UdThreadOK
<1>12. \A f \in UdsElements : UdUntouched(f)' => UdUntouched(f)
  <2>1. \A f : t \notin Readers(f)
    BY <1>6 DEF Readers
  <2> QED
    BY <1>1, <1>7, <1>10, <2>1 DEF UdUntouched
<1>13. UdOneEntry' /\ UdBounded'
  BY <1>1 DEF UdInv, UdOneEntry, UdBounded
<1>14. ASSUME NEW u \in UdsThreads PROVE UdThreadOK(u)'
  <2>1. CASE u = t
    BY <1>1, <1>5, <1>6, <1>7, <1>11, <2>1 DEF UdThreadOK, UdBounded
  <2>2. CASE u # t
    <3>1. u \in udStale' /\ udCall[u].pc \in Receiving => u \in udSpoilt'
      BY <1>1, <1>2 DEF UdInv, UdThreadOK
    <3> QED
      BY <1>1, <1>7, <2>2, <3>1, ThreadKept
  <2> QED
    BY <2>1, <2>2
<1>15. ASSUME NEW x \in UdsSockets PROVE UdOneSender(x)'
  <2>1. UdOneSender(x)
    BY DEF UdInv
  <2> QED
    BY <1>1, <1>9, <2>1 DEF UdOneSender
<1>16. ASSUME NEW f \in UdsElements PROVE UdEntryOK(f)'
  <2>1. \A x \in UdsThreads : Sends(x, udElement[f].key)' =>
           /\ Sends(x, udElement[f].key) /\ udCall'[x].nr = udCall[x].nr
           /\ UdProgress(udElement[f], udCall[x]) => UdProgress(udElement[f], udCall'[x])
    BY <1>1, <1>9
  <2>2. /\ udElement'[f] = udElement[f] /\ (f \notin udMixed' => f \notin udMixed)
        /\ udElement[f].key \notin udUneven' => udElement[f].key \notin udUneven
        /\ UdUntouched(f)' => /\ UdUntouched(f)
                              /\ udLast'[udElement[f].key] = udLast[udElement[f].key]
    BY <1>1, <1>12
  <2> QED
    BY <2>1, <2>2, EntryKept
<1>17. ASSUME NEW u \in UdsThreads, u # t PROVE UdReaderOK(u)'
  <2> SUFFICES ASSUME udCall[u].pc \in Receiving, u \notin udSpoilt' PROVE UdReaderOK(u)'
    BY <1>7, <1>17 DEF UdReaderOK
  <2>1. u \notin udSpoilt
    BY <1>2
  <2>2. udCall[u].at # e
    BY <1>2 DEF Readers
  <2>3. \A x \in UdsThreads : x \in Readers(udCall[u].at)' => x \in Readers(udCall[u].at)
    BY <1>7, <1>10, <1>17, <2>2
  <2>4. /\ udElement'[udCall[u].at] = udElement[udCall[u].at]
        /\ udCall[u].at \notin udMixed => udCall[u].at \notin udMixed'
        /\ u \notin udMoved' => u \notin udMoved
        /\ udCall[u].key \notin udUneven' =>
              /\ udCall[u].key \notin udUneven
              /\ \A x \in UdsThreads : Sends(x, udCall[u].key)' =>
                    \/ udCall'[x].nr > udCall[u].since
                    \/ Sends(x, udCall[u].key) /\ udCall'[x].nr = udCall[x].nr
    BY <1>1, <1>7, <1>9, <1>17
  <2>5. udCall'[u] = udCall[u]
    BY <1>7, <1>17
  <2> QED
    BY <2>1, <2>3, <2>4, <2>5, ReaderKept
<1>18. UdReaderOK(t)'
  <2> SUFFICES ASSUME t \notin udSpoilt' PROVE UdReaderOK(t)'
    BY DEF UdReaderOK
  <2>1. Readers(e) = {} /\ e \notin udMixed
    BY <1>2
  <2>2. UdUntouched(e)
    BY <2>1 DEF UdUntouched
  <2>3. \A u \in UdsThreads : u \in Readers(e)' => u = t
    BY <1>10, <2>1
  <2>4. k \notin udUneven =>
           /\ \A nr \in Messages(udElement[e]) : nr > udLast[k]
           /\ \A u \in UdsThreads : Sends(u, k) => udCall[u].nr > udLast[k]
    <3>1. UdEntryOK(e)
      BY DEF UdInv
    <3> QED
      BY <1>5, <2>1, <2>2, <3>1 DEF UdEntryOK
  <2>5. k \notin udUneven => \A u \in UdsThreads : Sends(u, k)' => udCall'[u].nr > udLast[k]
    BY <1>9, <2>4
  <2>6. UdSame(w, udElement[e])
    BY <1>6 DEF UdSame
  <2> QED
    BY <1>1, <1>6, <1>7, <2>1, <2>3, <2>4, <2>5, <2>6 DEF UdReaderOK
<1> QED
  BY <1>8, <1>13, <1>14, <1>15, <1>16, <1>17, <1>18 DEF UdInv

LEMMA UdInvRecvMark ==
  ASSUME UdInv, NEW t \in UdsThreads, UdRecvMark(t)
  PROVE  UdInv'
<1>1. PICK c, e, k : c = udCall[t] /\ e = c.at /\ k = c.key
  OBVIOUS
<1>2. /\ c.pc = "mark" /\ c \in UdCallType /\ udCall \in [UdsThreads -> UdCallType]
      /\ udElement \in [UdsElements -> UdEventType] /\ udSends \in Nat /\ UdBounded
      /\ UdThreadOK(t) /\ udStale \subseteq UdsThreads
      /\ udPeer' = udPeer /\ udSends' = udSends /\ udLast' = udLast /\ udUneven' = udUneven
      /\ udMoved' = udMoved
  BY <1>1 DEF UdRecvMark, UdInv, UdTypeOK
<1>3. c.pc \in Receiving /\ c.pc \notin Filling /\ "copy" \in Receiving /\ "copy" \notin Filling
      /\ "delete" \notin Receiving /\ "delete" \notin Filling
  BY <1>2 DEF Receiving, Filling
<1>4. /\ e \in UdsElements /\ k \in UdsSockets /\ c.by \in UdsSockets
      /\ c \in [pc : Receiving, key : UdsSockets, by : UdsSockets, at : UdsElements,
                since : Nat, event : UdEventType]
      /\ udElement[e] \in UdEventType
  BY <1>1, <1>2, <1>3, CallKinds, CallRecords
<1>5. PICK v : v = [udElement[e] EXCEPT !.recv = c.by]
  OBVIOUS
<1>6. /\ v \in UdEventType /\ v.key = udElement[e].key /\ v.first = udElement[e].first
      /\ v.last = udElement[e].last /\ v.payload = udElement[e].payload /\ v.recv = c.by
      /\ Messages(v) = Messages(udElement[e])
  BY <1>4, <1>5 DEF UdEventType, Socks, Messages
<1>7. /\ udElement' = [udElement EXCEPT ![e] = v]
      /\ udMixed' = IF t \in udStale THEN udMixed \cup {e} ELSE udMixed
      /\ udSpoilt' = IF t \in udStale THEN udSpoilt \cup Readers(e) ELSE udSpoilt
  BY <1>1, <1>5 DEF UdRecvMark, Written
<1>8. PICK w : /\ udCall' = [udCall EXCEPT ![t] = w]
               /\ \/ w = [c EXCEPT !.pc = "copy"] /\ udStale' = udStale
                  \/ w = [pc |-> "delete", key |-> k] /\ udStale' = udStale \ {t}
  <2>1. CASE udCall' = [udCall EXCEPT ![t].pc = "copy"] /\ udStale' = udStale
    <3>1. udCall' = [udCall EXCEPT ![t] = [c EXCEPT !.pc = "copy"]]
      BY <1>1, <2>1
    <3> QED
      BY <2>1, <3>1
  <2>2. CASE /\ udCall' = [udCall EXCEPT ![t] = [pc |-> "delete", key |-> k]]
             /\ udStale' = udStale \ {t}
    BY <2>2
  <2> QED
    BY <1>1, <2>1, <2>2 DEF UdRecvMark
<1>9. /\ w \in UdCallType
      /\ \/ /\ w.pc = "copy" /\ w.key = k /\ w.by = c.by /\ w.at = e /\ w.since = c.since
            /\ w.event = c.event /\ udStale' = udStale
         \/ w.pc = "delete" /\ udStale' = udStale \ {t}
  <2>1. CASE w = [c EXCEPT !.pc = "copy"] /\ udStale' = udStale
    BY <1>1, <1>3, <1>4, <2>1 DEF UdCallType
  <2>2. CASE w = [pc |-> "delete", key |-> k] /\ udStale' = udStale \ {t}
    BY <1>4, <2>2 DEF UdCallType
  <2> QED
    BY <1>8, <2>1, <2>2
<1>10. /\ udCall'[t] = w /\ \A u \in UdsThreads : u # t => udCall'[u] = udCall[u]
       /\ udElement'[e] = v /\ \A f \in UdsElements : f # e => udElement'[f] = udElement[f]
       /\ udCall' \in [UdsThreads -> UdCallType]
       /\ udElement' \in [UdsElements -> UdEventType]
  BY <1>2, <1>4, <1>6, <1>7, <1>8, <1>9
<1>11. UdTypeOK'
  BY <1>2, <1>9, <1>10 DEF UdInv, UdTypeOK
<1>12. \A u \in UdsThreads : \A x : /\ Sends(u, x)' <=> Sends(u, x)
                                    /\ Sends(u, x)' => u # t /\ udCall'[u] = udCall[u]
  <2>1. w.pc \notin {"fill", "filled", "build", "payload"}
        /\ c.pc \notin {"fill", "filled", "build", "payload"}
    BY <1>2, <1>9
  <2> QED
    BY <1>1, <1>10, <2>1 DEF Sends
<1>13. /\ \A f : \A u : u \in Readers(f)' => u \in Readers(f)
       /\ \A f : \A u : u # t => (u \in Readers(f)' <=> u \in Readers(f))
       /\ t \in Readers(e)
       /\ w.pc \notin Filling
  <2>1. w.pc \in Receiving => w.at = c.at
    BY <1>1, <1>3, <1>9
  <2> QED
    BY <1>1, <1>3, <1>9, <1>10, <2>1 DEF Readers
<1>14. \A u \in UdsThreads : /\ u # t => (u \in udStale' <=> u \in udStale)
                             /\ u \in udStale' => u \in udStale
  BY <1>9
<1>15. \A f \in UdsElements : UdUntouched(f)' => UdUntouched(f)
  BY <1>1, <1>2, <1>10, <1>13, <1>14 DEF UdUntouched
<1>16. \A f \in UdsElements : udElement'[f].key = udElement[f].key
  BY <1>6, <1>10
<1>17. UdOneEntry' /\ UdBounded'
  <2>1. UdOneEntry'
    BY <1>16 DEF UdInv, UdOneEntry
  <2> QED
    BY <1>2, <1>4, <1>6, <1>10, <2>1 DEF UdBounded
<1>18. ASSUME NEW u \in UdsThreads PROVE UdThreadOK(u)'
  <2>1. CASE u = t
    <3>1. w.pc \notin {"fill", "filled", "build", "payload"}
      BY <1>9
    <3>2. CASE w.pc = "copy"
      <4>1. w.key = k /\ w.at = e /\ w.since = c.since /\ udStale' = udStale
        BY <1>9, <3>2
      <4> QED
        BY <1>1, <1>2, <1>3, <1>4, <1>7, <1>10, <1>16, <2>1, <3>1, <3>2, <4>1 DEF UdThreadOK
    <3>3. CASE w.pc = "delete"
      <4>1. t \notin udStale'
        BY <1>9, <3>3
      <4> QED
        BY <1>3, <1>10, <2>1, <3>1, <3>3, <4>1 DEF UdThreadOK
    <3> QED
      BY <1>9, <3>2, <3>3
  <2>2. CASE u # t
    <3>1. u \in udStale' /\ udCall[u].pc \in Receiving => u \in udSpoilt'
      BY <1>7, <1>14 DEF UdInv, UdThreadOK
    <3>2. udCall[u].pc \in Filling \cup Receiving =>
             udElement'[udCall[u].at].key = udElement[udCall[u].at].key
      BY <1>2, <1>16, CallKinds
    <3> QED
      BY <1>2, <1>10, <1>14, <2>2, <3>1, <3>2, ThreadKept
  <2> QED
    BY <2>1, <2>2
<1>19. ASSUME NEW x \in UdsSockets PROVE UdOneSender(x)'
  <2>1. UdOneSender(x)
    BY DEF UdInv
  <2> QED
    BY <1>2, <1>12, <1>14, <1>16, <2>1 DEF UdOneSender
<1>20. ASSUME NEW f \in UdsElements, f # e PROVE UdEntryOK(f)'
  <2>1. \A x \in UdsThreads : Sends(x, udElement[f].key)' =>
           /\ Sends(x, udElement[f].key) /\ udCall'[x].nr = udCall[x].nr
           /\ UdProgress(udElement[f], udCall[x]) => UdProgress(udElement[f], udCall'[x])
    BY <1>10, <1>12, <1>20
  <2>2. f \notin udMixed' => f \notin udMixed
    BY <1>7
  <2>3. /\ udElement'[f] = udElement[f]
        /\ udElement[f].key \notin udUneven' => udElement[f].key \notin udUneven
        /\ UdUntouched(f)' => /\ UdUntouched(f)
                              /\ udLast'[udElement[f].key] = udLast[udElement[f].key]
    BY <1>2, <1>10, <1>15, <1>20
  <2> QED
    BY <2>1, <2>2, <2>3, EntryKept
<1>21. UdEntryOK(e)'
  <2> SUFFICES ASSUME v.key # NoSock, v.key \notin udUneven, e \notin udMixed'
               PROVE  UdEntryOK(e)'
    BY <1>2, <1>10 DEF UdEntryOK
  <2>1. PICK old : old = udElement[e]
    OBVIOUS
  <2>2. /\ old.payload =< old.last /\ old.last =< old.first
        /\ \A u \in UdsThreads : Sends(u, old.key) => UdProgress(old, udCall[u])
        /\ UdUntouched(e) =>
              /\ \A nr \in Messages(old) : nr > udLast[old.key]
              /\ \A u \in UdsThreads : Sends(u, old.key) => udCall[u].nr > udLast[old.key]
    <3>1. UdEntryOK(e) /\ e \notin udMixed
      BY <1>4, <1>7 DEF UdInv
    <3> QED
      BY <1>6, <2>1, <3>1 DEF UdEntryOK
  <2>3. \A u \in UdsThreads : Sends(u, v.key)' => UdProgress(v, udCall'[u])
    BY <1>6, <1>12, <2>1, <2>2 DEF UdProgress
  <2>4. UdUntouched(e)' =>
           /\ \A nr \in Messages(v) : nr > udLast[v.key]
           /\ \A u \in UdsThreads : Sends(u, v.key)' => udCall'[u].nr > udLast[v.key]
    BY <1>4, <1>6, <1>12, <1>15, <2>1, <2>2
  <2> QED
    BY <1>2, <1>6, <1>10, <2>1, <2>2, <2>3, <2>4 DEF UdEntryOK
<1>22. ASSUME NEW u \in UdsThreads, u # t PROVE UdReaderOK(u)'
  <2> SUFFICES ASSUME udCall[u].pc \in Receiving, u \notin udSpoilt' PROVE UdReaderOK(u)'
    BY <1>10, <1>22 DEF UdReaderOK
  <2>1. u \notin udSpoilt /\ UdReaderOK(u) /\ udCall[u].at \in UdsElements
    BY <1>2, <1>7, CallKinds DEF UdInv
  <2>2. udCall[u].at # e
    BY <1>13, <1>22, <2>1 DEF UdReaderOK
  <2> QED
    BY <1>2, <1>7, <1>10, <1>12, <1>13, <1>22, <2>1, <2>2, ReaderKept
<1>23. UdReaderOK(t)'
  <2> SUFFICES ASSUME w.pc \in Receiving, t \notin udSpoilt' PROVE UdReaderOK(t)'
    BY <1>10 DEF UdReaderOK
  <2>1. t \notin udStale /\ t \notin udSpoilt /\ udMixed' = udMixed
    BY <1>7, <1>13
  <2>2. w.pc = "copy" /\ w.key = k /\ w.by = c.by /\ w.at = e /\ w.since = c.since
        /\ w.event = c.event
    BY <1>3, <1>9
  <2>3. /\ e \notin udMixed
        /\ \A u \in UdsThreads : u \in Readers(e) => u = t
        /\ k \notin udUneven =>
              /\ \A nr \in Messages(udElement[e]) : nr > c.since
              /\ \A nr \in Messages(c.event) : nr > c.since
              /\ \A u \in UdsThreads : Sends(u, k) => udCall[u].nr > c.since
    <3>1. UdReaderOK(t)
      BY DEF UdInv
    <3> QED
      BY <1>1, <1>3, <2>1, <3>1 DEF UdReaderOK
  <2>4. UdSame(w, v)
    BY <2>2 DEF UdSame
  <2>5. k \notin udUneven =>
           /\ \A nr \in Messages(v) : nr > c.since
           /\ \A u \in UdsThreads : Sends(u, k)' => udCall'[u].nr > c.since
    BY <1>6, <1>12, <2>3
  <2>6. \A u \in UdsThreads : u \in Readers(e)' => u = t
    BY <1>13, <2>3
  <2> QED
    BY <1>2, <1>6, <1>10, <2>1, <2>2, <2>3, <2>4, <2>5, <2>6 DEF UdReaderOK
<1> QED
  BY <1>4, <1>11, <1>17, <1>18, <1>19, <1>20, <1>21, <1>22, <1>23 DEF UdInv

LEMMA UdInvNext == UdInv /\ [UdsNext]_udVars => UdInv'
<1> SUFFICES ASSUME UdInv, [UdsNext]_udVars PROVE UdInv'
  OBVIOUS
<1>1. ASSUME NEW t \in UdsThreads,
             \/ UdSendFill(t) \/ UdSendFilled(t) \/ UdPayloadFind(t) \/ UdPayload(t)
             \/ UdSendEnd(t) \/ UdRecvMark(t) \/ UdRecvCopy(t) \/ UdRecvCopied(t)
             \/ UdRecvRead(t) \/ UdRecvDelete(t)
      PROVE  UdInv'
  BY <1>1, UdInvSendFill, UdInvSendFilled, UdInvPayloadFind, UdInvPayload, UdInvSendEnd,
     UdInvRecvMark, UdInvCopy, UdInvDelete
<1>2. ASSUME NEW t \in UdsThreads, NEW s \in UdsSockets, UdRecvFind(t, s) PROVE UdInv'
  BY <1>2, UdInvRecvFind
<1>3. ASSUME NEW t \in UdsThreads, NEW from \in UdsSockets, NEW to \in UdsSockets,
             UdSendEnter(t, from, to) \/ UdSendUnseen(t, from, to)
      PROVE  UdInv'
  BY <1>3, UdInvSendEnter, UdInvSendUnseen
<1>4. ASSUME NEW e \in UdsElements, UdEvict(e) PROVE UdInv'
  BY <1>4, UdInvEvict
<1>5. CASE UNCHANGED udVars
  <2>1. /\ udPeer' = udPeer /\ udElement' = udElement /\ udCall' = udCall /\ udSends' = udSends
        /\ udLast' = udLast /\ udUneven' = udUneven /\ udStale' = udStale
        /\ udMixed' = udMixed /\ udMoved' = udMoved /\ udSpoilt' = udSpoilt
    BY <1>5 DEF udVars
  <2>2. UdTypeOK' /\ UdOneEntry' /\ UdBounded'
    BY <2>1 DEF UdInv, UdTypeOK, UdOneEntry, UdBounded
  <2>3. \A t \in UdsThreads : UdThreadOK(t)'
    BY <2>1 DEF UdInv, UdThreadOK
  <2>4. \A k \in UdsSockets : UdOneSender(k)'
    BY <2>1 DEF UdInv, UdOneSender, Sends
  <2>5. \A e \in UdsElements : UdEntryOK(e)'
    BY <2>1 DEF UdInv, UdEntryOK, UdUntouched, Readers, Sends
  <2>6. \A t \in UdsThreads : UdReaderOK(t)'
    BY <2>1 DEF UdInv, UdReaderOK, Readers, Sends
  <2> QED
    BY <2>2, <2>3, <2>4, <2>5, <2>6 DEF UdInv
<1> QED
  BY <1>1, <1>2, <1>3, <1>4, <1>5 DEF UdsNext

LEMMA UdInvHolds == UdsSpec => []UdInv
  BY UdInvInit, UdInvNext, PTL DEF UdsSpec

LEMMA UdInvAdvances == UdInv => UdReportsAdvance
<1> SUFFICES ASSUME UdInv, NEW t \in UdsThreads, udCall[t].pc = "report", t \notin udSpoilt,
                    udCall[t].key \notin udUneven
             PROVE  /\ \A nr \in Messages(udCall[t].event) : nr > udCall[t].since
                    /\ udCall[t].event.recv = udCall[t].by
                    /\ t \notin udMoved => /\ udCall[t].event.payload =< udCall[t].event.last
                                           /\ udCall[t].event.last =< udCall[t].event.first
  BY DEF UdReportsAdvance
<1>1. /\ udCall[t] \in UdCallType /\ udCall[t].pc \in Receiving /\ UdReaderOK(t)
      /\ UdThreadOK(t)
  BY DEF UdInv, UdTypeOK, Receiving
<1>2. PICK e, k : e = udCall[t].at /\ k = udCall[t].key
  OBVIOUS
<1>3. e \in UdsElements /\ k \in UdsSockets /\ k # NoSock
  BY <1>1, <1>2, CallKinds, UdsAssumption
<1>4. /\ e \notin udMixed /\ udCall[t].event.recv = udCall[t].by
      /\ \A nr \in Messages(udCall[t].event) : nr > udCall[t].since
      /\ t \notin udMoved => UdSame(udCall[t], udElement[e])
  BY <1>1, <1>2 DEF UdReaderOK
<1>5. udElement[e].key = k
  BY <1>1, <1>2 DEF UdThreadOK
<1>6. udElement[e].payload =< udElement[e].last /\ udElement[e].last =< udElement[e].first
  BY <1>2, <1>3, <1>4, <1>5 DEF UdInv, UdEntryOK
<1> QED
  BY <1>4, <1>6 DEF UdSame

(* What a receiver reports of a sender whose sends do not overlap is of    *)
(* messages that nobody had copied when it found the entry, carries its    *)
(* own name, and has no payload of a later message than its fields, unless *)
(* the entry was written meanwhile (unix_stream_sendmsg, maybe_add_creds,  *)
(* unix_stream_recvmsg of uds.bpf.c), for any number of sockets, threads,  *)
(* elements and sends.                                                     *)
THEOREM SocketReportsAdvance == UdsSpec => []UdReportsAdvance
  BY UdInvHolds, UdInvAdvances, PTL
----------------------------------------------------------------------------
(* ShmTrace: a mapping is reported with the arguments of its own call.     *)
USE ShmAssumption

ShReturnType == [pc : {"report"}, nr : Nat, elem : ShElements, reused : BOOLEAN]

(* Type invariant of the mapping trace; what was not called yet was        *)
(* neither recorded nor reported.                                          *)
ShTypeOK ==
    /\ shAttached \in 0 .. 2
    /\ DOMAIN shCall = ShThreads
    /\ DOMAIN shMap \subseteq ShThreads
    /\ \A t \in DOMAIN shMap : shMap[t] \in ShElements
    /\ shElem \in [ShElements -> Nat]
    /\ shCalls \in Nat
    /\ \A n \in shEarly \cup shReported : n \in Nat /\ n =< shCalls

(* A thread holds an element from the entry of a call until its return has *)
(* read it, unless another thread took it before.                          *)
ShHolds(t) == t \in DOMAIN shMap \/ (shCall[t].pc = "report" /\ ~shCall[t].reused)

ElementOf(t) == IF t \in DOMAIN shMap THEN shMap[t] ELSE shCall[t].elem

Arguments(t) == shElem[ElementOf(t)]

(* The arguments of a call that was recorded before the return was         *)
(* attached.                                                               *)
EarlyBefore(data, nr) == data \in shEarly /\ data < nr

(* What a thread does, and the call whose arguments it holds.              *)
ShThreadOK(t) ==
    /\ shCall[t] = ShUser \/ shCall[t].pc \in {"in", "report"}
    /\ shCall[t].pc \in {"in", "report"} => shCall[t].nr \in Nat /\ shCall[t].nr =< shCalls
    /\ shCall[t].pc = "report" => shCall[t] \in ShReturnType /\ t \notin DOMAIN shMap
    /\ ShHolds(t) =>
          /\ Arguments(t) =< shCalls
          /\ Arguments(t) \notin shReported
          /\ shCall[t].pc = "user" \/ shAttached < 2 => Arguments(t) \in shEarly
          /\ shCall[t].pc \in {"in", "report"} =>
                Arguments(t) = shCall[t].nr \/ EarlyBefore(Arguments(t), shCall[t].nr)

(* No two threads hold the same element or the arguments of one call.      *)
ShHoldApart(t, u) ==
    ShHolds(t) /\ ShHolds(u) => ElementOf(t) # ElementOf(u) /\ Arguments(t) # Arguments(u)

ShInv ==
    /\ ShTypeOK
    /\ \A t \in ShThreads : ShThreadOK(t)
    /\ \A t, u \in ShThreads : t # u => ShHoldApart(t, u)
    /\ ShReportsOwnCall

LEMMA ShInvInit == ShmInit => ShInv
  BY DEF ShmInit, ShInv, ShTypeOK, ShThreadOK, ShHolds, ShHoldApart, ShReportsOwnCall, ShUser,
         ShNoReport

(* A step after which a thread holds nothing that it did not hold before.  *)
LEMMA HoldsKept ==
  ASSUME NEW u, ShThreadOK(u), shCalls \in Nat, shCalls' \in Nat, shCalls' >= shCalls,
         \/ shCall'[u] = shCall[u]
         \/ /\ shCall[u].pc = "report" /\ shCall'[u].pc = "report"
            /\ shCall'[u].nr = shCall[u].nr
            /\ shCall'[u] \in ShReturnType,
         u \in DOMAIN shMap' <=> u \in DOMAIN shMap,
         ShHolds(u)' => ShHolds(u) /\ Arguments(u)' = Arguments(u) /\ Arguments(u) \in Nat,
         ShHolds(u) => (Arguments(u) \in shReported' => Arguments(u) \in shReported),
         \A n \in shEarly : n \in shEarly',
         shAttached' < 2 => shAttached < 2
  PROVE  ShThreadOK(u)'
<1>1. /\ shCall'[u] = ShUser \/ shCall'[u].pc \in {"in", "report"}
      /\ shCall'[u].pc \in {"in", "report"} => shCall'[u].nr \in Nat /\ shCall'[u].nr =< shCalls'
      /\ shCall'[u].pc = "report" => shCall'[u] \in ShReturnType /\ u \notin DOMAIN shMap'
      /\ shCall'[u].pc = shCall[u].pc
      /\ shCall[u].pc \in {"in", "report"} => shCall'[u].nr = shCall[u].nr
  BY DEF ShThreadOK
<1>2. ASSUME ShHolds(u)'
      PROVE  /\ Arguments(u)' =< shCalls'
             /\ Arguments(u)' \notin shReported'
             /\ shCall'[u].pc = "user" \/ shAttached' < 2 => Arguments(u)' \in shEarly'
             /\ shCall'[u].pc \in {"in", "report"} =>
                   \/ Arguments(u)' = shCall'[u].nr
                   \/ Arguments(u)' \in shEarly' /\ Arguments(u)' < shCall'[u].nr
  BY <1>1, <1>2 DEF ShThreadOK, EarlyBefore
<1> QED
  BY <1>1, <1>2 DEF ShThreadOK, EarlyBefore

LEMMA ApartKept ==
  ASSUME NEW t, NEW u, ShHoldApart(t, u),
         ShHolds(t)' => /\ ShHolds(t) /\ ElementOf(t)' = ElementOf(t)
                        /\ Arguments(t)' = Arguments(t),
         ShHolds(u)' => /\ ShHolds(u) /\ ElementOf(u)' = ElementOf(u)
                        /\ Arguments(u)' = Arguments(u)
  PROVE  ShHoldApart(t, u)'
  BY DEF ShHoldApart

(* What a thread holds is an element.                                      *)
LEMMA HoldsElement ==
  ASSUME ShTypeOK, NEW u \in ShThreads, ShThreadOK(u), ShHolds(u)
  PROVE  ElementOf(u) \in ShElements /\ Arguments(u) \in Nat
  BY DEF ShTypeOK, ShThreadOK, ShHolds, ElementOf, Arguments, ShReturnType

LEMMA ShInvNext == ShInv /\ [ShmNext]_shVars => ShInv'
<1> SUFFICES ASSUME ShInv, [ShmNext]_shVars
             PROVE  ShInv'
  OBVIOUS
<1>a. /\ ShTypeOK /\ ShReportsOwnCall
      /\ \A t \in ShThreads : ShThreadOK(t)
      /\ \A t, u \in ShThreads : t # u => ShHoldApart(t, u)
      /\ shCalls \in Nat
  BY DEF ShInv, ShTypeOK
<1>n. ASSUME shReport' = ShNoReport PROVE ShReportsOwnCall'
  BY <1>n DEF ShReportsOwnCall
<1>1. CASE ShAttach
  <2>1. /\ shAttached < 2 /\ shAttached' = shAttached + 1 /\ shReport' = ShNoReport
        /\ UNCHANGED <<shCall, shMap, shElem, shCalls, shEarly, shReported>>
    BY <1>1 DEF ShAttach
  <2>2. ShTypeOK'
    BY <1>a, <2>1 DEF ShTypeOK
  <2>3. ASSUME NEW u \in ShThreads
        PROVE  /\ ShHolds(u)' <=> ShHolds(u)
               /\ ElementOf(u)' = ElementOf(u) /\ Arguments(u)' = Arguments(u)
    BY <2>1 DEF ShHolds, ElementOf, Arguments
  <2>4. ASSUME NEW u \in ShThreads PROVE ShThreadOK(u)'
    <3>1. shAttached' < 2 => shAttached < 2
      BY <1>a, <2>1 DEF ShTypeOK
    <3> QED
      BY <1>a, <2>1, <2>3, <3>1, HoldsKept, HoldsElement
  <2>5. ASSUME NEW t \in ShThreads, NEW u \in ShThreads, t # u PROVE ShHoldApart(t, u)'
    BY <1>a, <2>3, <2>5, ApartKept
  <2> QED
    BY <1>n, <2>1, <2>2, <2>4, <2>5 DEF ShInv
<1>2. ASSUME NEW t \in ShThreads, ShEnter(t) PROVE ShInv'
  <2> DEFINE n == shCalls + 1
             inside == [pc |-> "in", nr |-> n]
  <2>1. /\ shCall[t] = ShUser /\ shCalls' = n /\ shReport' = ShNoReport
        /\ shAttached' = shAttached /\ shReported' = shReported
    BY <1>2 DEF ShEnter
  <2>2. /\ inside.pc = "in" /\ inside.nr = n /\ n \in Nat /\ n > shCalls
        /\ shCall[t].pc = "user"
    BY <1>a, <2>1 DEF ShUser
  <2>3. CASE \E e \in ShFree :
                /\ shAttached > 0
                /\ t \notin DOMAIN shMap
                /\ shMap' = Updated(shMap, t, e)
                /\ shElem' = [shElem EXCEPT ![e] = n]
                /\ shCall' = [u \in ShThreads |->
                      IF u = t THEN inside
                      ELSE IF Taken(e, shCall[u]) THEN [shCall[u] EXCEPT !.reused = TRUE]
                      ELSE shCall[u]]
                /\ shEarly' = IF shAttached = 1 THEN shEarly \cup {n} ELSE shEarly
    <3>1. PICK e \in ShFree :
                /\ shAttached > 0
                /\ t \notin DOMAIN shMap
                /\ shMap' = Updated(shMap, t, e)
                /\ shElem' = [shElem EXCEPT ![e] = n]
                /\ shCall' = [u \in ShThreads |->
                      IF u = t THEN inside
                      ELSE IF Taken(e, shCall[u]) THEN [shCall[u] EXCEPT !.reused = TRUE]
                      ELSE shCall[u]]
                /\ shEarly' = IF shAttached = 1 THEN shEarly \cup {n} ELSE shEarly
      BY <2>3
    <3> HIDE DEF n, inside
    <3>2. e \in ShElements /\ \A u \in DOMAIN shMap : shMap[u] # e
      BY DEF ShFree, Range
    <3>3. /\ DOMAIN shMap' = DOMAIN shMap \cup {t} /\ shMap'[t] = e
          /\ \A u \in DOMAIN shMap : u # t => shMap'[u] = shMap[u]
      BY <3>1 DEF Updated
    <3>4. /\ shElem'[e] = n /\ shElem' \in [ShElements -> Nat]
          /\ \A d \in ShElements : d # e => shElem'[d] = shElem[d]
      BY <1>a, <2>2, <3>1, <3>2 DEF ShTypeOK
    <3>5. shCall'[t] = inside /\ DOMAIN shCall' = ShThreads
      BY <3>1
    <3>6. ASSUME NEW u \in ShThreads, u # t
          PROVE  \/ shCall'[u] = shCall[u] /\ ~Taken(e, shCall[u])
                 \/ /\ Taken(e, shCall[u])
                    /\ shCall[u].pc = "report" /\ shCall'[u].pc = "report"
                    /\ shCall'[u].nr = shCall[u].nr /\ shCall'[u].reused
                    /\ shCall'[u] \in ShReturnType
      <4>1. CASE Taken(e, shCall[u])
        <5>1. shCall[u].pc = "report" /\ shCall[u] \in ShReturnType
          BY <1>a, <4>1 DEF Taken, ShThreadOK
        <5>2. shCall'[u] = [shCall[u] EXCEPT !.reused = TRUE]
          BY <3>1, <3>6, <4>1
        <5> QED
          BY <4>1, <5>1, <5>2 DEF ShReturnType
      <4>2. CASE ~Taken(e, shCall[u])
        BY <3>1, <3>6, <4>2
      <4> QED
        BY <4>1, <4>2
    <3>7. ShTypeOK'
      <4>1. \A x \in shEarly' \cup shReported' : x \in Nat /\ x =< shCalls'
        BY <1>a, <2>1, <2>2, <3>1 DEF ShTypeOK
      <4> QED
        BY <1>a, <2>1, <2>2, <3>2, <3>3, <3>4, <3>5, <4>1 DEF ShTypeOK
    <3>8. ASSUME NEW u \in ShThreads, u # t, ShHolds(u)'
          PROVE  /\ ShHolds(u) /\ ElementOf(u)' = ElementOf(u) /\ ElementOf(u) # e
                 /\ Arguments(u)' = Arguments(u) /\ Arguments(u) \in Nat
                 /\ Arguments(u) =< shCalls
      <4>1. CASE u \in DOMAIN shMap
        <5>1. ShHolds(u) /\ ElementOf(u) = shMap[u] /\ ElementOf(u)' = shMap[u]
          BY <3>3, <3>8, <4>1 DEF ShHolds, ElementOf
        <5>2. ElementOf(u) \in ShElements /\ ElementOf(u) # e
          BY <1>a, <3>2, <4>1, <5>1, HoldsElement
        <5>3. Arguments(u)' = Arguments(u)
          BY <3>4, <5>1, <5>2 DEF Arguments
        <5> QED
          BY <1>a, <5>1, <5>2, <5>3, HoldsElement DEF ShThreadOK
      <4>2. CASE u \notin DOMAIN shMap
        <5>1. u \notin DOMAIN shMap' /\ shCall'[u].pc = "report" /\ ~shCall'[u].reused
          BY <3>3, <3>8, <4>2 DEF ShHolds
        <5>2. shCall'[u] = shCall[u] /\ ~Taken(e, shCall[u])
          BY <3>6, <3>8, <5>1
        <5>3. ShHolds(u) /\ ElementOf(u) = shCall[u].elem /\ ElementOf(u)' = shCall[u].elem
          BY <4>2, <5>1, <5>2 DEF ShHolds, ElementOf
        <5>4. ElementOf(u) \in ShElements /\ ElementOf(u) # e
          BY <1>a, <5>1, <5>2, <5>3, HoldsElement DEF Taken
        <5>5. Arguments(u)' = Arguments(u)
          BY <3>4, <5>3, <5>4 DEF Arguments
        <5> QED
          BY <1>a, <5>3, <5>4, <5>5, HoldsElement DEF ShThreadOK
      <4> QED
        BY <4>1, <4>2
    <3>9. ASSUME NEW u \in ShThreads, u # t PROVE ShThreadOK(u)'
      <4>1. shCalls' \in Nat /\ shCalls' >= shCalls
        BY <1>a, <2>1, <2>2
      <4>2. u \in DOMAIN shMap' <=> u \in DOMAIN shMap
        BY <3>3, <3>9
      <4>3. \A x \in shEarly : x \in shEarly'
        BY <3>1
      <4> QED
        BY <1>a, <2>1, <3>6, <3>8, <3>9, <4>1, <4>2, <4>3, HoldsKept
    <3>10. ElementOf(t)' = e /\ Arguments(t)' = n
      BY <3>3, <3>4 DEF ElementOf, Arguments
    <3>11. ShThreadOK(t)'
      <4>1. n \notin shReported
        BY <1>a, <2>2 DEF ShTypeOK
      <4>2. shAttached < 2 => n \in shEarly'
        BY <1>a, <3>1 DEF ShTypeOK
      <4> QED
        BY <2>1, <2>2, <3>5, <3>10, <4>1, <4>2 DEF ShThreadOK
    <3>12. ASSUME NEW u \in ShThreads, NEW v \in ShThreads, u # v PROVE ShHoldApart(u, v)'
      <4>1. CASE u # t /\ v # t
        BY <1>a, <3>8, <3>12, <4>1, ApartKept
      <4>2. CASE u = t
        BY <1>a, <2>2, <3>8, <3>10, <3>12, <4>2 DEF ShHoldApart
      <4>3. CASE v = t
        BY <1>a, <2>2, <3>8, <3>10, <3>12, <4>3 DEF ShHoldApart
      <4> QED
        BY <4>1, <4>2, <4>3
    <3> QED
      BY <1>n, <2>1, <3>7, <3>9, <3>11, <3>12 DEF ShInv
  <2>4. CASE shCall' = [shCall EXCEPT ![t] = inside] /\ UNCHANGED <<shMap, shElem, shEarly>>
    <3> HIDE DEF n, inside
    <3>1. /\ shCall'[t] = inside /\ DOMAIN shCall' = ShThreads
          /\ \A u \in ShThreads : u # t => shCall'[u] = shCall[u]
      BY <1>a, <2>4 DEF ShTypeOK
    <3>2. ShTypeOK'
      BY <1>a, <2>1, <2>2, <2>4, <3>1 DEF ShTypeOK
    <3>3. ASSUME NEW u \in ShThreads, ShHolds(u)'
          PROVE  /\ ShHolds(u) /\ ElementOf(u)' = ElementOf(u)
                 /\ Arguments(u)' = Arguments(u) /\ Arguments(u) \in Nat
      <4>1. ShHolds(u) /\ ElementOf(u)' = ElementOf(u)
        BY <2>2, <2>4, <3>1, <3>3 DEF ShHolds, ElementOf
      <4> QED
        BY <1>a, <2>4, <4>1, HoldsElement DEF Arguments
    <3>4. ASSUME NEW u \in ShThreads, u # t PROVE ShThreadOK(u)'
      <4>1. shCalls' \in Nat /\ shCalls' >= shCalls
        BY <1>a, <2>1, <2>2
      <4> QED
        BY <1>a, <2>1, <2>4, <3>1, <3>3, <3>4, <4>1, HoldsKept
    <3>5. ShThreadOK(t)'
      <4>1. ASSUME ShHolds(t)'
            PROVE  /\ Arguments(t)' =< shCalls /\ Arguments(t)' \notin shReported
                   /\ Arguments(t)' \in shEarly /\ Arguments(t)' \in Nat
        BY <1>a, <2>2, <3>3, <4>1 DEF ShThreadOK
      <4>2. ASSUME ShHolds(t)' PROVE EarlyBefore(Arguments(t), n)'
        BY <1>a, <2>1, <2>2, <2>4, <4>1, <4>2 DEF EarlyBefore, n
      <4> QED
        BY <1>a, <2>1, <2>2, <2>4, <3>1, <4>1, <4>2 DEF ShThreadOK, EarlyBefore
    <3>6. ASSUME NEW u \in ShThreads, NEW v \in ShThreads, u # v PROVE ShHoldApart(u, v)'
      BY <1>a, <3>3, <3>6, ApartKept
    <3> QED
      BY <1>n, <2>1, <3>2, <3>4, <3>5, <3>6 DEF ShInv
  <2> QED
    BY <1>2, <2>3, <2>4 DEF ShEnter, Recorded
<1>3. ASSUME NEW t \in ShThreads, ShExit(t) PROVE ShInv'
  <2>1. /\ shCall[t].pc = "in" /\ shReport' = ShNoReport
        /\ UNCHANGED <<shAttached, shElem, shCalls, shEarly, shReported>>
    BY <1>3 DEF ShExit
  <2>2. CASE /\ shAttached = 2 /\ t \in DOMAIN shMap
             /\ shCall' = [shCall EXCEPT ![t] = [pc |-> "report", nr |-> shCall[t].nr,
                                                 elem |-> shMap[t], reused |-> FALSE]]
             /\ shMap' = Without(shMap, {t})
    <3> DEFINE r == [pc |-> "report", nr |-> shCall[t].nr, elem |-> shMap[t], reused |-> FALSE]
    <3>1. /\ r \in ShReturnType /\ r.pc = "report" /\ r.nr = shCall[t].nr /\ r.elem = shMap[t]
          /\ ~r.reused
      BY <1>a, <2>1, <2>2 DEF ShThreadOK, ShReturnType, ShTypeOK
    <3>2. shCall' = [shCall EXCEPT ![t] = r]
      BY <2>2
    <3> HIDE DEF r
    <3>3. /\ shCall'[t] = r /\ DOMAIN shCall' = ShThreads
          /\ \A u \in ShThreads : u # t => shCall'[u] = shCall[u]
      BY <1>a, <3>2 DEF ShTypeOK
    <3>4. /\ DOMAIN shMap' = DOMAIN shMap \ {t}
          /\ \A u \in DOMAIN shMap : u # t => shMap'[u] = shMap[u]
      BY <2>2 DEF Without, Restrict
    <3>5. ShTypeOK'
      BY <1>a, <2>1, <3>3, <3>4 DEF ShTypeOK
    <3>6. ASSUME NEW u \in ShThreads, ShHolds(u)'
          PROVE  /\ ShHolds(u) /\ ElementOf(u)' = ElementOf(u)
                 /\ Arguments(u)' = Arguments(u) /\ Arguments(u) \in Nat
      <4>1. CASE u = t
        <5>1. ShHolds(t) /\ ElementOf(t) = shMap[t] /\ ElementOf(t)' = shMap[t]
          BY <2>2, <3>1, <3>3, <3>4 DEF ShHolds, ElementOf
        <5> QED
          BY <1>a, <2>1, <4>1, <5>1, HoldsElement DEF Arguments
      <4>2. CASE u # t
        <5>1. ShHolds(u) /\ ElementOf(u)' = ElementOf(u)
          BY <3>3, <3>4, <3>6, <4>2 DEF ShHolds, ElementOf
        <5> QED
          BY <1>a, <2>1, <5>1, HoldsElement DEF Arguments
      <4> QED
        BY <4>1, <4>2
    <3>7. ASSUME NEW u \in ShThreads, u # t PROVE ShThreadOK(u)'
      <4>1. u \in DOMAIN shMap' <=> u \in DOMAIN shMap
        BY <3>4, <3>7
      <4> QED
        BY <1>a, <2>1, <3>3, <3>6, <3>7, <4>1, HoldsKept
    <3>8. ShThreadOK(t)'
      <4>1. ShHolds(t)
        BY <2>2 DEF ShHolds
      <4>2. /\ Arguments(t)' = Arguments(t) /\ shCall'[t].nr = shCall[t].nr
            /\ t \notin DOMAIN shMap' /\ shCall'[t].pc = "report" /\ ~(shAttached' < 2)
        <5>1. ShHolds(t)'
          BY <3>1, <3>3, <3>4 DEF ShHolds
        <5> QED
          BY <2>1, <2>2, <3>1, <3>3, <3>4, <3>6, <5>1
      <4>3. /\ shCall[t].nr \in Nat /\ shCall[t].nr =< shCalls
            /\ Arguments(t) =< shCalls
            /\ Arguments(t) \notin shReported
            /\ \/ Arguments(t) = shCall[t].nr
               \/ Arguments(t) \in shEarly /\ Arguments(t) < shCall[t].nr
        <5>1. ShThreadOK(t)
          BY <1>a
        <5> QED
          BY <2>1, <4>1, <5>1 DEF ShThreadOK, EarlyBefore
      <4> QED
        BY <2>1, <3>1, <3>3, <4>2, <4>3 DEF ShThreadOK, EarlyBefore
    <3>9. ASSUME NEW u \in ShThreads, NEW v \in ShThreads, u # v PROVE ShHoldApart(u, v)'
      BY <1>a, <3>6, <3>9, ApartKept
    <3> QED
      BY <1>n, <2>1, <3>5, <3>7, <3>8, <3>9 DEF ShInv
  <2>3. CASE /\ ~(shAttached = 2 /\ t \in DOMAIN shMap)
             /\ shCall' = [shCall EXCEPT ![t] = ShUser] /\ shMap' = shMap
    <3>1. /\ shCall'[t] = ShUser /\ DOMAIN shCall' = ShThreads
          /\ \A u \in ShThreads : u # t => shCall'[u] = shCall[u]
      BY <1>a, <2>3 DEF ShTypeOK
    <3>2. ShTypeOK'
      BY <1>a, <2>1, <2>3, <3>1 DEF ShTypeOK
    <3>3. ASSUME NEW u \in ShThreads, ShHolds(u)'
          PROVE  /\ ShHolds(u) /\ ElementOf(u)' = ElementOf(u)
                 /\ Arguments(u)' = Arguments(u) /\ Arguments(u) \in Nat
      <4>1. ShHolds(u) /\ ElementOf(u)' = ElementOf(u)
        BY <2>1, <2>3, <3>1, <3>3 DEF ShHolds, ElementOf, ShUser
      <4> QED
        BY <1>a, <2>1, <4>1, HoldsElement DEF Arguments
    <3>4. ASSUME NEW u \in ShThreads, u # t PROVE ShThreadOK(u)'
      BY <1>a, <2>1, <2>3, <3>1, <3>3, <3>4, HoldsKept
    <3>5. ShThreadOK(t)'
      <4>1. ASSUME ShHolds(t)'
            PROVE  /\ shAttached < 2 /\ ShHolds(t) /\ Arguments(t)' = Arguments(t)
        BY <1>a, <2>3, <3>1, <3>3, <4>1 DEF ShTypeOK, ShHolds, ShUser
      <4> QED
        BY <1>a, <2>1, <2>3, <3>1, <4>1 DEF ShThreadOK, ShUser
    <3>6. ASSUME NEW u \in ShThreads, NEW v \in ShThreads, u # v PROVE ShHoldApart(u, v)'
      BY <1>a, <3>3, <3>6, ApartKept
    <3> QED
      BY <1>n, <2>1, <3>2, <3>4, <3>5, <3>6 DEF ShInv
  <2> QED
    BY <1>3, <2>2, <2>3 DEF ShExit
<1>4. ASSUME NEW t \in ShThreads, ShReport(t) PROVE ShInv'
  <2> DEFINE data == shElem[shCall[t].elem]
  <2>1. /\ shCall[t].pc = "report" /\ shCall' = [shCall EXCEPT ![t] = ShUser]
        /\ UNCHANGED <<shAttached, shMap, shElem, shCalls, shEarly>>
        /\ \/ shReport' = ShNoReport /\ shReported' = shReported
           \/ /\ shReport' = [call |-> shCall[t].nr, data |-> data,
                              reused |-> shCall[t].reused, again |-> data \in shReported]
              /\ shReported' = IF shCall[t].reused THEN shReported ELSE shReported \cup {data}
    BY <1>4 DEF ShReport
  <2>2. t \notin DOMAIN shMap /\ shCall[t] \in ShReturnType
    BY <1>a, <2>1 DEF ShThreadOK
  <2>3. ~shCall[t].reused => ShHolds(t) /\ data = Arguments(t)
    BY <2>1, <2>2 DEF ShHolds, Arguments, ElementOf
  <2> HIDE DEF data
  <2>4. /\ shCall'[t] = ShUser /\ DOMAIN shCall' = ShThreads
        /\ \A u \in ShThreads : u # t => shCall'[u] = shCall[u]
    BY <1>a, <2>1 DEF ShTypeOK
  <2>5. \A x \in shReported' : x \in shReported \/ (~shCall[t].reused /\ x = data)
    BY <2>1
  <2>6. ShTypeOK'
    <3>1. ~shCall[t].reused => data \in Nat /\ data =< shCalls
      BY <1>a, <2>3, HoldsElement DEF ShThreadOK
    <3> QED
      BY <1>a, <2>1, <2>4, <2>5, <3>1 DEF ShTypeOK
  <2>7. ~ShHolds(t)'
    BY <2>1, <2>2, <2>4 DEF ShHolds, ShUser
  <2>8. ASSUME NEW u \in ShThreads, ShHolds(u)'
        PROVE  /\ ShHolds(u) /\ ElementOf(u)' = ElementOf(u) /\ u # t
               /\ Arguments(u)' = Arguments(u) /\ Arguments(u) \in Nat
    <3>1. ShHolds(u) /\ ElementOf(u)' = ElementOf(u) /\ u # t
      BY <2>1, <2>4, <2>7, <2>8 DEF ShHolds, ElementOf
    <3> QED
      BY <1>a, <2>1, <3>1, HoldsElement DEF Arguments
  <2>9. ASSUME NEW u \in ShThreads, u # t PROVE ShThreadOK(u)'
    <3>1. ShHolds(u) => (Arguments(u) \in shReported' => Arguments(u) \in shReported)
      BY <1>a, <2>3, <2>5, <2>9 DEF ShHoldApart
    <3> QED
      BY <1>a, <2>1, <2>4, <2>8, <2>9, <3>1, HoldsKept
  <2>10. ShThreadOK(t)'
    BY <2>4, <2>7 DEF ShThreadOK, ShUser
  <2>11. ASSUME NEW u \in ShThreads, NEW v \in ShThreads, u # v PROVE ShHoldApart(u, v)'
    BY <1>a, <2>8, <2>11, ApartKept
  <2>12. ShReportsOwnCall'
    <3>1. CASE shReport' = ShNoReport
      BY <1>n, <3>1
    <3>2. CASE /\ shReport' = [call |-> shCall[t].nr, data |-> data,
                               reused |-> shCall[t].reused, again |-> data \in shReported]
               /\ shCall[t].reused
      BY <3>2 DEF ShReportsOwnCall
    <3>3. CASE /\ shReport' = [call |-> shCall[t].nr, data |-> data,
                               reused |-> shCall[t].reused, again |-> data \in shReported]
               /\ ~shCall[t].reused
      <4>1. /\ data \notin shReported
            /\ data = shCall[t].nr \/ (data \in shEarly /\ data < shCall[t].nr)
        BY <1>a, <2>1, <2>3, <3>3 DEF ShThreadOK, EarlyBefore
      <4>2. shReport'.call = shCall[t].nr /\ shReport'.data = data
        BY <3>3
      <4>3. ~shReport'.again
        BY <3>3, <4>1
      <4> QED
        BY <2>1, <4>1, <4>2, <4>3 DEF ShReportsOwnCall
    <3> QED
      BY <2>1, <3>1, <3>2, <3>3
  <2> QED
    BY <2>6, <2>9, <2>10, <2>11, <2>12 DEF ShInv
<1>5. CASE UNCHANGED shVars
  BY <1>5 DEF shVars, ShInv, ShTypeOK, ShThreadOK, ShHoldApart, ShHolds, ElementOf, Arguments,
              EarlyBefore, ShReportsOwnCall
<1> QED
  BY <1>1, <1>2, <1>3, <1>4, <1>5 DEF ShmNext

LEMMA ShInvHolds == ShmSpec => []ShInv
  BY ShInvInit, ShInvNext, PTL DEF ShmSpec

(* A mapping is reported with the arguments of its own call and no call    *)
(* twice, but for the calls recorded before the return was attached and    *)
(* the elements taken between deletion and reading (shm.bpf.c).            *)
THEOREM MappingsReportOwnCall == ShmSpec => []ShReportsOwnCall
<1>1. ShInv => ShReportsOwnCall
  BY DEF ShInv
<1> QED
  BY <1>1, ShInvHolds, PTL
=============================================================================
