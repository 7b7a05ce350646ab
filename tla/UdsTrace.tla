------------------------------ MODULE UdsTrace ------------------------------
(***************************************************************************)
(* The tracing of Unix domain sockets by ipcwatcher (uds.bpf.c): a probe   *)
(* on sendmsg fills the entry of the LRU map uds_data_map, field by field, *)
(* a probe inside the call copies the payload into it, and a probe on      *)
(* recvmsg copies what it finds there, field by field, deletes the entry   *)
(* and sends the copy to the user.                                         *)
(*                                                                         *)
(* The map's key type is struct uds_indicate *, eight bytes: of the two    *)
(* sockets in struct uds_indicate only the first, send_sk, is compared.    *)
(*                                                                         *)
(* The environment: threads that send and receive on sockets, connected in *)
(* pairs or, for datagrams, on one side only.  A message is known by the   *)
(* number of its send, which stands for the contents of every field; of    *)
(* the fields that sendmsg writes (path, send_pid, size, type, timestamp)  *)
(* there is one for the first, path, and one for the last.  The probes     *)
(* fire when a call begins, whether or not it will find a message, and may *)
(* be missed.  The map may take any element away and use it for another    *)
(* entry, while programs hold a pointer to it.                             *)
(***************************************************************************)
EXTENDS Naturals

CONSTANTS UdsSockets, UdsThreads,
          UdsElements,    \* elements of the map
          NoSock,         \* peer of a socket that is not connected
          MaxSends        \* bound: calls of sendmsg

ASSUME UdsAssumption == MaxSends \in Nat /\ NoSock \notin UdsSockets

VARIABLES udPeer,         \* the sockets' peers
          udElement,      \* map uds_data_map: the entry in each element
          udCall,         \* the call, or the probe, each thread is in
          udSends,        \* calls of sendmsg so far
          udLast,         \* per key, the latest message copied by a receiver
          udUneven,       \* senders that two threads have sent from at a time, or
                          \* that have sent without filling the entry
          udStale,        \* threads whose element was taken away
          udMixed,        \* elements such a thread has written into
          udMoved,        \* receivers whose entry was written while they had it
          udSpoilt        \* receivers that share their entry, or whose element
                          \* was taken away or is mixed

udVars == <<udPeer, udElement, udCall, udSends, udLast, udUneven, udStale, udMixed,
            udMoved, udSpoilt>>

\* unix_may_send: the other socket is not connected elsewhere.
MaySend(from, to) == udPeer[to] \in {NoSock, from}

UdIdle == [pc |-> "idle"]

\* struct uds_event when it was just inserted.  to is not in the code: the
\* socket the message with the first fields was sent to.
ZeroEvent(key) == [key |-> key, first |-> 0, last |-> 0, payload |-> 0, recv |-> NoSock,
                   to |-> NoSock]

UdsInit ==
    /\ udPeer \in [UdsSockets -> UdsSockets \union {NoSock}]
    /\ \A s \in UdsSockets : udPeer[s] # s /\ (udPeer[s] # NoSock => MaySend(s, udPeer[s]))
    /\ udElement = [e \in UdsElements |-> ZeroEvent(NoSock)]
    /\ udCall = [t \in UdsThreads |-> UdIdle]
    /\ udSends = 0
    /\ udLast = [s \in UdsSockets |-> 0]
    /\ udUneven = {} /\ udStale = {} /\ udMixed = {} /\ udMoved = {} /\ udSpoilt = {}

Sends(t, s)  == udCall[t].pc \in {"fill", "filled", "build", "payload"} /\ udCall[t].from = s

\* The program in thread t has a pointer to element e: it fills it, stores the
\* payload in it, or reads it and has not deleted it yet.
Filling == {"fill", "filled", "payload"}
Receiving == {"mark", "copy", "copied", "read", "report"}
HoldsAt(t, e)  == udCall[t].pc \in Filling \union Receiving /\ udCall[t].at = e
Readers(e)     == {t \in UdsThreads : udCall[t].pc \in Receiving /\ udCall[t].at = e}

Free(e) == udElement[e].key = NoSock

\* Thread t has put the event into element e.
Written(t, e, event) ==
    /\ udElement' = [udElement EXCEPT ![e] = event]
    /\ udMixed' = IF t \in udStale THEN udMixed \union {e} ELSE udMixed
    /\ udSpoilt' = IF t \in udStale THEN udSpoilt \union Readers(e) ELSE udSpoilt

\* Element e is taken out of the map.
ForgetsUsers(e) ==
    /\ udElement' = [udElement EXCEPT ![e] = [@ EXCEPT !.key = NoSock]]
    /\ udStale' = udStale \union {t \in UdsThreads : HoldsAt(t, e)}
    /\ udSpoilt' = udSpoilt \union Readers(e)

-----------------------------------------------------------------------------
\* unix_dgram_sendmsg and unix_stream_sendmsg, bpf_map_lookup_or_try_init: the
\* entry is found, or made in a free element.
UdSendEnter(t, from, to) ==
    /\ udCall[t] = UdIdle
    /\ udSends < MaxSends
    /\ from # to /\ MaySend(from, to)
    /\ udPeer[from] \in {NoSock, to}
    /\ \E e \in UdsElements :
          /\ \/ udElement[e].key = from /\ UNCHANGED <<udElement, udMixed>>
             \/ /\ \A f \in UdsElements : udElement[f].key # from
                /\ Free(e)
                /\ udElement' = [udElement EXCEPT ![e] = ZeroEvent(from)]
                /\ udMixed' = udMixed \ {e}
          /\ udCall' = [udCall EXCEPT ![t] = [pc |-> "fill", from |-> from, to |-> to,
                                               nr |-> udSends + 1, at |-> e]]
    /\ udSends' = udSends + 1
    /\ udUneven' = IF \E u \in UdsThreads : Sends(u, from) THEN udUneven \union {from} ELSE udUneven
    /\ UNCHANGED <<udPeer, udLast, udStale, udMoved, udSpoilt>>

\* The probe was missed, or no element was to be had.
UdSendUnseen(t, from, to) ==
    /\ udCall[t] = UdIdle
    /\ udSends < MaxSends
    /\ from # to /\ MaySend(from, to)
    /\ udPeer[from] \in {NoSock, to}
    /\ udCall' = [udCall EXCEPT ![t] = [pc |-> "build", from |-> from, nr |-> udSends + 1]]
    /\ udSends' = udSends + 1
    /\ udUneven' = udUneven \union {from}
    /\ UNCHANGED <<udPeer, udElement, udLast, udStale, udMixed, udMoved, udSpoilt>>

\* The fields are written one by one, into whatever the element is by now.
UdSendFill(t) ==
    LET call == udCall[t]
    IN  /\ call.pc = "fill"
        /\ Written(t, call.at, [udElement[call.at] EXCEPT !.first = call.nr, !.to = call.to])
        /\ udCall' = [udCall EXCEPT ![t].pc = "filled"]
        /\ udMoved' = udMoved \union Readers(call.at)
        /\ UNCHANGED <<udPeer, udSends, udLast, udUneven, udStale>>

UdSendFilled(t) ==
    LET call == udCall[t]
    IN  /\ call.pc = "filled"
        /\ Written(t, call.at, [udElement[call.at] EXCEPT !.last = call.nr])
        /\ udCall' = [udCall EXCEPT ![t] = [pc |-> "build", from |-> call.from, nr |-> call.nr]]
        /\ udMoved' = udMoved \union Readers(call.at)
        /\ udStale' = udStale \ {t}
        /\ UNCHANGED <<udPeer, udSends, udLast, udUneven>>

\* maybe_add_creds, called when the message has been built, perhaps in parts,
\* looks the entry up again ...
UdPayloadFind(t) ==
    /\ udCall[t].pc = "build"
    /\ \E e \in UdsElements :
          /\ udElement[e].key = udCall[t].from
          /\ udCall' = [udCall EXCEPT ![t] = [pc |-> "payload", from |-> udCall[t].from,
                                               nr |-> udCall[t].nr, at |-> e]]
    /\ UNCHANGED <<udPeer, udElement, udSends, udLast, udUneven, udStale, udMixed, udMoved,
                   udSpoilt>>

\* ... and copies the payload into it.
UdPayload(t) ==
    LET call == udCall[t]
    IN  /\ call.pc = "payload"
        /\ Written(t, call.at, [udElement[call.at] EXCEPT !.payload = call.nr])
        /\ udCall' = [udCall EXCEPT ![t] = [pc |-> "build", from |-> call.from, nr |-> call.nr]]
        /\ udMoved' = udMoved \union Readers(call.at)
        /\ udStale' = udStale \ {t}
        /\ UNCHANGED <<udPeer, udSends, udLast, udUneven>>

\* The call returns, also without having got that far.
UdSendEnd(t) ==
    /\ udCall[t].pc = "build"
    /\ udCall' = [udCall EXCEPT ![t] = UdIdle]
    /\ UNCHANGED <<udPeer, udElement, udSends, udLast, udUneven, udStale, udMixed, udMoved,
                   udSpoilt>>

-----------------------------------------------------------------------------
\* unix_dgram_recvmsg and unix_stream_recvmsg find the entry of the peer, ...
UdRecvFind(t, s) ==
    /\ udCall[t] = UdIdle
    /\ \E e \in UdsElements :
          /\ udPeer[s] # NoSock /\ udElement[e].key = udPeer[s]
          /\ udCall' = [udCall EXCEPT ![t] =
                [pc |-> "mark", key |-> udPeer[s], by |-> s, at |-> e, since |-> udLast[udPeer[s]],
                 event |-> ZeroEvent(NoSock)]]
          /\ udSpoilt' = IF Readers(e) # {} \/ e \in udMixed
                         THEN udSpoilt \union Readers(e) \union {t} ELSE udSpoilt
    /\ UNCHANGED <<udPeer, udElement, udSends, udLast, udUneven, udStale, udMixed, udMoved>>

\* ... write recv_pid into it, and reserve a place in the ring buffer, which
\* may be full: then the entry is deleted unreported.
UdRecvMark(t) ==
    LET call == udCall[t]
    IN  /\ call.pc = "mark"
        /\ Written(t, call.at, [udElement[call.at] EXCEPT !.recv = call.by])
        /\ \/ /\ udCall' = [udCall EXCEPT ![t].pc = "copy"]
              /\ UNCHANGED udStale
           \/ /\ udCall' = [udCall EXCEPT ![t] = [pc |-> "delete", key |-> call.key]]
              /\ udStale' = udStale \ {t}
        /\ UNCHANGED <<udPeer, udSends, udLast, udUneven, udMoved>>

\* The message nr was copied.
Copied(t, nr) ==
    LET key == udCall[t].key
    IN  udLast' = IF t \notin udSpoilt /\ nr > udLast[key] THEN [udLast EXCEPT ![key] = nr]
                  ELSE udLast

\* They copy send_pid, recv_pid and the path, ...
UdRecvCopy(t) ==
    LET call == udCall[t]
        now  == udElement[call.at]
    IN  /\ call.pc = "copy"
        /\ Copied(t, now.first)
        /\ udCall' = [udCall EXCEPT ![t] = [call EXCEPT !.pc = "copied",
                         !.event = [call.event EXCEPT !.first = now.first, !.to = now.to,
                                                      !.recv = now.recv]]]
        /\ UNCHANGED <<udPeer, udElement, udSends, udUneven, udStale, udMixed, udMoved, udSpoilt>>

\* ... size, type and timestamp, ...
UdRecvCopied(t) ==
    LET call == udCall[t]
        now  == udElement[call.at]
    IN  /\ call.pc = "copied"
        /\ Copied(t, now.last)
        /\ udCall' = [udCall EXCEPT ![t].pc = "read", ![t].event.last = now.last]
        /\ UNCHANGED <<udPeer, udElement, udSends, udUneven, udStale, udMixed, udMoved, udSpoilt>>

\* ... and then the payload.
UdRecvRead(t) ==
    LET call == udCall[t]
        now  == udElement[call.at]
    IN  /\ call.pc = "read"
        /\ Copied(t, now.payload)
        /\ udCall' = [udCall EXCEPT ![t].pc = "report", ![t].event.payload = now.payload]
        /\ UNCHANGED <<udPeer, udElement, udSends, udUneven, udStale, udMixed, udMoved, udSpoilt>>

Receives(t) ==
    /\ udCall[t].pc \in {"report", "delete"}
    /\ udCall' = [udCall EXCEPT ![t] = UdIdle]
    /\ udMoved' = udMoved \ {t}
    /\ UNCHANGED <<udPeer, udSends, udLast, udUneven, udMixed>>

\* Mutant: what was reported stays.
UdRecvKeeps(t) ==
    /\ Receives(t)
    /\ udSpoilt' = udSpoilt \ {t}
    /\ udStale' = udStale \ {t}
    /\ UNCHANGED udElement

\* They delete what is under the key by now, and submit the copy.
UdRecvDelete(t) ==
    /\ Receives(t)
    /\ \/ \E e \in UdsElements :
             /\ udElement[e].key = udCall[t].key
             /\ udElement' = [udElement EXCEPT ![e] = [@ EXCEPT !.key = NoSock]]
             /\ udStale' = (udStale \union {u \in UdsThreads : HoldsAt(u, e)}) \ {t}
             /\ udSpoilt' = (udSpoilt \union Readers(e)) \ {t}
       \/ /\ \A e \in UdsElements : udElement[e].key # udCall[t].key
          /\ udSpoilt' = udSpoilt \ {t}
          /\ udStale' = udStale \ {t}
          /\ UNCHANGED udElement

\* The LRU map takes an element away.
UdEvict(e) ==
    /\ ~Free(e)
    /\ ForgetsUsers(e)
    /\ UNCHANGED <<udPeer, udCall, udSends, udLast, udUneven, udMixed, udMoved>>

UdsNext ==
    \/ \E t \in UdsThreads :
          \/ UdSendFill(t) \/ UdSendFilled(t) \/ UdPayloadFind(t) \/ UdPayload(t) \/ UdSendEnd(t)
          \/ UdRecvMark(t) \/ UdRecvCopy(t) \/ UdRecvCopied(t) \/ UdRecvRead(t) \/ UdRecvDelete(t)
    \/ \E t \in UdsThreads, s \in UdsSockets : UdRecvFind(t, s)
    \/ \E t \in UdsThreads, from, to \in UdsSockets :
          UdSendEnter(t, from, to) \/ UdSendUnseen(t, from, to)
    \/ \E e \in UdsElements : UdEvict(e)

UdsSpec == UdsInit /\ [][UdsNext]_udVars

-----------------------------------------------------------------------------
Messages(event) == {event.first, event.last, event.payload} \ {0}

\* What is reported of a sender goes forward, also in the parts of a report that
\* are of different messages: none is of a message of which a part was copied
\* before the receiver found the entry, and the report names its own receiver.
\* Unless the entry was written while the receiver had it, no part that is
\* written later is of a later message: the payload may be missing or an
\* earlier one, never a later one.  That holds of a sender whose sends do not
\* overlap and all fill the entry, and of a receiver that shares the entry with
\* no other, whose element was not taken away, and not written by a program
\* it had been taken from (unix_stream_sendmsg, maybe_add_creds,
\* unix_stream_recvmsg).
UdReportsAdvance ==
    \A t \in UdsThreads : udCall[t].pc = "report" /\ t \notin udSpoilt /\ udCall[t].key \notin udUneven =>
        LET event == udCall[t].event
        IN  /\ \A nr \in Messages(event) : nr > udCall[t].since
            /\ event.recv = udCall[t].by
            /\ t \notin udMoved => event.payload <= event.last /\ event.last <= event.first

\* uds.bpf.c:50 says that the sockets of sender and receiver together identify
\* a connection: a report pairs the sender with the receiver it sent to.
UdReportToReceiver ==
    \A t \in UdsThreads :
        udCall[t].pc = "report" /\ udCall[t].event.first # 0 => udCall[t].event.to = udCall[t].by
=============================================================================
