----------------------------- MODULE PacketTimes -----------------------------
(***************************************************************************)
(* The layer times of netwatcher for TCP and UDP (packet.bpf.h and         *)
(* udp.bpf.h): every probe a packet passes finds the entry of the packet's *)
(* addresses, ports and sequence numbers in the LRU map timestamps, reads  *)
(* the clock and writes the time into the field of its layer; the last     *)
(* probe sends the differences.  Entries are never deleted, so all the     *)
(* packets with the same key - the datagrams of one UDP flow, a TCP        *)
(* segment and its retransmissions - write into the same entry.            *)
(*                                                                         *)
(* The environment: packets that pass the probes of their kind in order,   *)
(* in softirqs and threads that interleave, or are dropped on the way; and *)
(* a map that may take the element of any entry for another, while a probe *)
(* still holds the pointer it was given.                                   *)
(***************************************************************************)
EXTENDS Naturals, Sequences

CONSTANTS Packets,        \* the packets of a behaviour
          Keys,           \* values of struct packet_tuple
          Elements,       \* elements of the map timestamps
          MaxTime         \* bound on the clock

ASSUME PacketAssumption == MaxTime \in Nat /\ "none" \notin Keys /\ "none" \notin Elements

VARIABLES ptPacket,       \* each packet: kind, key, probes passed, the probe it is in
          ptElement,      \* map timestamps: the entry in each element
          ptClock         \* bpf_ktime_get_ns; each reading is later than the last

ptVars == <<ptPacket, ptElement, ptClock>>

\* Per kind, the fields of struct ktime_info its probes write.  The probes of
\* tcpRx are eth_type_trans, ip_rcv_core, tcp_v4_rcv, tcp_v4_do_rcv and
\* skb_copy_datagram_iter, those of tcpTx tcp_sendmsg, ip_queue_xmit,
\* __dev_queue_xmit and dev_hard_start_xmit; a retransmission starts at
\* ip_queue_xmit.  "sk" stands for a probe that stores the socket only, "end"
\* for one that writes nothing.
Fields == [tcpRx   |-> <<"mac", "ip", "tran", "sk", "app">>,
           tcpTx   |-> <<"tran", "ip", "mac", "qdisc">>,
           retrans |-> <<"ip", "mac", "qdisc">>,
           udp     |-> <<"tran", "end">>]

Kinds  == DOMAIN Fields
Layers == {"mac", "ip", "tran", "app", "qdisc"}

\* The fields a message of each kind is computed from.
Reported == [tcpRx   |-> {"mac", "ip", "tran", "app"},
             tcpTx   |-> {"mac", "ip", "tran", "qdisc"},
             retrans |-> {"mac", "ip", "tran", "qdisc"},
             udp     |-> {"tran"}]

NoTimes == [l \in Layers |-> 0]

\* A packet.  pc: "off" between the probes; in a probe "found" with its entry,
\* "read" with the time, "sending" while the last probe computes the message.
\* at, stale: the element its probe holds, and whether the map has taken that
\* away since.  own: the times it wrote.  raced: the layers where another
\* time may have gone over its own.  alone: no other packet of its key has
\* been on its way with it, and no probe has left early.
NoPacket == [kind |-> "udp", key |-> "none", passed |-> 0, pc |-> "off", at |-> "none",
             now |-> 0, stale |-> FALSE, own |-> NoTimes, raced |-> {}, alone |-> FALSE]

Gone == [NoPacket EXCEPT !.pc = "gone"]

\* An element: the key it is in the map for, its times, whether it has a
\* socket, and whether a probe of an earlier entry has written into it.
Empty == [key |-> "none", time |-> NoTimes, sk |-> FALSE, foreign |-> FALSE]

Alive(p)  == ptPacket[p].key # "none"
Field(p)  == Fields[ptPacket[p].kind][ptPacket[p].passed + 1]
IsLast(p) == ptPacket[p].passed + 1 = Len(Fields[ptPacket[p].kind])

PacketInit ==
    /\ ptPacket = [p \in Packets |-> NoPacket]
    /\ ptElement = [e \in Elements |-> Empty]
    /\ ptClock = 0

\* A packet of a flow comes.
PtArrive(p) ==
    /\ ptPacket[p] = NoPacket
    /\ \E kind \in Kinds, key \in Keys :
          LET others == {q \in Packets : ptPacket[q].key = key}
          IN  ptPacket' = [q \in Packets |->
                 IF q = p THEN [NoPacket EXCEPT !.kind = kind, !.key = key,
                                                !.alone = others = {} /\ kind # "retrans"]
                 ELSE [ptPacket[q] EXCEPT !.alone = @ /\ q \notin others]]
    /\ UNCHANGED <<ptElement, ptClock>>

-----------------------------------------------------------------------------
\* Only the first probe of a kind creates the entry; a retransmission has none.
Creates(packet) == packet.passed = 0 /\ packet.kind # "retrans"

\* The probe looks its entry up, and makes it in a free element if it may.
PtFind(p) ==
    LET key == ptPacket[p].key
    IN  /\ Alive(p)
        /\ ptPacket[p].pc = "off"
        /\ \E e \in Elements :
              /\ \/ ptElement[e].key = key /\ ptElement' = ptElement
                 \/ /\ Creates(ptPacket[p])
                    /\ \A f \in Elements : ptElement[f].key # key
                    /\ ptElement[e].key = "none"
                    /\ ptElement' = [ptElement EXCEPT ![e] = [Empty EXCEPT !.key = key]]
              /\ ptPacket' = [ptPacket EXCEPT
                     ![p].pc = IF Field(p) = "end" THEN "sending" ELSE "found",
                     ![p].at = e]
        /\ UNCHANGED ptClock

PtClock(p) ==
    /\ ptPacket[p].pc = "found"
    /\ Field(p) \in Layers
    /\ ptClock < MaxTime
    /\ ptClock' = ptClock + 1
    /\ ptPacket' = [ptPacket EXCEPT ![p].pc = "read", ![p].now = ptClock']
    /\ UNCHANGED ptElement

\* Mutant: a field that is set keeps its time.
StampOnce(element, field, now) ==
    IF field \in Layers /\ element.time[field] = 0
    THEN [element EXCEPT !.time[field] = now] ELSE element

\* The time goes into the field of the layer, also when it is already set.
Stamp(element, field, now) ==
    IF field \in Layers THEN [element EXCEPT !.time[field] = now] ELSE element

\* tcp_v4_do_rcv and tcp_sendmsg store the socket of conns_info as well.
StoresSocket(packet, field) == \/ field = "sk"
                               \/ Creates(packet) /\ packet.kind = "tcpTx"

\* Another packet has read its time before p has, and will write it into the
\* same field of the same element after p has.
WillBeReplaced(p) ==
    \E q \in Packets : /\ ptPacket[q].pc = "read" /\ ptPacket[q].at = ptPacket[p].at
                       /\ Field(q) = Field(p) /\ ptPacket[q].now < ptPacket[p].now

\* The packet leaves the probe.
Left(packet) == [packet EXCEPT !.passed = @ + 1, !.pc = "off", !.at = "none", !.now = 0,
                               !.stale = FALSE]

\* The element the probe holds and the packet, once the time is stored.
Stored(p) ==
    LET packet == ptPacket[p]
    IN  [Stamp(ptElement[packet.at], Field(p), packet.now) EXCEPT
            !.sk = @ \/ StoresSocket(packet, Field(p)),
            !.foreign = @ \/ packet.stale]

After(p) ==
    LET packet == ptPacket[p]
    IN  IF Field(p) \notin Layers THEN packet
        ELSE [packet EXCEPT !.own[Field(p)] = packet.now,
                 !.raced = IF packet.stale \/ WillBeReplaced(p) THEN @ \union {Field(p)} ELSE @]

\* The probe writes into the element it holds; in the last one, which sends
\* nothing without a socket, it goes on to compute the message.
PtStore(p) ==
    /\ \/ ptPacket[p].pc = "read"
       \/ ptPacket[p].pc = "found" /\ Field(p) = "sk"
    /\ ptElement' = [ptElement EXCEPT ![ptPacket[p].at] = Stored(p)]
    /\ ptPacket' = [ptPacket EXCEPT ![p] =
           IF ~IsLast(p) THEN Left(After(p))
           ELSE IF Stored(p).sk THEN [After(p) EXCEPT !.pc = "sending"] ELSE Gone]
    /\ UNCHANGED ptClock

\* The message is submitted, or dropped when the ring buffer is full.
PtSubmit(p) ==
    /\ ptPacket[p].pc = "sending"
    /\ ptPacket' = [ptPacket EXCEPT ![p] = Gone]
    /\ UNCHANGED <<ptElement, ptClock>>

\* The packet passes a probe that has no effect: it is not attached yet or was
\* missed, the connection is not in conns_info, or there is no entry.
PtUnseen(p) ==
    LET packet == ptPacket[p]
    IN  /\ Alive(p)
        /\ packet.pc = "off"
        /\ ptPacket' = [ptPacket EXCEPT ![p] =
               IF IsLast(p) THEN Gone
               ELSE [Left(packet) EXCEPT !.alone = packet.alone /\ Field(p) = "sk"]]
        /\ UNCHANGED <<ptElement, ptClock>>

PtDrop(p) ==
    /\ Alive(p)
    /\ ptPacket[p].pc = "off"
    /\ ptPacket' = [ptPacket EXCEPT ![p] = Gone]
    /\ UNCHANGED <<ptElement, ptClock>>

\* The LRU map takes the element away; probes may still hold it.  What nobody
\* holds is cleared here already, not when the element is used again.
PtEvict(e) ==
    /\ ptElement[e].key # "none"
    /\ ptElement' = [ptElement EXCEPT ![e] =
                        IF \E p \in Packets : ptPacket[p].at = e
                        THEN [@ EXCEPT !.key = "none"] ELSE Empty]
    /\ ptPacket' = [p \in Packets |-> [ptPacket[p] EXCEPT !.stale = @ \/ ptPacket[p].at = e]]
    /\ UNCHANGED ptClock

PacketNext ==
    \/ \E p \in Packets : \/ PtArrive(p) \/ PtFind(p) \/ PtClock(p) \/ PtStore(p)
                          \/ PtSubmit(p) \/ PtUnseen(p) \/ PtDrop(p)
    \/ \E e \in Elements : PtEvict(e)

PacketSpec == PacketInit /\ [][PacketNext]_ptVars

-----------------------------------------------------------------------------
\* A layer time is never computed from a stamp older than the packet's own,
\* whichever moment of the last probe it is read at: packets that share the
\* entry, in whatever order they pass the probes, and entries that are evicted
\* and made again can only make it later, or lose it.  A packet that shared
\* its key with no other on its way is reported with exactly its own stamps.
\* The exceptions are a layer where the store of another packet, which had
\* read the clock earlier, went over the packet's own, and elements the map
\* took away while a probe held them (packet.bpf.h and udp.bpf.h).
PtTimesNeverOlder ==
    \A p \in Packets :
        LET packet  == ptPacket[p]
            element == ptElement[packet.at]
        IN  packet.pc = "sending" /\ ~packet.stale /\ ~element.foreign =>
                \A l \in Reported[packet.kind] \ packet.raced :
                    /\ element.time[l] # 0 => element.time[l] >= packet.own[l]
                    /\ packet.alone => element.time[l] = packet.own[l]
=============================================================================
