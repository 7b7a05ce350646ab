--------------------------- MODULE NetfilterTimes ---------------------------
(***************************************************************************)
(* The netfilter timing of netwatcher (netfilter.bpf.h): seven kprobes     *)
(* stamp the packet of an sk_buff in the LRU map netfilter_time, which is  *)
(* keyed by the ADDRESS of the sk_buff, and the last hook of a route sends *)
(* the differences of the stamps to the user.                              *)
(*                                                                         *)
(* The environment is the kernel's IP layer: a packet takes one of five    *)
(* routes, any probe on it may be missed, it may be dropped at any point,  *)
(* and its sk_buff is then given to another packet.  A stamp holds the     *)
(* packet and the position at which it was taken instead of a clock value: *)
(* packets that share an sk_buff are alive one after the other, so the two *)
(* order the stamps in time.                                               *)
(***************************************************************************)
EXTENDS Naturals, Sequences, FiniteSets, BpfMaps

CONSTANTS Skbs,           \* addresses of sk_buffs
          MaxPackets      \* bound: packets in a behaviour

ASSUME NetfilterAssumption == MaxPackets \in Nat

VARIABLES nfSkb,          \* the packet each sk_buff holds
          nfTime,         \* map netfilter_time
          nfPackets,      \* packets created so far
          nfReport        \* the message the last step submitted, if any

nfVars == <<nfSkb, nfTime, nfPackets, nfReport>>

\* The functions that carry a kprobe.
Hooks == {"ip_rcv", "ip_local_deliver", "ip_local_deliver_finish", "ip_local_out",
          "ip_output", "__ip_finish_output", "ip_forward"}

\* The kernel's ways through the hooks.  A packet that its driver delivers in
\* a list enters through ip_list_rcv, which carries no probe.
Routes == [received  |-> <<"ip_rcv", "ip_local_deliver", "ip_local_deliver_finish">>,
           forwarded |-> <<"ip_rcv", "ip_forward", "ip_output", "__ip_finish_output">>,
           sent      |-> <<"ip_local_out", "ip_output", "__ip_finish_output">>,
           received_in_list |->
               <<"ip_list_rcv", "ip_local_deliver", "ip_local_deliver_finish">>,
           forwarded_in_list |->
               <<"ip_list_rcv", "ip_forward", "ip_output", "__ip_finish_output">>]

\* An sk_buff: its packet and the route of that, the hooks it has passed, those
\* whose probe ran, and whether its ports pass FILTER.
NoSkb   == [id |-> 0, route |-> "sent", passed |-> 0, ran |-> {}, wanted |-> FALSE]
NoStamp == [id |-> 0, at |-> 0]
\* A message: the packet that caused it, its route and the probes that ran on
\* it, the packet of the addresses, the direction, and the hooks whose stamps
\* are used, each with the packet stamped.
NfNoReport == [by |-> 0, route |-> "sent", ran |-> {}, of |-> 0, rx |-> 0, used |-> {}]
Zero     == [init |-> 0, wanted |-> FALSE, time |-> [h \in Hooks |-> NoStamp]]

Set(stamp) == stamp # NoStamp

\* (int)(a - b) < 0: the sign of a - b in microseconds.  The stamps of two
\* packets may be far apart, by more than 2^31 us, and then the sign is lost.
BelowZero(a, b, far) ==
    IF a.id = b.id THEN a.at < b.at ELSE (a.id < b.id) # far

NetfilterInit ==
    /\ nfSkb = [s \in Skbs |-> NoSkb]
    /\ nfTime = [s \in {} |-> Zero]
    /\ nfPackets = 0
    /\ nfReport = NfNoReport

-----------------------------------------------------------------------------
(* submit_nf_time: the stamps each reported difference is computed from.   *)

InboundHooks  == {"ip_rcv", "ip_local_deliver", "ip_local_deliver_finish"}
ForwardHooks  == InboundHooks \union {"ip_forward", "ip_output"}
OutboundHooks == {"ip_local_out", "ip_output", "__ip_finish_output"}

\* A group of differences is computed when all its hooks are stamped.
Complete(t, hooks) == \A h \in hooks : Set(t[h])
From(t, hooks) == IF Complete(t, hooks) THEN {[hook |-> h, id |-> t[h].id] : h \in hooks}
                  ELSE {}

\* A negative difference discards the message.
Negative(t, rx, far) ==
    IF rx = 1
    THEN /\ Complete(t, InboundHooks)
         /\ \/ BelowZero(t["ip_local_deliver_finish"], t["ip_local_deliver"], far)
            \/ BelowZero(t["ip_local_deliver"], t["ip_rcv"], far)
    ELSE \/ /\ Complete(t, ForwardHooks)
            /\ BelowZero(t["ip_output"], t["ip_forward"], far)
         \/ /\ Complete(t, OutboundHooks)
            /\ \/ BelowZero(t["ip_output"], t["ip_local_out"], far)
               \/ BelowZero(t["__ip_finish_output"], t["ip_output"], far)

\* The direction "forwarded" is only taken when all five hooks are stamped.
Message(skb, entry, rx) ==
    [by    |-> skb.id,
     route |-> skb.route,
     ran   |-> skb.ran,
     of    |-> entry.init,
     rx    |-> IF rx = 0 /\ Complete(entry.time, ForwardHooks) THEN 2 ELSE rx,
     used  |-> IF rx = 1 THEN From(entry.time, InboundHooks)
               ELSE From(entry.time, ForwardHooks) \union From(entry.time, OutboundHooks)]

\* FILTER on the ports, then the ring buffer, which may be full.
submit_nf_time(skb, entry, rx) ==
    \/ nfReport' = NfNoReport
    \/ /\ entry.wanted
       /\ \E far \in BOOLEAN : ~Negative(entry.time, rx, far)
       /\ nfReport' = Message(skb, entry, rx)

-----------------------------------------------------------------------------
Started(hook) == hook \in {"ip_rcv", "ip_local_out"}
LastHook(hook) == hook \in {"ip_local_deliver_finish", "__ip_finish_output"}

\* Mutant: an entry that is there keeps its tuple.
EntryKeepsTuple(s, hook) ==
    IF s \in DOMAIN nfTime THEN nfTime[s]
    ELSE [Zero EXCEPT !.init = nfSkb[s].id, !.wanted = nfSkb[s].wanted]

\* The entry the hook stamps: the first hook of a route finds or creates it
\* and rewrites the tuple; the others only find it.
Entry(s, hook) ==
    LET found == IF s \in DOMAIN nfTime THEN nfTime[s] ELSE Zero
    IN  IF Started(hook)
        THEN [found EXCEPT !.init = nfSkb[s].id, !.wanted = nfSkb[s].wanted]
        ELSE found

Stamped(s, hook) ==
    [Entry(s, hook) EXCEPT !.time[hook] = [id |-> nfSkb[s].id, at |-> nfSkb[s].passed + 1]]

\* The probe of the hook; skb is the sk_buff with the hook passed.
store_nf_time(s, hook, skb) ==
    IF ~Started(hook) /\ s \notin DOMAIN nfTime
    THEN nfTime' = nfTime /\ nfReport' = NfNoReport
    ELSE IF LastHook(hook)
         THEN /\ nfTime' = Without(nfTime, {s})
              /\ submit_nf_time(skb, Stamped(s, hook),
                                IF hook = "ip_local_deliver_finish" THEN 1 ELSE 0)
         ELSE /\ nfTime' = Updated(nfTime, s, Stamped(s, hook))
              /\ nfReport' = NfNoReport

\* A packet enters the IP layer in a free sk_buff.  Whether its ports pass
\* FILTER is a property of the packet.
NfArrive(s) ==
    /\ nfSkb[s] = NoSkb
    /\ nfPackets < MaxPackets
    /\ nfPackets' = nfPackets + 1
    /\ \E route \in DOMAIN Routes, wanted \in BOOLEAN :
          nfSkb' = [nfSkb EXCEPT ![s] = [id |-> nfPackets + 1, route |-> route,
                                         passed |-> 0, ran |-> {}, wanted |-> wanted]]
    /\ nfReport' = NfNoReport
    /\ UNCHANGED nfTime

NextHook(s) == Routes[nfSkb[s].route][nfSkb[s].passed + 1]

\* The packet leaves the IP layer after the last hook of its route.
Passed(s, skb) ==
    nfSkb' = [nfSkb EXCEPT ![s] =
                 IF nfSkb[s].passed + 1 = Len(Routes[nfSkb[s].route]) THEN NoSkb
                 ELSE [skb EXCEPT !.passed = @ + 1]]

\* The packet reaches the next hook of its route, and the probe runs.
NfHook(s) ==
    LET hook == NextHook(s)
        skb  == [nfSkb[s] EXCEPT !.ran = @ \union {hook}]
    IN  /\ nfSkb[s] # NoSkb
        /\ hook \in Hooks
        /\ store_nf_time(s, hook, skb)
        /\ Passed(s, skb)
        /\ UNCHANGED nfPackets

\* The packet passes the next hook of its route unseen: the function has no
\* probe, it is not attached yet (the probes are attached one after the other),
\* or the kernel missed it: none is run that interrupts another on its CPU.
NfUnseen(s) ==
    /\ nfSkb[s] # NoSkb
    /\ Passed(s, nfSkb[s])
    /\ nfReport' = NfNoReport
    /\ UNCHANGED <<nfTime, nfPackets>>

\* A chain drops the packet: nothing tells netwatcher.
NfDrop(s) ==
    /\ nfSkb[s] # NoSkb
    /\ nfSkb' = [nfSkb EXCEPT ![s] = NoSkb]
    /\ nfReport' = NfNoReport
    /\ UNCHANGED <<nfTime, nfPackets>>

\* The LRU map gives the entry away.
NfEvict(s) ==
    /\ s \in DOMAIN nfTime
    /\ nfTime' = Without(nfTime, {s})
    /\ nfReport' = NfNoReport
    /\ UNCHANGED <<nfSkb, nfPackets>>

NetfilterNext ==
    \E s \in Skbs : NfArrive(s) \/ NfHook(s) \/ NfUnseen(s) \/ NfDrop(s) \/ NfEvict(s)

NetfilterSpec == NetfilterInit /\ [][NetfilterNext]_nfVars

-----------------------------------------------------------------------------
Stamps == [id : 0 .. MaxPackets, at : 0 .. 4]

\* Type invariant of the timing maps.
NetfilterTypeOK ==
    /\ nfSkb \in [Skbs -> [id : 0 .. MaxPackets, route : DOMAIN Routes,
                           passed : 0 .. 3, ran : SUBSET Hooks, wanted : BOOLEAN]]
    /\ DOMAIN nfTime \subseteq Skbs
    /\ \A s \in DOMAIN nfTime :
          nfTime[s] \in [init : 0 .. MaxPackets, wanted : BOOLEAN, time : [Hooks -> Stamps]]
    /\ nfPackets \in 0 .. MaxPackets

\* Every probe of the packet's route ran on it.
Whole(report) == \A i \in DOMAIN Routes[report.route] : Routes[report.route][i] \in report.ran

\* A reported difference is computed from the time of another packet only for
\* a hook whose probe did not run on the packet that is reported, although
\* entries are found by the address of an sk_buff and dropped packets leave
\* theirs behind; and a packet that is delivered locally or sent and met all
\* the probes of its route has all its times and its own addresses in the
\* report (store_nf_time and submit_nf_time).
NfReportOfOnePacket ==
    /\ \A time \in nfReport.used : time.id # nfReport.by => time.hook \notin nfReport.ran
    /\ nfReport.route # "forwarded" /\ Whole(nfReport) =>
          /\ nfReport.of = nfReport.by
          /\ nfReport.used = {[hook |-> h, id |-> nfReport.by] : h \in nfReport.ran}

\* What README.md of netwatcher says of option -n: the time in the chain
\* FORWARD of a forwarded packet is shown.  The message of such a packet, when
\* it met every probe of its route, would have direction 2.
NfForwardReported ==
    nfReport.route = "forwarded" /\ Whole(nfReport) => nfReport.rx = 2
=============================================================================
