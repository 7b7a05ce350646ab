----------------------------- MODULE MapCounters -----------------------------
(***************************************************************************)
(* The counters that the tracers keep in BPF maps, and the four ways in    *)
(* which their programs, running on several CPUs, increment one:           *)
(*                                                                         *)
(*   rst   netwatcher, resets per process (tcp.bpf.h, ret): in place, or   *)
(*         inserted as 1                                                   *)
(*   dns   netwatcher, queries per address pair (udp.bpf.h,                *)
(*         process_dns_packet): a copy is incremented and stored           *)
(*   hist  netwatcher, round trip times (tcp.bpf.h,                        *)
(*         __tcp_rcv_established): inserted as 0, then an atomic add       *)
(*   incr  uringtrace (uringtrace.bpf.c, __incr): in place in an array,    *)
(*         and the element is then stored over itself                      *)
(*                                                                         *)
(* One key of one map.  The hash maps hold 1024 entries, which are never   *)
(* deleted: an entry for a new key may find no room, and the result of     *)
(* bpf_map_update_elem is ignored.  For a key that is there it puts a new  *)
(* element in the place of the old one, which the map will use again, for  *)
(* any key; gen numbers those of this key.  A program that still holds a   *)
(* pointer to an old one reads and writes what may by then be the count of *)
(* another key.                                                            *)
(***************************************************************************)
EXTENDS Naturals

CONSTANTS CounterCpus,
          MaxCount        \* bound: increments made

ASSUME CounterAssumption == MaxCount \in Nat

VARIABLES mcIdiom,        \* the way in which this counter is incremented
          mcMap,          \* the element under the key; gen 0: there is none
          mcCall,         \* the program each CPU runs
          mcCount,        \* how many programs came to their end
          mcFull,         \* how many of them counted nothing: the map was full
          mcOverlapped,   \* two programs ran at the same time
          mcTorn          \* a program held an element when it was replaced

mcVars == <<mcIdiom, mcMap, mcCall, mcCount, mcFull, mcOverlapped, mcTorn>>

Idioms == {"rst", "dns", "hist", "incr"}

NoCall == [pc |-> "idle", gen |-> 0, value |-> 0]

Running(c) == mcCall[c] # NoCall

MapCountersInit ==
    /\ mcIdiom \in Idioms
    /\ mcMap = [gen |-> IF mcIdiom = "incr" THEN 1 ELSE 0, value |-> 0]
    /\ mcCall = [c \in CounterCpus |-> NoCall]
    /\ mcCount = 0
    /\ mcFull = 0
    /\ mcOverlapped = FALSE
    /\ mcTorn = FALSE

Goes(c, pc, value) ==
    mcCall' = [mcCall EXCEPT ![c] = [pc |-> pc, gen |-> mcMap.gen, value |-> value]]

Returns(c) == mcCall' = [mcCall EXCEPT ![c] = NoCall]

\* The pointer the program on c holds is to the element that is in the map.
Current(c) == mcCall[c].gen = mcMap.gen

\* Mutant: hist inserts 1, and adds to it as well.
McLookupFromOne(c) ==
    /\ ~Running(c)
    /\ mcCount < MaxCount
    /\ mcOverlapped' = (mcOverlapped \/ \E d \in CounterCpus : Running(d))
    /\ CASE mcMap.gen = 0 -> Goes(c, "insert", 1)
         [] mcMap.gen # 0 /\ mcIdiom = "dns" -> Goes(c, "read", 0)
         [] mcMap.gen # 0 /\ mcIdiom = "hist" -> Goes(c, "add", 0)
         [] mcMap.gen # 0 /\ mcIdiom \in {"rst", "incr"} -> Goes(c, "load", 0)
    /\ UNCHANGED <<mcIdiom, mcMap, mcCount, mcFull, mcTorn>>

\* bpf_map_lookup_elem
McLookup(c) ==
    /\ ~Running(c)
    /\ mcCount < MaxCount
    /\ mcOverlapped' = (mcOverlapped \/ \E d \in CounterCpus : Running(d))
    /\ CASE mcMap.gen = 0 -> Goes(c, "insert", IF mcIdiom = "hist" THEN 0 ELSE 1)
         [] mcMap.gen # 0 /\ mcIdiom = "dns" -> Goes(c, "read", 0)
         [] mcMap.gen # 0 /\ mcIdiom = "hist" -> Goes(c, "add", 0)
         [] mcMap.gen # 0 /\ mcIdiom \in {"rst", "incr"} -> Goes(c, "load", 0)
    /\ UNCHANGED <<mcIdiom, mcMap, mcCount, mcFull, mcTorn>>

\* dns copies the count out of the element it found.
McRead(c) ==
    /\ mcCall[c].pc = "read"
    /\ \E value \in IF Current(c) THEN {mcMap.value} ELSE 0 .. MaxCount :
          mcCall' = [mcCall EXCEPT ![c] = [pc |-> "insert", gen |-> @.gen, value |-> value + 1]]
    /\ UNCHANGED <<mcIdiom, mcMap, mcCount, mcFull, mcOverlapped, mcTorn>>

\* The program holds a pointer to the element that is in the map.
Holds(c) == mcCall[c].pc \in {"read", "add", "load", "store"} /\ Current(c)

\* bpf_map_update_elem with BPF_ANY.
McInsert(c) ==
    /\ mcCall[c].pc = "insert"
    /\ mcMap' = [gen |-> mcMap.gen + 1, value |-> mcCall[c].value]
    /\ mcTorn' = (mcTorn \/ \E d \in CounterCpus : Holds(d))
    /\ IF mcIdiom = "hist"
       THEN Goes(c, "again", 0) /\ UNCHANGED mcCount
       ELSE Returns(c) /\ mcCount' = mcCount + 1
    /\ UNCHANGED <<mcIdiom, mcFull, mcOverlapped>>

\* The key is new, and the map is full.
McInsertFails(c) ==
    /\ mcCall[c].pc = "insert"
    /\ mcMap.gen = 0
    /\ IF mcIdiom = "hist"
       THEN Goes(c, "again", 0) /\ UNCHANGED <<mcCount, mcFull>>
       ELSE Returns(c) /\ mcCount' = mcCount + 1 /\ mcFull' = mcFull + 1
    /\ UNCHANGED <<mcIdiom, mcMap, mcOverlapped, mcTorn>>

\* hist looks the element up that it inserted, and returns when there is none.
McLookupAgain(c) ==
    /\ mcCall[c].pc = "again"
    /\ IF mcMap.gen # 0 THEN Goes(c, "add", 0) /\ UNCHANGED <<mcCount, mcFull>>
       ELSE Returns(c) /\ mcCount' = mcCount + 1 /\ mcFull' = mcFull + 1
    /\ UNCHANGED <<mcIdiom, mcMap, mcOverlapped, mcTorn>>

\* __sync_fetch_and_add
McAtomicAdd(c) ==
    /\ mcCall[c].pc = "add"
    /\ mcMap' = IF Current(c) THEN [mcMap EXCEPT !.value = @ + 1] ELSE mcMap
    /\ mcCount' = mcCount + 1
    /\ Returns(c)
    /\ UNCHANGED <<mcIdiom, mcFull, mcOverlapped, mcTorn>>

\* The increment in place is a load ...  (What is read from an element that was
\* replaced is written into that one: it does not matter here.)
McLoad(c) ==
    /\ mcCall[c].pc = "load"
    /\ mcCall' = [mcCall EXCEPT ![c] =
                     [pc |-> "store", gen |-> @.gen, value |-> mcMap.value + 1]]
    /\ UNCHANGED <<mcIdiom, mcMap, mcCount, mcFull, mcOverlapped, mcTorn>>

\* ... and a store.
McStore(c) ==
    /\ mcCall[c].pc = "store"
    /\ mcMap' = IF Current(c) THEN [mcMap EXCEPT !.value = mcCall[c].value] ELSE mcMap
    /\ mcCount' = mcCount + 1
    /\ IF mcIdiom = "incr" THEN Goes(c, "reload", 0) ELSE Returns(c)
    /\ UNCHANGED <<mcIdiom, mcFull, mcOverlapped, mcTorn>>

\* bpf_map_update_elem of an array element with itself: a load and a store.
McReload(c) ==
    /\ mcCall[c].pc = "reload"
    /\ Goes(c, "restore", mcMap.value)
    /\ UNCHANGED <<mcIdiom, mcMap, mcCount, mcFull, mcOverlapped, mcTorn>>

McRestore(c) ==
    /\ mcCall[c].pc = "restore"
    /\ mcMap' = [mcMap EXCEPT !.value = mcCall[c].value]
    /\ Returns(c)
    /\ UNCHANGED <<mcIdiom, mcCount, mcFull, mcOverlapped, mcTorn>>

\* A program for another key writes into the element it held, which is this
\* key's now.  The elements of an array are never replaced.
McForeignWrite ==
    /\ mcMap.gen # 0 /\ mcIdiom # "incr"
    /\ \E value \in 0 .. MaxCount : mcMap' = [mcMap EXCEPT !.value = value]
    /\ mcTorn' = TRUE
    /\ UNCHANGED <<mcIdiom, mcCall, mcCount, mcFull, mcOverlapped>>

MapCountersNext ==
    \/ McForeignWrite
    \/ \E c \in CounterCpus :
          \/ McLookup(c) \/ McRead(c) \/ McInsert(c) \/ McInsertFails(c) \/ McLookupAgain(c)
          \/ McAtomicAdd(c) \/ McLoad(c) \/ McStore(c) \/ McReload(c) \/ McRestore(c)

MapCountersSpec == MapCountersInit /\ [][MapCountersNext]_mcVars

-----------------------------------------------------------------------------
Quiet == \A c \in CounterCpus : ~Running(c)

\* As long as no program held an element that the map replaced, a counter never
\* shows more than what was counted; increments that overlap may be lost, by a
\* load and a store of two CPUs, by an element that is inserted twice, by the
\* element stored over itself, but not all of them.  As long as none overlapped
\* none is lost but those that found the map full (ret, process_dns_packet,
\* __tcp_rcv_established, __incr).
McCountBounds ==
    ~mcTorn => /\ mcMap.value + mcFull <= mcCount
               /\ Quiet /\ mcCount > mcFull => mcMap.value > 0
               /\ ~mcOverlapped => mcMap.value + mcFull = mcCount
=============================================================================
