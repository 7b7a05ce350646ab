---------------------------- MODULE TokenBucket ----------------------------
(***************************************************************************)
(* rate_limit_check of wirefisher (common.h): the token buckets its packet *)
(* handlers keep in the hash map "buckets", one per flow.  Packets of a    *)
(* flow may be handled by several CPUs at once, and nothing locks a        *)
(* bucket: each access to shared memory is a step.  As compiled, tokens is *)
(* loaded once, and stored once clamped and once more when bytes are taken.*)
(*                                                                         *)
(* The map (external) has preallocated elements, named here by the key     *)
(* that takes them first; an update that replaces an element takes the     *)
(* spare one of its CPU and leaves the old one in its place, even while    *)
(* other CPUs hold a pointer to it.                                        *)
(***************************************************************************)
EXTENDS Integers, FiniteSets

CONSTANTS
  CPUs,
  Keys,          \* bucket keys: cgroups, directions, pids, flows
  SerialKeys,    \* those whose packets one CPU handles at a time
  NoElem,        \* bpf_map_lookup_elem found nothing
  Lengths,       \* packet_len
  rule_rate_bps, \* rate_bps of the rule, a u64
  time_scale,
  NSEC_PER_SEC,
  U32, U64,      \* 2^32 and 2^64
  MaxEntries,    \* max_entries of buckets
  MaxTime        \* bound on the clock

ASSUME NamesAssumption ==
  /\ SerialKeys \subseteq Keys /\ Keys \cap CPUs = {}
  /\ NoElem \notin Keys \cup CPUs
ASSUME NumbersAssumption ==
  /\ Lengths \subseteq Nat
  /\ rule_rate_bps \in Nat /\ time_scale \in Nat
  /\ {NSEC_PER_SEC, U32, U64} \subseteq Nat \ {0}

VARIABLES
  now,     \* bpf_ktime_get_ns
  entry,   \* the element of each key
  spare,   \* the spare element of each CPU
  bucket,  \* struct rate_bucket in each element
  pc,      \* where each CPU is in rate_limit_check
  call,    \* its arguments and local variables
  offered, \* history: when a serial flow last offered a packet
  level,   \* history: what it got through, drained at the rate until then
  refills  \* history: refills of a serial flow since its bucket was full

vars == <<now, entry, spare, bucket, pc, call, offered, level, refills>>

Elems == Keys \cup CPUs

(* struct rate_limit has a u32 rate_bps, and multiplies it as one.         *)
rate_bps == rule_rate_bps % U32

max_bucket == ((rate_bps * time_scale) % U32) \div 4

Limiter == INSTANCE RateLimiter
  WITH Flows <- SerialKeys, Rate <- rate_bps, Burst <- max_bucket,
       Unit <- NSEC_PER_SEC

Calls == [key : Keys \cup {NoElem}, len : Nat, now : Nat, b : Elems \cup {NoElem},
          delta_ns : Nat, tokens : Nat]

Called(k, n, t) == [key |-> k, len |-> n, now |-> t, b |-> NoElem,
                    delta_ns |-> 0, tokens |-> 0]

Returned == Called(NoElem, 0, 0)

Init ==
  /\ now = 0
  /\ entry = [k \in Keys |-> NoElem]
  /\ spare = [c \in CPUs |-> c]
  /\ bucket = [e \in Elems |-> [ts_ns |-> 0, tokens |-> 0]]
  /\ pc = [c \in CPUs |-> "idle"]
  /\ call = [c \in CPUs |-> Returned]
  /\ offered = [k \in SerialKeys |-> 0]
  /\ level = [k \in SerialKeys |-> 0]
  /\ refills = [k \in SerialKeys |-> 0]

Goto(c, from, to) ==
  /\ pc[c] = from
  /\ pc' = [pc EXCEPT ![c] = to]

Return(c, from) ==
  /\ Goto(c, from, "idle")
  /\ call' = [call EXCEPT ![c] = Returned]

(* A packet of n bytes that the rule is for reaches rate_limit_check.      *)
Packet(c, k, n) ==
  /\ Goto(c, "idle", "lookup")
  /\ k \in SerialKeys => \A d \in CPUs : call[d].key # k
  /\ call' = [call EXCEPT ![c] = Called(k, n, now)]
  /\ offered' = [j \in SerialKeys |-> IF j = k THEN now ELSE offered[j]]
  /\ level' = [j \in SerialKeys |->
       IF j = k THEN Limiter!Drained(level[j], now - offered[j]) ELSE level[j]]
  /\ UNCHANGED <<now, entry, spare, bucket, refills>>

Found(c) ==
  /\ entry[call[c].key] # NoElem
  /\ call' = [call EXCEPT ![c].b = entry[call[c].key]]

Lookup(c) ==
  /\ \/ Goto(c, "lookup", "delta") /\ Found(c)
     \/ /\ Goto(c, "lookup", "insert")
        /\ entry[call[c].key] = NoElem
        /\ UNCHANGED call
  /\ UNCHANGED <<now, entry, spare, bucket, offered, level, refills>>

FullBucket(t) == [ts_ns |-> t, tokens |-> max_bucket]

Entries == {k \in Keys : entry[k] # NoElem}

(* bpf_map_update_elem for a key that has no element yet.                  *)
Insert(c) ==
  /\ Goto(c, "insert", "again")
  /\ entry[call[c].key] = NoElem /\ Cardinality(Entries) < MaxEntries
  /\ entry' = [entry EXCEPT ![call[c].key] = call[c].key]
  /\ bucket' = [bucket EXCEPT ![call[c].key] = FullBucket(call[c].now)]
  /\ UNCHANGED <<now, spare, call, offered, level, refills>>

(* Another CPU inserted it in between: the flag is 0, which replaces it.   *)
Replace(c) ==
  /\ Goto(c, "insert", "again")
  /\ entry[call[c].key] # NoElem
  /\ entry' = [entry EXCEPT ![call[c].key] = spare[c]]
  /\ spare' = [spare EXCEPT ![c] = entry[call[c].key]]
  /\ bucket' = [bucket EXCEPT ![spare[c]] = FullBucket(call[c].now)]
  /\ UNCHANGED <<now, call, offered, level, refills>>

MapIsFull(c) ==
  /\ Goto(c, "insert", "again")
  /\ entry[call[c].key] = NoElem /\ Cardinality(Entries) >= MaxEntries
  /\ UNCHANGED <<now, entry, spare, bucket, call, offered, level, refills>>

LookupAgain(c) ==
  /\ Goto(c, "again", "delta") /\ Found(c)
  /\ UNCHANGED <<now, entry, spare, bucket, offered, level, refills>>

(* No bucket can be had: ACCEPT, which level does not count.               *)
AcceptUnlimited(c) ==
  /\ Return(c, "again")
  /\ entry[call[c].key] = NoElem
  /\ UNCHANGED <<now, entry, spare, bucket, offered, level, refills>>

LoadTime(c) ==
  /\ Goto(c, "delta", "refill")
  /\ call' = [call EXCEPT ![c].delta_ns = (call[c].now - bucket[call[c].b].ts_ns) % U64]
  /\ UNCHANGED <<now, entry, spare, bucket, offered, level, refills>>

(* Mutant: the quotient is taken first.                                    *)
refill_seconds(delta_ns) == (delta_ns \div NSEC_PER_SEC) * rate_bps

refill(delta_ns) == ((delta_ns * rate_bps) % U64) \div NSEC_PER_SEC

(* Mutant: the bucket is not limited.                                      *)
unclamped(tokens) == tokens

clamped(tokens) == IF tokens > max_bucket THEN max_bucket ELSE tokens

LoadTokens(c) ==
  LET tokens == (bucket[call[c].b].tokens + refill(call[c].delta_ns)) % U64 IN
  /\ Goto(c, "refill", "store")
  /\ call' = [call EXCEPT ![c].tokens = clamped(tokens), ![c].delta_ns = 0]
  /\ refills' = [k \in SerialKeys |->
       IF k # call[c].key THEN refills[k]
       ELSE IF tokens >= max_bucket THEN 0
       ELSE IF call[c].delta_ns > 0 THEN refills[k] + 1 ELSE refills[k]]
  /\ UNCHANGED <<now, entry, spare, bucket, offered, level>>

StoreTokens(c) ==
  /\ Goto(c, "store", "stamp")
  /\ bucket' = [bucket EXCEPT ![call[c].b].tokens = call[c].tokens]
  /\ UNCHANGED <<now, entry, spare, call, offered, level, refills>>

(* Mutant: the time is stored only when bytes are taken after it.          *)
StoreTimeIfTaken(c) ==
  /\ Goto(c, "stamp", "verdict")
  /\ bucket' = IF call[c].tokens < call[c].len THEN bucket
               ELSE [bucket EXCEPT ![call[c].b].ts_ns = call[c].now]
  /\ UNCHANGED <<now, entry, spare, call, offered, level, refills>>

StoreTime(c) ==
  /\ Goto(c, "stamp", "verdict")
  /\ bucket' = [bucket EXCEPT ![call[c].b].ts_ns = call[c].now]
  /\ UNCHANGED <<now, entry, spare, call, offered, level, refills>>

Drop(c) ==
  /\ Return(c, "verdict")
  /\ call[c].tokens < call[c].len
  /\ UNCHANGED <<now, entry, spare, bucket, offered, level, refills>>

(* Mutant: the tokens are not compared with the length.                    *)
AcceptUnchecked(c) ==
  /\ Return(c, "verdict")
  /\ bucket' = [bucket EXCEPT ![call[c].b].tokens = call[c].tokens - call[c].len]
  /\ level' = [k \in SerialKeys |->
       IF k = call[c].key THEN level[k] + call[c].len * NSEC_PER_SEC ELSE level[k]]
  /\ UNCHANGED <<now, entry, spare, offered, refills>>

Accept(c) ==
  /\ Return(c, "verdict")
  /\ call[c].tokens >= call[c].len
  /\ bucket' = [bucket EXCEPT ![call[c].b].tokens = call[c].tokens - call[c].len]
  /\ level' = [k \in SerialKeys |->
       IF k = call[c].key THEN level[k] + call[c].len * NSEC_PER_SEC ELSE level[k]]
  /\ UNCHANGED <<now, entry, spare, offered, refills>>

(* A nanosecond passes.                                                    *)
Tick ==
  /\ now < MaxTime
  /\ now' = now + 1
  /\ UNCHANGED <<entry, spare, bucket, pc, call, offered, level, refills>>

Step(c) ==
  \/ \E k \in Keys, n \in Lengths : Packet(c, k, n)
  \/ Lookup(c) \/ Insert(c) \/ Replace(c) \/ MapIsFull(c) \/ LookupAgain(c)
  \/ AcceptUnlimited(c) \/ LoadTime(c) \/ LoadTokens(c)
  \/ StoreTokens(c) \/ StoreTime(c) \/ Drop(c) \/ Accept(c)

Next == Tick \/ \E c \in CPUs : Step(c)

Spec == Init /\ [][Next]_vars

----------------------------------------------------------------------------

Positions == {"idle", "lookup", "insert", "again", "delta", "refill", "store",
              "stamp", "verdict"}

TypeOK ==
  /\ now \in Nat
  /\ entry \in [Keys -> Elems \cup {NoElem}]
  /\ spare \in [CPUs -> Elems]
  /\ bucket \in [Elems -> [ts_ns : Nat, tokens : Nat]]
  /\ pc \in [CPUs -> Positions]
  /\ call \in [CPUs -> Calls]
  /\ offered \in [SerialKeys -> Nat] /\ level \in [SerialKeys -> Nat]
  /\ refills \in [SerialKeys -> Nat]

(* No bucket holds more than max_bucket tokens, whichever CPUs refill and  *)
(* empty it at the same time and whatever time another left in it (lines   *)
(* 72 to 83): an idle flow cannot save up.                                 *)
TokensWithinBucket == \A e \in Elems : bucket[e].tokens <= max_bucket

(* The flows of serial keys get no more through than a leaky bucket of the *)
(* same rate and size lets through, from the packet on that has a bucket:  *)
(* those accepted because the map is full (line 67) are not counted.       *)
ImplementsRateLimiter == Limiter!Spec

(* A packet of a serial key is dropped only if the flow is at its limit:   *)
(* but for less than one byte per refill that rounding took, the leaky     *)
(* bucket had no room for it when it came.                                 *)
DropsOnlyExcess ==
  [][\A c \in CPUs : Drop(c) /\ call[c].key \in SerialKeys =>
       level[call[c].key] + (call[c].len + refills[call[c].key]) * NSEC_PER_SEC
         > max_bucket * NSEC_PER_SEC]_vars
=============================================================================
