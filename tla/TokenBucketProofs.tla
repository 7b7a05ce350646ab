------------------------- MODULE TokenBucketProofs -------------------------
(***************************************************************************)
(* TokenBucket, for every set of CPUs and flows, every rule and every      *)
(* width of the integers: no bucket overflows, and the flows of serial     *)
(* keys get no more through than the leaky bucket of RateLimiter.          *)
(***************************************************************************)
EXTENDS TokenBucket, TLAPS

USE NamesAssumption, NumbersAssumption

----------------------------------------------------------------------------
(* Arithmetic                                                              *)

(* What % and \div return.                                                 *)
LEMMA Remainder == ASSUME NEW a \in Int, NEW m \in Nat \ {0}
                   PROVE  /\ a % m \in Nat
                          /\ a >= 0 => a % m <= a
  OBVIOUS

LEMMA Quotient == ASSUME NEW a \in Nat, NEW m \in Nat \ {0}
                  PROVE  a \div m \in Nat /\ (a \div m) * m <= a
  OBVIOUS

LEMMA Parameters == rate_bps \in Nat /\ max_bucket \in Nat
<1>1. rate_bps \in Nat
  BY Remainder DEF rate_bps
<1>2. rate_bps * time_scale \in Int
  BY <1>1
<1>3. (rate_bps * time_scale) % U32 \in Nat
  BY <1>2, Remainder
<1>4. max_bucket \in Nat
  BY <1>3, Quotient DEF max_bucket
<1> QED
  BY <1>1, <1>4

(* A refill is no more than the rate gives for the time.                   *)
LEMMA RefillBound == ASSUME NEW d \in Nat
                     PROVE  refill(d) \in Nat /\ refill(d) * NSEC_PER_SEC <= d * rate_bps
<1>1. d * rate_bps \in Nat
  BY Parameters
<1>2. (d * rate_bps) % U64 \in Nat /\ (d * rate_bps) % U64 <= d * rate_bps
  BY <1>1, Remainder
<1>3. /\ refill(d) \in Nat
      /\ refill(d) * NSEC_PER_SEC <= (d * rate_bps) % U64
  BY <1>2, Quotient DEF refill
<1> HIDE DEF refill
<1>4. refill(d) * NSEC_PER_SEC \in Nat
  BY <1>3
<1> QED
  BY <1>1, <1>2, <1>3, <1>4

(* What the clock, a bucket and a level have to do with one another when a *)
(* bucket is refilled: the level was low enough for what is refilled.      *)
LEMMA RefillFits ==
  ASSUME NEW l \in Nat, NEW a \in Nat, NEW x \in Nat, NEW y \in Nat,
         NEW d \in Nat, NEW e \in Nat,
         d <= e, x * NSEC_PER_SEC <= d * rate_bps, y <= a + x,
         l + rate_bps * e + a * NSEC_PER_SEC <= max_bucket * NSEC_PER_SEC
  PROVE  l + y * NSEC_PER_SEC <= max_bucket * NSEC_PER_SEC
<1> DEFINE N == NSEC_PER_SEC
<1>1. N \in Nat /\ rate_bps \in Nat /\ max_bucket \in Nat
  BY Parameters
<1>2. d * rate_bps <= rate_bps * e
  BY <1>1
<1>3. y * N <= (a + x) * N
  BY <1>1
<1>4. (a + x) * N = a * N + x * N
  BY <1>1
<1>5. /\ {y * N, a * N, x * N, d * rate_bps, rate_bps * e, max_bucket * N} \subseteq Nat
      /\ (a + x) * N \in Nat
  BY <1>1
<1> HIDE DEF N
<1> QED
  BY <1>2, <1>3, <1>4, <1>5 DEF N

----------------------------------------------------------------------------
(* Types and the size of the buckets                                       *)

Past(c) == pc[c] \in {"delta", "refill", "store", "stamp", "verdict"}

Refilled(c) == pc[c] \in {"store", "stamp", "verdict"}

(* A CPU in a call has its key, one past the lookups an element, and one   *)
(* past the refill a number of tokens that fits in the bucket.             *)
CallsInv ==
  \A c \in CPUs :
    /\ pc[c] = "idle" <=> call[c].key = NoElem
    /\ Past(c) => call[c].b \in Elems
    /\ Refilled(c) => call[c].tokens <= max_bucket

TypeInv == TypeOK /\ CallsInv /\ TokensWithinBucket

LEMMA TypeInit == Init => TypeInv
  BY Parameters DEF Init, TypeInv, TypeOK, CallsInv, TokensWithinBucket, Elems, Calls,
                    Called, Returned, Positions, Past, Refilled

(* The fields of a call and of a bucket have their types.                  *)
LEMMA Fields ==
  ASSUME TypeOK
  PROVE  /\ \A c \in CPUs :
              /\ call[c] \in Calls
              /\ call[c].key \in Keys \cup {NoElem}
              /\ call[c].len \in Nat /\ call[c].now \in Nat
              /\ call[c].b \in Elems \cup {NoElem}
              /\ call[c].delta_ns \in Nat /\ call[c].tokens \in Nat
         /\ \A e \in Elems : bucket[e].ts_ns \in Nat /\ bucket[e].tokens \in Nat
  BY DEF TypeOK, Calls

(* A call of which some fields are replaced.                               *)
LEMMA Assigned ==
  ASSUME NEW r \in Calls, NEW e \in Elems, NEW d \in Nat, NEW n \in Nat
  PROVE  /\ [r EXCEPT !.b = e] \in Calls
         /\ [r EXCEPT !.delta_ns = d] \in Calls
         /\ [r EXCEPT !.tokens = n, !.delta_ns = d] \in Calls
  BY DEF Calls

LEMMA ReturnedCall == Returned \in Calls /\ Returned.key = NoElem
  BY DEF Returned, Called, Calls

(* The three parts are kept by a CPU that goes to another place with a call*)
(* that fits there, and stores a bucket that is not too full.              *)
LEMMA CallStep ==
  ASSUME TypeInv, NEW c \in CPUs, NEW to \in Positions, NEW r \in Calls,
         pc' = [pc EXCEPT ![c] = to], call' = [call EXCEPT ![c] = r],
         to = "idle" <=> r.key = NoElem,
         to \in {"delta", "refill", "store", "stamp", "verdict"} => r.b \in Elems,
         to \in {"store", "stamp", "verdict"} => r.tokens <= max_bucket
  PROVE  /\ pc' \in [CPUs -> Positions] /\ call' \in [CPUs -> Calls]
         /\ CallsInv'
  BY DEF TypeInv, TypeOK, CallsInv, Past, Refilled

LEMMA BucketStep ==
  ASSUME TypeInv, NEW e \in Elems, NEW t \in Nat, NEW n \in Nat, n <= max_bucket,
         \/ bucket' = [bucket EXCEPT ![e] = FullBucket(t)]
         \/ bucket' = [bucket EXCEPT ![e].ts_ns = t]
         \/ bucket' = [bucket EXCEPT ![e].tokens = n]
  PROVE  bucket' \in [Elems -> [ts_ns : Nat, tokens : Nat]] /\ TokensWithinBucket'
<1>1. FullBucket(t) \in [ts_ns : Nat, tokens : Nat] /\ FullBucket(t).tokens = max_bucket
  BY Parameters DEF FullBucket
<1>2. PICK v \in [ts_ns : Nat, tokens : Nat] :
        bucket' = [bucket EXCEPT ![e] = v] /\ v.tokens <= max_bucket
  <2>1. CASE bucket' = [bucket EXCEPT ![e] = FullBucket(t)]
    <3>1. FullBucket(t).tokens <= max_bucket
      BY <1>1, Parameters
    <3> QED
      BY <2>1, <3>1, <1>1
  <2>2. CASE bucket' = [bucket EXCEPT ![e].ts_ns = t]
    <3>1. /\ [bucket[e] EXCEPT !.ts_ns = t] \in [ts_ns : Nat, tokens : Nat]
          /\ [bucket[e] EXCEPT !.ts_ns = t].tokens = bucket[e].tokens
      BY DEF TypeInv, TypeOK
    <3> QED
      BY <2>2, <3>1 DEF TypeInv, TokensWithinBucket
  <2>3. CASE bucket' = [bucket EXCEPT ![e].tokens = n]
    <3>1. /\ [bucket[e] EXCEPT !.tokens = n] \in [ts_ns : Nat, tokens : Nat]
          /\ [bucket[e] EXCEPT !.tokens = n].tokens = n
      BY DEF TypeInv, TypeOK
    <3> QED
      BY <2>3, <3>1
  <2> QED
    BY <2>1, <2>2, <2>3
<1> QED
  BY <1>2 DEF TypeInv, TypeOK, TokensWithinBucket

LEMMA TypeStep == TypeInv /\ [Next]_vars => TypeInv'
<1> SUFFICES ASSUME TypeInv, [Next]_vars PROVE TypeInv'
  OBVIOUS
<1> USE DEF TypeInv
<1>f. TypeOK /\ CallsInv
  OBVIOUS
<1>1. ASSUME NEW c \in CPUs, NEW k \in Keys, NEW n \in Lengths, Packet(c, k, n)
      PROVE  TypeInv'
  <2>1. Called(k, n, now) \in Calls /\ Called(k, n, now).key = k
    BY DEF Called, Calls, TypeOK
  <2>2. pc' \in [CPUs -> Positions] /\ call' \in [CPUs -> Calls] /\ CallsInv'
    BY <1>1, <2>1, CallStep DEF Packet, Goto, Positions
  <2>3. offered' \in [SerialKeys -> Nat] /\ level' \in [SerialKeys -> Nat]
    BY <1>1, Parameters DEF Packet, Limiter!Drained, TypeOK
  <2> QED
    BY <1>1, <2>2, <2>3 DEF Packet, TypeOK, TokensWithinBucket
<1>2. ASSUME NEW c \in CPUs, Lookup(c) \/ LookupAgain(c)
      PROVE  TypeInv'
  <2>1. CASE Found(c) /\ (Goto(c, "lookup", "delta") \/ Goto(c, "again", "delta"))
    <3> DEFINE e == entry[call[c].key]
               r == [call[c] EXCEPT !.b = e]
    <3>1. call[c].key \in Keys
      BY <2>1, <1>f, Fields DEF Goto, CallsInv
    <3>2. e \in Elems
      BY <2>1, <3>1 DEF Found, TypeOK
    <3>3. r \in Calls /\ r.key = call[c].key /\ r.b = e
      BY <3>2, <1>f, Fields, Assigned DEF Calls
    <3>4. call' = [call EXCEPT ![c] = r]
      BY <2>1 DEF Found
    <3> HIDE DEF r, e
    <3>5. pc' \in [CPUs -> Positions] /\ call' \in [CPUs -> Calls] /\ CallsInv'
      BY <2>1, <3>1, <3>2, <3>3, <3>4, CallStep DEF Goto, Positions
    <3> QED
      BY <1>2, <3>5 DEF Lookup, LookupAgain, TypeOK, TokensWithinBucket
  <2>2. CASE Goto(c, "lookup", "insert") /\ UNCHANGED call
    BY <1>2, <2>2 DEF Lookup, LookupAgain, Goto, Positions, TypeOK, CallsInv,
                      Past, Refilled, TokensWithinBucket
  <2> QED
    BY <1>2, <2>1, <2>2 DEF Lookup, LookupAgain
<1>3. ASSUME NEW c \in CPUs, Insert(c) \/ Replace(c) \/ MapIsFull(c)
      PROVE  TypeInv'
  <2>1. Goto(c, "insert", "again") /\ UNCHANGED <<now, call, offered, level, refills>>
    BY <1>3 DEF Insert, Replace, MapIsFull
  <2>2. call[c].key \in Keys /\ call[c].now \in Nat
    BY <2>1, <1>f, Fields DEF Goto, CallsInv
  <2>3. pc' \in [CPUs -> Positions] /\ CallsInv'
    BY <2>1 DEF Goto, Positions, TypeOK, CallsInv, Past, Refilled
  <2>4. entry' \in [Keys -> Elems \cup {NoElem}] /\ spare' \in [CPUs -> Elems]
    BY <1>3, <2>2 DEF Insert, Replace, MapIsFull, Elems, TypeOK
  <2>5. bucket' \in [Elems -> [ts_ns : Nat, tokens : Nat]] /\ TokensWithinBucket'
    <3> 0 \in Nat /\ 0 <= max_bucket
      BY Parameters
    <3>1. CASE Insert(c)
      <4>1. bucket' = [bucket EXCEPT ![call[c].key] = FullBucket(call[c].now)]
        BY <3>1 DEF Insert
      <4> QED
        BY <4>1, <2>2, BucketStep DEF Elems
    <3>2. CASE Replace(c)
      <4>1. /\ bucket' = [bucket EXCEPT ![spare[c]] = FullBucket(call[c].now)]
            /\ spare[c] \in Elems
        BY <3>2 DEF Replace, TypeOK
      <4> QED
        BY <4>1, <2>2, BucketStep
    <3>3. CASE MapIsFull(c)
      BY <3>3 DEF MapIsFull, TypeOK, TokensWithinBucket
    <3> QED
      BY <1>3, <3>1, <3>2, <3>3
  <2> QED
    BY <2>1, <2>3, <2>4, <2>5 DEF TypeOK
<1>4. ASSUME NEW c \in CPUs, AcceptUnlimited(c) \/ Drop(c)
      PROVE  TypeInv'
  <2>1. pc' \in [CPUs -> Positions] /\ call' \in [CPUs -> Calls] /\ CallsInv'
    BY <1>4, ReturnedCall, CallStep DEF AcceptUnlimited, Drop, Return, Goto, Positions
  <2> QED
    BY <1>4, <2>1 DEF AcceptUnlimited, Drop, TypeOK, TokensWithinBucket
<1>5. ASSUME NEW c \in CPUs, LoadTime(c)
      PROVE  TypeInv'
  <2> DEFINE d == (call[c].now - bucket[call[c].b].ts_ns) % U64
             r == [call[c] EXCEPT !.delta_ns = d]
  <2>1. call[c].b \in Elems /\ call[c].key # NoElem
    BY <1>5 DEF LoadTime, Goto, CallsInv, Past
  <2>2. call[c].now - bucket[call[c].b].ts_ns \in Int
    BY <2>1, <1>f, Fields
  <2>3. d \in Nat
    BY <2>2, Remainder
  <2> HIDE DEF d
  <2>4. r \in Calls /\ r.key = call[c].key /\ r.b = call[c].b
    BY <2>1, <2>3, <1>f, Fields, Assigned DEF Calls
  <2>5. call' = [call EXCEPT ![c] = r] /\ Goto(c, "delta", "refill")
    BY <1>5 DEF LoadTime, d
  <2> HIDE DEF r
  <2>6. pc' \in [CPUs -> Positions] /\ call' \in [CPUs -> Calls] /\ CallsInv'
    BY <2>1, <2>4, <2>5, CallStep DEF Goto, Positions
  <2> QED
    BY <1>5, <2>6 DEF LoadTime, TypeOK, TokensWithinBucket
<1>6. ASSUME NEW c \in CPUs, LoadTokens(c)
      PROVE  TypeInv'
  <2> DEFINE n == (bucket[call[c].b].tokens + refill(call[c].delta_ns)) % U64
             r == [call[c] EXCEPT !.tokens = clamped(n), !.delta_ns = 0]
  <2>1. call[c].b \in Elems /\ call[c].key # NoElem /\ call[c].delta_ns \in Nat
    BY <1>6, <1>f, Fields DEF LoadTokens, Goto, CallsInv, Past
  <2>2. bucket[call[c].b].tokens + refill(call[c].delta_ns) \in Int
    BY <2>1, <1>f, Fields, RefillBound
  <2>3. n \in Nat
    BY <2>2, Remainder
  <2>4. /\ call' = [call EXCEPT ![c] = r] /\ Goto(c, "refill", "store")
        /\ refills' = [k \in SerialKeys |->
             IF k # call[c].key THEN refills[k]
             ELSE IF n >= max_bucket THEN 0
             ELSE IF call[c].delta_ns > 0 THEN refills[k] + 1 ELSE refills[k]]
    BY <1>6 DEF LoadTokens
  <2> HIDE DEF n
  <2>5. clamped(n) \in Nat /\ clamped(n) <= max_bucket
    BY <2>3, Parameters DEF clamped
  <2>6. r \in Calls /\ r.key = call[c].key /\ r.b = call[c].b /\ r.tokens = clamped(n)
    BY <2>1, <2>5, <1>f, Fields, Assigned DEF Calls
  <2> HIDE DEF r
  <2>7. pc' \in [CPUs -> Positions] /\ call' \in [CPUs -> Calls] /\ CallsInv'
    BY <2>1, <2>4, <2>5, <2>6, CallStep DEF Goto, Positions
  <2>8. refills' \in [SerialKeys -> Nat]
    BY <2>4 DEF TypeOK
  <2> QED
    BY <1>6, <2>7, <2>8 DEF LoadTokens, TypeOK, TokensWithinBucket
<1>7. ASSUME NEW c \in CPUs, StoreTokens(c) \/ StoreTime(c)
      PROVE  TypeInv'
  <2>1. /\ call[c].b \in Elems /\ call[c].tokens <= max_bucket
        /\ call[c].tokens \in Nat /\ call[c].now \in Nat
    BY <1>7, <1>f, Fields DEF StoreTokens, StoreTime, Goto, CallsInv, Past, Refilled
  <2>2. bucket' \in [Elems -> [ts_ns : Nat, tokens : Nat]] /\ TokensWithinBucket'
    BY <1>7, <2>1, BucketStep DEF StoreTokens, StoreTime
  <2>3. pc' \in [CPUs -> Positions] /\ CallsInv'
    BY <1>7 DEF StoreTokens, StoreTime, Goto, Positions, TypeOK, CallsInv, Past, Refilled
  <2> QED
    BY <1>7, <2>2, <2>3 DEF StoreTokens, StoreTime, TypeOK
<1>8. ASSUME NEW c \in CPUs, Accept(c)
      PROVE  TypeInv'
  <2>1. /\ call[c].b \in Elems /\ call[c].tokens <= max_bucket
        /\ call[c].tokens - call[c].len \in Nat
        /\ call[c].tokens - call[c].len <= call[c].tokens
        /\ call[c].len * NSEC_PER_SEC \in Nat
    BY <1>8, <1>f, Fields DEF Accept, Return, Goto, CallsInv, Past, Refilled
  <2>2. call[c].tokens - call[c].len <= max_bucket
    BY <2>1, <1>f, Fields, Parameters
  <2>3. bucket' \in [Elems -> [ts_ns : Nat, tokens : Nat]] /\ TokensWithinBucket'
    BY <1>8, <2>1, <2>2, BucketStep DEF Accept
  <2>4. pc' \in [CPUs -> Positions] /\ call' \in [CPUs -> Calls] /\ CallsInv'
    BY <1>8, ReturnedCall, CallStep DEF Accept, Return, Goto, Positions
  <2>5. level' \in [SerialKeys -> Nat]
    BY <1>8, <2>1 DEF Accept, TypeOK
  <2> QED
    BY <1>8, <2>3, <2>4, <2>5 DEF Accept, TypeOK
<1>9. CASE Tick \/ UNCHANGED vars
  BY <1>9 DEF Tick, vars, TypeOK, CallsInv, Past, Refilled, TokensWithinBucket
<1> QED
  BY <1>1, <1>2, <1>3, <1>4, <1>5, <1>6, <1>7, <1>8, <1>9 DEF Next, Step

(* Every variable has its type, in every instance.                         *)
THEOREM TypeCorrect == Spec => []TypeOK
<1>1. TypeInv => TypeOK
  BY DEF TypeInv
<1> QED
  BY <1>1, TypeInit, TypeStep, PTL DEF Spec

(* No bucket holds more than max_bucket tokens, however many CPUs race for *)
(* it and even where a difference of times or a product wraps.             *)
THEOREM BucketsAreBounded == Spec => []TokensWithinBucket
<1>1. TypeInv => TokensWithinBucket
  BY DEF TypeInv
<1> QED
  BY <1>1, TypeInit, TypeStep, PTL DEF Spec

----------------------------------------------------------------------------
(* The flows of serial keys                                                *)

(* The bucket of a serial key is in an element of its own: no other key    *)
(* has it, it is no CPU's spare, and calls for other keys do not hold it.  *)
Own ==
  \A f \in SerialKeys :
    /\ entry[f] \in {NoElem, f}
    /\ \A k \in Keys : entry[k] = f => k = f
    /\ \A c \in CPUs : spare[c] # f
    /\ \A c \in CPUs : call[c].b = f => call[c].key = f

Alone ==
  \A f \in SerialKeys, c, d \in CPUs : call[c].key = f /\ call[d].key = f => c = d

(* The bytes of the level and of n tokens fit in the bucket.               *)
Fits(f, n) == level[f] + n * NSEC_PER_SEC <= max_bucket * NSEC_PER_SEC

(* They do, once the bucket is refilled for the time since its last one.   *)
FitsWhenRefilled(f) ==
  /\ bucket[f].ts_ns <= offered[f]
  /\ \/ level[f] = 0
     \/ level[f] + rate_bps * (offered[f] - bucket[f].ts_ns)
          + bucket[f].tokens * NSEC_PER_SEC <= max_bucket * NSEC_PER_SEC

(* Between calls a bucket was refilled when its flow last offered a packet.*)
Settled(f) == bucket[f].ts_ns = offered[f] /\ Fits(f, bucket[f].tokens)

(* What a call of a flow has found and done is still so.                   *)
InCall(c, f) ==
  /\ call[c].now = offered[f]
  /\ call[c].len \in Lengths
  /\ pc[c] = "insert" => entry[f] = NoElem
  /\ Past(c) => entry[f] = f /\ call[c].b = f
  /\ pc[c] \in {"lookup", "again", "delta", "refill"} /\ entry[f] = f => FitsWhenRefilled(f)
  /\ pc[c] = "refill" => call[c].delta_ns <= offered[f] - bucket[f].ts_ns
  /\ Refilled(c) => Fits(f, call[c].tokens)
  /\ pc[c] \in {"stamp", "verdict"} => bucket[f].tokens = call[c].tokens
  /\ pc[c] = "verdict" => bucket[f].ts_ns = offered[f]

FlowOK(f) ==
  /\ offered[f] <= now
  /\ entry[f] = NoElem => level[f] = 0
  /\ \A c \in CPUs : call[c].key = f => InCall(c, f)
  /\ entry[f] = f /\ (\A c \in CPUs : call[c].key # f) => Settled(f)

FlowInv == TypeInv /\ Own /\ Alone /\ \A f \in SerialKeys : FlowOK(f)

LEMMA FlowInit == Init => FlowInv
<1> SUFFICES ASSUME Init PROVE FlowInv
  OBVIOUS
<1>1. TypeInv
  BY TypeInit
<1>2. \A c \in CPUs : call[c].key = NoElem /\ call[c].b = NoElem
  BY DEF Init, Returned, Called
<1>3. Own /\ Alone
  BY <1>2 DEF Init, Own, Alone
<1>4. \A f \in SerialKeys : FlowOK(f)
  BY <1>2 DEF Init, FlowOK
<1> QED
  BY <1>1, <1>3, <1>4 DEF FlowInv

(* A step of a CPU changes what that CPU has.                              *)
LEMMA OtherCPUs ==
  ASSUME TypeInv, NEW c \in CPUs, Step(c)
  PROVE  \A d \in CPUs \ {c} : call'[d] = call[d] /\ pc'[d] = pc[d]
  BY DEF TypeInv, TypeOK, Step, Goto, Return, Found, Packet, Lookup, Insert, Replace,
         MapIsFull, LookupAgain, AcceptUnlimited, LoadTime, LoadTokens, StoreTokens,
         StoreTime, Drop, Accept

(* The key and the element of a call.                                      *)
LEMMA KeyAndElement ==
  ASSUME TypeInv, NEW c \in CPUs, Step(c)
  PROVE  \/ \E k \in Keys, n \in Lengths :
              Packet(c, k, n) /\ call'[c] = Called(k, n, now)
         \/ /\ call[c].key \in Keys
            /\ \/ call'[c] = Returned
               \/ /\ call'[c].key = call[c].key
                  /\ call'[c].b \in {call[c].b, entry[call[c].key]}
<1> USE DEF TypeInv
<1>f. TypeOK /\ CallsInv
  OBVIOUS
<1>1. CASE \E k \in Keys, n \in Lengths : Packet(c, k, n)
  BY <1>1 DEF Packet, TypeOK
<1>2. ASSUME ~ \E k \in Keys, n \in Lengths : Packet(c, k, n)
      PROVE  /\ call[c].key \in Keys
             /\ \/ call'[c] = Returned
                \/ /\ call'[c].key = call[c].key
                   /\ call'[c].b \in {call[c].b, entry[call[c].key]}
  <2>1. call[c].key \in Keys
    BY <1>2, <1>f, Fields DEF Step, Goto, Return, CallsInv, Lookup, Insert, Replace,
         MapIsFull, LookupAgain, AcceptUnlimited, LoadTime, LoadTokens, StoreTokens,
         StoreTime, Drop, Accept
  <2>2. CASE Lookup(c) \/ LookupAgain(c)
    BY <2>1, <2>2, <1>f, Fields DEF Lookup, LookupAgain, Found, TypeOK, Calls
  <2>3. CASE AcceptUnlimited(c) \/ Drop(c) \/ Accept(c)
    BY <2>1, <2>3 DEF AcceptUnlimited, Drop, Accept, Return, TypeOK
  <2>4. CASE LoadTime(c) \/ LoadTokens(c)
    BY <2>1, <2>4, <1>f, Fields DEF LoadTime, LoadTokens, TypeOK, Calls
  <2>5. CASE Insert(c) \/ Replace(c) \/ MapIsFull(c) \/ StoreTokens(c) \/ StoreTime(c)
    BY <2>1, <2>5 DEF Insert, Replace, MapIsFull, StoreTokens, StoreTime
  <2> QED
    BY <1>2, <2>1, <2>2, <2>3, <2>4, <2>5 DEF Step
<1> QED
  BY <1>1, <1>2

LEMMA OwnStep ==
  ASSUME FlowInv, NEW c \in CPUs, Step(c)
  PROVE  Own'
<1> USE DEF FlowInv
<1>f. TypeOK /\ TypeInv
  BY DEF TypeInv
<1>1. ASSUME NEW f \in SerialKeys, Replace(c)
      PROVE  call[c].key # f /\ call[c].key \in Keys
  <2>1. call[c].key \in Keys
    BY <1>1, <1>f, Fields DEF Replace, Goto, TypeInv, CallsInv
  <2> QED
    BY <1>1, <2>1 DEF Replace, Goto, FlowOK, InCall
<1>2. ASSUME NEW f \in SerialKeys
      PROVE  /\ entry'[f] \in {NoElem, f}
             /\ \A k \in Keys : entry'[k] = f => k = f
             /\ \A d \in CPUs : spare'[d] # f
  <2>1. CASE Insert(c)
    BY <2>1, <1>f DEF Insert, Own, TypeOK
  <2>2. CASE Replace(c)
    BY <2>2, <1>1, <1>f DEF Replace, Own, TypeOK
  <2>3. CASE UNCHANGED <<entry, spare>>
    BY <2>3 DEF Own
  <2> QED
    BY <2>1, <2>2, <2>3 DEF Step, Packet, Lookup, MapIsFull, LookupAgain,
         AcceptUnlimited, LoadTime, LoadTokens, StoreTokens, StoreTime, Drop, Accept
<1>3. ASSUME NEW f \in SerialKeys, NEW d \in CPUs, call'[d].b = f
      PROVE  call'[d].key = f
  <2>1. CASE d # c
    BY <1>3, <2>1, <1>f, OtherCPUs DEF Own
  <2>2. CASE d = c
    <3>1. f \in Keys /\ f # NoElem
      OBVIOUS
    <3>2. Returned.b = NoElem /\ \A k \in Keys, n \in Lengths : Called(k, n, now).b = NoElem
      BY DEF Returned, Called
    <3>3. /\ call[c].key \in Keys
          /\ call'[c].key = call[c].key
          /\ call'[c].b \in {call[c].b, entry[call[c].key]}
      <4>1. call'[c].b = f
        BY <1>3, <2>2
      <4>2. call'[c] # Returned
        BY <4>1, <3>1, <3>2
      <4>3. ~ \E k \in Keys, n \in Lengths :
                Packet(c, k, n) /\ call'[c] = Called(k, n, now)
        BY <4>1, <3>1, <3>2
      <4> HIDE DEF FlowInv
      <4> QED
        BY <4>2, <4>3, <1>f, KeyAndElement
    <3> QED
      BY <1>3, <2>2, <3>3 DEF Own
  <2> QED
    BY <2>1, <2>2
<1> QED
  BY <1>2, <1>3 DEF Own

LEMMA AloneStep ==
  ASSUME FlowInv, NEW c \in CPUs, Step(c)
  PROVE  Alone'
<1>1. TypeInv /\ Alone
  BY DEF FlowInv
<1> SUFFICES ASSUME NEW f \in SerialKeys, NEW d \in CPUs, d # c,
                    call'[c].key = f, call'[d].key = f
             PROVE  FALSE
  BY <1>1, OtherCPUs DEF Alone
<1>2. call[d].key = f
  BY <1>1, OtherCPUs
<1>3. f # NoElem /\ Returned.key = NoElem
  BY ReturnedCall
<1>4. CASE \E k \in Keys, n \in Lengths : Packet(c, k, n) /\ call'[c] = Called(k, n, now)
  BY <1>2, <1>4 DEF Packet, Called
<1>5. CASE call[c].key = f
  BY <1>1, <1>2, <1>5 DEF Alone
<1> QED
  BY <1>1, <1>3, <1>4, <1>5, KeyAndElement

(* A flow is what it was after a step that changes nothing of it.          *)
LEMMA Frame ==
  ASSUME NEW f \in SerialKeys, FlowOK(f),
         bucket'[f] = bucket[f], entry'[f] = entry[f],
         offered'[f] = offered[f], level'[f] = level[f], offered[f] <= now',
         \A d \in CPUs : call[d].key = f \/ call'[d].key = f =>
                           call'[d] = call[d] /\ pc'[d] = pc[d]
  PROVE  FlowOK(f)'
<1>1. \A d \in CPUs : call'[d].key = f <=> call[d].key = f
  OBVIOUS
<1>2. ASSUME NEW d \in CPUs, call'[d].key = f
      PROVE  InCall(d, f)'
  <2>1. InCall(d, f) /\ call'[d] = call[d] /\ pc'[d] = pc[d]
    BY <1>1, <1>2 DEF FlowOK
  <2> QED
    BY <2>1 DEF InCall, Past, Refilled, Fits, FitsWhenRefilled
<1> QED
  BY <1>1, <1>2 DEF FlowOK, Settled, Fits

(* A CPU disturbs no flow but that of its call.                            *)
LEMMA OtherFlow ==
  ASSUME FlowInv, NEW c \in CPUs, Step(c), NEW f \in SerialKeys,
         call[c].key # f, call'[c].key # f
  PROVE  FlowOK(f)'
<1>1. TypeInv /\ TypeOK /\ Own /\ FlowOK(f)
  BY DEF FlowInv, TypeInv
<1>2. f \in Elems /\ f \in Keys
  BY DEF Elems
<1>3. call[c].b # f /\ spare[c] # f
  BY <1>1 DEF Own
<1>4. bucket'[f] = bucket[f] /\ entry'[f] = entry[f]
  BY <1>1, <1>2, <1>3 DEF TypeOK, Step, Packet, Lookup, Insert, Replace, MapIsFull,
       LookupAgain, AcceptUnlimited, LoadTime, LoadTokens, StoreTokens, StoreTime,
       Drop, Accept
<1>5. offered'[f] = offered[f] /\ level'[f] = level[f] /\ now' = now
  <2>1. ASSUME NEW k \in Keys, NEW n \in Lengths, Packet(c, k, n)
        PROVE  offered'[f] = offered[f] /\ level'[f] = level[f] /\ now' = now
    <3>1. call'[c].key = k
      BY <1>1, <2>1 DEF Packet, Called, TypeOK
    <3> QED
      BY <2>1, <3>1 DEF Packet
  <2>2. CASE Accept(c)
    BY <2>2 DEF Accept
  <2>3. CASE UNCHANGED <<now, offered, level>>
    BY <2>3
  <2> QED
    BY <2>1, <2>2, <2>3 DEF Step, Lookup, Insert, Replace, MapIsFull, LookupAgain,
         AcceptUnlimited, LoadTime, LoadTokens, StoreTokens, StoreTime, Drop
<1>6. offered[f] <= now'
  BY <1>1, <1>5 DEF FlowOK
<1> QED
  BY <1>1, <1>4, <1>5, <1>6, OtherCPUs, Frame

(* Only the call of c is to be looked at when c is in a call of the flow.  *)
LEMMA OnlyCall ==
  ASSUME FlowInv, NEW c \in CPUs, Step(c), NEW f \in SerialKeys, call[c].key = f
  PROVE  \A d \in CPUs : call'[d].key = f => d = c
  BY OtherCPUs DEF FlowInv, Alone

LEMMA CallGoesOn ==
  ASSUME FlowInv, NEW c \in CPUs, Step(c), NEW f \in SerialKeys,
         call[c].key = f, call'[c].key = f, InCall(c, f)',
         UNCHANGED <<now, offered, level>>, entry'[f] = NoElem => level[f] = 0
  PROVE  FlowOK(f)'
<1>1. \A d \in CPUs : call'[d].key = f => InCall(d, f)'
  BY OnlyCall
<1>2. offered'[f] <= now'
  BY DEF FlowInv, FlowOK
<1> QED
  BY <1>1, <1>2 DEF FlowOK

LEMMA CallReturns ==
  ASSUME FlowInv, NEW c \in CPUs, Step(c), NEW f \in SerialKeys,
         call[c].key = f, call'[c] = Returned, UNCHANGED <<now, offered>>,
         entry'[f] = NoElem => level'[f] = 0, entry'[f] = f => Settled(f)'
  PROVE  FlowOK(f)'
<1>1. \A d \in CPUs : call'[d].key # f
  BY OnlyCall, ReturnedCall
<1>2. offered'[f] <= now'
  BY DEF FlowInv, FlowOK
<1> QED
  BY <1>1, <1>2 DEF FlowOK

(* A new packet: its flow's level has drained by as much as the bucket is  *)
(* going to be refilled.                                                   *)
LEMMA NewPacket ==
  ASSUME FlowInv, NEW c \in CPUs, NEW f \in SerialKeys, NEW n \in Lengths, Packet(c, f, n)
  PROVE  FlowOK(f)'
<1>1. TypeInv /\ TypeOK /\ FlowOK(f) /\ f \in Keys /\ f \in Elems
  BY DEF FlowInv, TypeInv, Elems
<1>2. /\ \A d \in CPUs : call[d].key # f
      /\ call' = [call EXCEPT ![c] = Called(f, n, now)]
      /\ pc' = [pc EXCEPT ![c] = "lookup"]
      /\ offered'[f] = now
      /\ level'[f] = Limiter!Drained(level[f], now - offered[f])
      /\ UNCHANGED <<now, entry, bucket>>
  BY <1>1 DEF Packet, Goto
<1>3. \A d \in CPUs : call'[d].key = f => d = c
  BY <1>1, <1>2 DEF TypeOK
<1>4. /\ call'[c].key = f /\ call'[c].now = now /\ call'[c].len = n
      /\ pc'[c] = "lookup"
  BY <1>1, <1>2 DEF TypeOK, Called
<1> DEFINE l == level[f]
           dr == rate_bps * (now - offered[f])
           q == bucket[f].tokens * NSEC_PER_SEC
           m == max_bucket * NSEC_PER_SEC
<1>5. /\ l \in Nat /\ dr \in Nat /\ q \in Nat /\ m \in Nat
      /\ now \in Nat /\ bucket[f].ts_ns \in Nat /\ offered[f] \in Nat
  BY <1>1, Fields, Parameters DEF TypeOK, FlowOK
<1>6. level'[f] = IF l > dr THEN l - dr ELSE 0
  BY <1>2 DEF Limiter!Drained
<1>7. entry[f] = NoElem => level'[f] = 0
  BY <1>1, <1>5, <1>6 DEF FlowOK
<1>8. ASSUME entry[f] = f
      PROVE  FitsWhenRefilled(f)'
  <2>1. bucket[f].ts_ns = offered[f] /\ l + q <= m
    BY <1>1, <1>2, <1>8 DEF FlowOK, Settled, Fits
  <2>2. level'[f] = 0 \/ level'[f] + dr + q <= m
    <3> HIDE DEF l, dr, q, m
    <3> QED
      BY <1>5, <1>6, <2>1
  <2>3. bucket'[f].ts_ns <= offered'[f]
    BY <1>1, <1>2, <2>1 DEF FlowOK
  <2>4. rate_bps * (offered'[f] - bucket'[f].ts_ns) = dr
    BY <1>2, <2>1
  <2> QED
    BY <1>2, <2>2, <2>3, <2>4 DEF FitsWhenRefilled
<1>9. InCall(c, f)'
  BY <1>2, <1>4, <1>8 DEF InCall, Past, Refilled
<1> QED
  BY <1>2, <1>3, <1>4, <1>5, <1>7, <1>9 DEF FlowOK

(* The refill leaves no more tokens than the level has room for.           *)
LEMMA RefillKeepsFit ==
  ASSUME TypeOK, NEW f \in SerialKeys, NEW d \in Nat, FitsWhenRefilled(f),
         d <= offered[f] - bucket[f].ts_ns
  PROVE  Fits(f, clamped((bucket[f].tokens + refill(d)) % U64))
<1> DEFINE a == bucket[f].tokens
           x == refill(d)
           y == clamped((a + x) % U64)
           e == offered[f] - bucket[f].ts_ns
<1>1. a \in Nat /\ bucket[f].ts_ns \in Nat /\ offered[f] \in Nat /\ level[f] \in Nat
  BY Fields DEF TypeOK, Elems
<1>2. e \in Nat
  BY <1>1 DEF FitsWhenRefilled
<1>3. x \in Nat /\ x * NSEC_PER_SEC <= d * rate_bps
  BY RefillBound
<1>4. a + x \in Nat /\ (a + x) % U64 \in Nat /\ (a + x) % U64 <= a + x
  BY <1>1, <1>3, Remainder
<1>5. y \in Nat /\ y <= a + x /\ y <= max_bucket
  BY <1>1, <1>3, <1>4, Parameters DEF clamped
<1>6. CASE level[f] = 0
  <2>1. y * NSEC_PER_SEC <= max_bucket * NSEC_PER_SEC
    <3> HIDE DEF y
    <3> QED
      BY <1>5, Parameters
  <2>2. y * NSEC_PER_SEC \in Nat
    <3> HIDE DEF y
    <3> QED
      BY <1>5
  <2> QED
    BY <1>6, <2>1, <2>2 DEF Fits
<1>7. CASE level[f] + rate_bps * e + a * NSEC_PER_SEC <= max_bucket * NSEC_PER_SEC
  <2> HIDE DEF a, x, y, e
  <2>1. d <= e
    BY DEF e
  <2>2. level[f] + y * NSEC_PER_SEC <= max_bucket * NSEC_PER_SEC
    BY <1>1, <1>2, <1>3, <1>5, <1>7, <2>1, RefillFits
  <2> QED
    BY <2>2 DEF Fits, y, a, x
<1> QED
  BY <1>6, <1>7 DEF FitsWhenRefilled

LEMMA FlowStep ==
  ASSUME FlowInv, NEW c \in CPUs, Step(c), NEW f \in SerialKeys
  PROVE  FlowOK(f)'
<1>1. /\ TypeInv /\ TypeOK /\ CallsInv /\ FlowOK(f)
      /\ f \in Keys /\ f \in Elems /\ f # NoElem
      /\ call[c] \in Calls
  BY Fields DEF FlowInv, TypeInv, Elems
<1>2. ASSUME NEW k \in Keys, NEW n \in Lengths, Packet(c, k, n)
      PROVE  FlowOK(f)'
  <2>1. call[c].key = NoElem /\ call'[c].key = k
    BY <1>1, <1>2 DEF Packet, Goto, Called, CallsInv, TypeOK
  <2>2. CASE k = f
    BY <1>2, <2>2, NewPacket
  <2>3. CASE k # f
    BY <1>1, <2>1, <2>3, OtherFlow
  <2> QED
    BY <2>2, <2>3
<1>3. ASSUME call[c].key # f, ~ \E k \in Keys, n \in Lengths : Packet(c, k, n)
      PROVE  FlowOK(f)'
  BY <1>1, <1>3, KeyAndElement, ReturnedCall, OtherFlow
<1> SUFFICES ASSUME call[c].key = f PROVE FlowOK(f)'
  BY <1>2, <1>3
<1>4. InCall(c, f) /\ entry[f] \in {NoElem, f}
  BY <1>1 DEF FlowInv, FlowOK, Own
<1>5. CASE Lookup(c) \/ LookupAgain(c)
  <2>1. CASE Found(c) /\ (Goto(c, "lookup", "delta") \/ Goto(c, "again", "delta"))
    <3>1. /\ entry[f] = f
          /\ call' = [call EXCEPT ![c] = [call[c] EXCEPT !.b = f]]
      BY <2>1, <1>4 DEF Found
    <3>2. /\ call'[c].key = f /\ call'[c].b = f
          /\ call'[c].now = call[c].now /\ call'[c].len = call[c].len
      BY <1>1, <3>1 DEF TypeOK, Calls
    <3>3. pc'[c] = "delta" /\ UNCHANGED <<now, entry, bucket, offered, level>>
      BY <1>1, <1>5, <2>1 DEF Goto, TypeOK, Lookup, LookupAgain
    <3>4. InCall(c, f)'
      BY <1>4, <2>1, <3>1, <3>2, <3>3
         DEF Goto, InCall, Past, Refilled, FitsWhenRefilled
    <3> QED
      BY <3>1, <3>2, <3>3, <3>4, <1>1, CallGoesOn
  <2>2. CASE Goto(c, "lookup", "insert") /\ entry[f] = NoElem /\ UNCHANGED call
    <3>1. pc'[c] = "insert" /\ UNCHANGED <<now, entry, bucket, offered, level>>
      BY <1>1, <1>5, <2>2 DEF Goto, TypeOK, Lookup, LookupAgain
    <3>2. InCall(c, f)'
      BY <1>4, <2>2, <3>1 DEF InCall, Past, Refilled
    <3> QED
      BY <1>1, <2>2, <3>1, <3>2, CallGoesOn DEF FlowOK
  <2> QED
    BY <1>5, <2>1, <2>2 DEF Lookup, LookupAgain
<1>6. CASE Insert(c)
  <2>1. /\ UNCHANGED <<now, call, offered, level>>
        /\ pc'[c] = "again" /\ entry'[f] = f /\ entry[f] = NoElem
        /\ bucket'[f] = FullBucket(call[c].now)
    BY <1>1, <1>6 DEF Insert, Goto, TypeOK
  <2>2. level[f] = 0 /\ call[c].now = offered[f] /\ offered[f] \in Nat
    BY <1>1, <1>4, <2>1 DEF FlowOK, InCall, TypeOK
  <2>3. FitsWhenRefilled(f)'
    BY <2>1, <2>2 DEF FitsWhenRefilled, FullBucket
  <2>4. InCall(c, f)'
    BY <1>4, <2>1, <2>3 DEF InCall, Past, Refilled
  <2> QED
    BY <1>1, <2>1, <2>2, <2>4, CallGoesOn
<1>7. CASE Replace(c)
  BY <1>4, <1>7 DEF Replace, Goto, InCall
<1>8. CASE MapIsFull(c)
  <2>1. /\ UNCHANGED <<now, entry, bucket, call, offered, level>>
        /\ pc'[c] = "again" /\ entry[f] = NoElem
    BY <1>1, <1>8 DEF MapIsFull, Goto, TypeOK
  <2>2. InCall(c, f)'
    BY <1>1, <1>4, <2>1 DEF InCall, Past, Refilled
  <2> QED
    BY <1>1, <2>1, <2>2, CallGoesOn DEF FlowOK
<1>9. CASE AcceptUnlimited(c)
  <2>1. /\ UNCHANGED <<now, entry, offered, level>>
        /\ call'[c] = Returned /\ entry[f] = NoElem
    BY <1>1, <1>9 DEF AcceptUnlimited, Return, TypeOK
  <2> QED
    BY <1>1, <2>1, CallReturns DEF FlowOK
<1>10. CASE LoadTime(c)
  <2> DEFINE d == (call[c].now - bucket[f].ts_ns) % U64
  <2>1. /\ pc[c] = "delta" /\ entry[f] = f /\ call[c].b = f
        /\ call[c].now = offered[f] /\ FitsWhenRefilled(f)
    BY <1>4, <1>10 DEF LoadTime, Goto, InCall, Past
  <2>2. /\ offered[f] \in Nat /\ bucket[f].ts_ns \in Nat
        /\ bucket[f].ts_ns <= offered[f]
    BY <1>1, <2>1, Fields DEF TypeOK, FitsWhenRefilled
  <2>3. call[c].now - bucket[f].ts_ns \in Int /\ call[c].now - bucket[f].ts_ns >= 0
    BY <2>1, <2>2
  <2>4. d \in Nat /\ d <= offered[f] - bucket[f].ts_ns
    BY <2>1, <2>3, Remainder
  <2>5. call' = [call EXCEPT ![c] = [call[c] EXCEPT !.delta_ns = d]]
    BY <1>10, <2>1 DEF LoadTime
  <2> HIDE DEF d
  <2>6. /\ call'[c].key = f /\ call'[c].b = f /\ call'[c].now = call[c].now
        /\ call'[c].len = call[c].len /\ call'[c].delta_ns = d
    BY <1>1, <2>1, <2>5 DEF TypeOK, Calls
  <2>7. pc'[c] = "refill" /\ UNCHANGED <<now, entry, bucket, offered, level>>
    BY <1>1, <1>10 DEF LoadTime, Goto, TypeOK
  <2>8. InCall(c, f)'
    BY <1>4, <2>1, <2>4, <2>6, <2>7 DEF InCall, Past, Refilled, FitsWhenRefilled
  <2> QED
    BY <1>1, <2>1, <2>6, <2>7, <2>8, CallGoesOn
<1>11. CASE LoadTokens(c)
  <2> DEFINE y == clamped((bucket[f].tokens + refill(call[c].delta_ns)) % U64)
  <2>1. /\ pc[c] = "refill" /\ entry[f] = f /\ call[c].b = f
        /\ call[c].delta_ns <= offered[f] - bucket[f].ts_ns /\ FitsWhenRefilled(f)
    BY <1>4, <1>11 DEF LoadTokens, Goto, InCall, Past
  <2>2. Fits(f, y)
    BY <1>1, <2>1, Fields, RefillKeepsFit
  <2>3. call' = [call EXCEPT ![c] = [call[c] EXCEPT !.tokens = y, !.delta_ns = 0]]
    BY <1>11, <2>1 DEF LoadTokens
  <2> HIDE DEF y
  <2>4. /\ call'[c].key = f /\ call'[c].b = f /\ call'[c].now = call[c].now
        /\ call'[c].len = call[c].len /\ call'[c].tokens = y
    BY <1>1, <2>1, <2>3 DEF TypeOK, Calls
  <2>5. pc'[c] = "store" /\ UNCHANGED <<now, entry, bucket, offered, level>>
    BY <1>1, <1>11 DEF LoadTokens, Goto, TypeOK
  <2>6. InCall(c, f)'
    BY <1>4, <2>1, <2>2, <2>4, <2>5 DEF InCall, Past, Refilled, Fits
  <2> QED
    BY <1>1, <2>1, <2>4, <2>5, <2>6, CallGoesOn
<1>12. CASE StoreTokens(c) \/ StoreTime(c)
  <2>1. /\ entry[f] = f /\ call[c].b = f /\ call[c].now = offered[f]
        /\ Fits(f, call[c].tokens)
    BY <1>4, <1>12 DEF StoreTokens, StoreTime, Goto, InCall, Past, Refilled
  <2>2. UNCHANGED <<now, entry, call, offered, level>>
    BY <1>12 DEF StoreTokens, StoreTime
  <2>3. CASE StoreTokens(c)
    <3>1. pc'[c] = "stamp" /\ bucket'[f].tokens = call[c].tokens
      BY <1>1, <2>1, <2>3 DEF StoreTokens, Goto, TypeOK
    <3> QED
      BY <1>4, <2>1, <2>2, <3>1, <1>1, CallGoesOn DEF InCall, Past, Refilled, Fits
  <2>4. CASE StoreTime(c)
    <3>1. /\ pc[c] = "stamp" /\ pc'[c] = "verdict"
          /\ bucket'[f].tokens = bucket[f].tokens /\ bucket'[f].ts_ns = offered[f]
      BY <1>1, <2>1, <2>4 DEF StoreTime, Goto, TypeOK
    <3> QED
      BY <1>4, <2>1, <2>2, <3>1, <1>1, CallGoesOn DEF InCall, Past, Refilled, Fits
  <2> QED
    BY <1>12, <2>3, <2>4
<1>13. CASE Drop(c)
  <2>1. /\ UNCHANGED <<now, entry, bucket, offered, level>> /\ pc[c] = "verdict"
        /\ call'[c] = Returned
    BY <1>1, <1>13 DEF Drop, Return, Goto, TypeOK
  <2>2. entry[f] = f /\ Settled(f)
    BY <1>4, <2>1 DEF InCall, Past, Refilled, Settled
  <2>3. Settled(f)'
    BY <2>1, <2>2 DEF Settled, Fits
  <2> QED
    BY <1>1, <2>1, <2>2, <2>3, CallReturns
<1>14. CASE Accept(c)
  <2> DEFINE n == call[c].len
             a == call[c].tokens
  <2>1. /\ pc[c] = "verdict" /\ entry[f] = f /\ call[c].b = f
        /\ bucket[f].ts_ns = offered[f] /\ Fits(f, a) /\ n <= a /\ n \in Nat /\ a \in Nat
    BY <1>1, <1>4, <1>14, Fields DEF Accept, Return, Goto, InCall, Past, Refilled
  <2>2. /\ call'[c] = Returned /\ UNCHANGED <<now, entry, offered>>
        /\ bucket'[f].tokens = a - n /\ bucket'[f].ts_ns = bucket[f].ts_ns
        /\ level'[f] = level[f] + n * NSEC_PER_SEC
    BY <1>1, <1>14, <2>1 DEF Accept, Return, TypeOK
  <2>3. level[f] + n * NSEC_PER_SEC + (a - n) * NSEC_PER_SEC
          = level[f] + a * NSEC_PER_SEC
    <3>1. level[f] \in Nat
      BY <1>1 DEF TypeOK
    <3> HIDE DEF n, a
    <3> QED
      BY <2>1, <3>1
  <2>4. Settled(f)'
    BY <2>1, <2>2, <2>3 DEF Settled, Fits
  <2> QED
    BY <1>1, <2>1, <2>2, <2>4, CallReturns
<1> QED
  BY <1>2, <1>5, <1>6, <1>7, <1>8, <1>9, <1>10, <1>11, <1>12, <1>13, <1>14 DEF Step

LEMMA FlowInvStep == FlowInv /\ [Next]_vars => FlowInv'
<1> SUFFICES ASSUME FlowInv, [Next]_vars PROVE FlowInv'
  OBVIOUS
<1>1. TypeInv'
  BY TypeStep DEF FlowInv
<1>2. ASSUME NEW c \in CPUs, Step(c)
      PROVE  FlowInv'
  BY <1>1, <1>2, OwnStep, AloneStep, FlowStep DEF FlowInv
<1>3. CASE Tick \/ UNCHANGED vars
  <2>1. Own' /\ Alone'
    BY <1>3 DEF Tick, vars, FlowInv, Own, Alone
  <2>2. ASSUME NEW f \in SerialKeys
        PROVE  FlowOK(f)'
    <3>1. offered[f] <= now'
      BY <1>3 DEF Tick, vars, FlowInv, FlowOK, TypeInv, TypeOK
    <3> QED
      BY <1>3, <3>1, Frame DEF Tick, vars, FlowInv
  <2> QED
    BY <1>1, <2>1, <2>2 DEF FlowInv
<1> QED
  BY <1>2, <1>3 DEF Next

----------------------------------------------------------------------------
(* The refinement                                                          *)

LEMMA LimiterStep == FlowInv /\ [Next]_vars => [Limiter!Next]_(Limiter!limiter)
<1> SUFFICES ASSUME FlowInv, [Next]_vars
             PROVE  Limiter!Next \/ UNCHANGED <<now, offered, level>>
  BY DEF Limiter!limiter
<1>1. TypeInv /\ TypeOK
  BY DEF FlowInv, TypeInv
<1>2. ASSUME NEW c \in CPUs, NEW k \in Keys, NEW n \in Lengths, Packet(c, k, n)
      PROVE  Limiter!Next \/ UNCHANGED <<now, offered, level>>
  <2>1. CASE k \in SerialKeys
    <3>1. Limiter!Offer(k)
      BY <1>1, <1>2, <2>1 DEF Packet, Limiter!Offer, TypeOK
    <3> QED
      BY <2>1, <3>1 DEF Limiter!Next
  <2>2. CASE k \notin SerialKeys
    BY <1>1, <1>2, <2>2 DEF Packet, TypeOK
  <2> QED
    BY <2>1, <2>2
<1>3. ASSUME NEW c \in CPUs, Accept(c)
      PROVE  Limiter!Next \/ UNCHANGED <<now, offered, level>>
  <2> DEFINE f == call[c].key
             n == call[c].len
  <2>1. CASE f \in SerialKeys
    <3>1. InCall(c, f)
      BY <2>1 DEF FlowInv, FlowOK
    <3>2. n \in Lengths /\ Fits(f, call[c].tokens) /\ n <= call[c].tokens
      BY <1>1, <1>3, <3>1, Fields DEF Accept, Return, Goto, InCall, Refilled
    <3>3. level[f] + n * NSEC_PER_SEC <= max_bucket * NSEC_PER_SEC
      <4>1. n \in Nat /\ call[c].tokens \in Nat /\ level[f] \in Nat
        BY <1>1, <2>1, Fields DEF TypeOK
      <4>2. n * NSEC_PER_SEC <= call[c].tokens * NSEC_PER_SEC
        <5> HIDE DEF n
        <5> QED
          BY <3>2, <4>1
      <4>3. {n * NSEC_PER_SEC, call[c].tokens * NSEC_PER_SEC,
             max_bucket * NSEC_PER_SEC} \subseteq Nat
        BY <4>1, Parameters
      <4> QED
        BY <3>2, <4>1, <4>2, <4>3 DEF Fits
    <3>4. Limiter!Accept(f, n)
      BY <1>1, <1>3, <2>1, <3>3 DEF Accept, Limiter!Accept, TypeOK
    <3> QED
      BY <2>1, <3>2, <3>4 DEF Limiter!Next
  <2>2. CASE f \notin SerialKeys
    BY <1>1, <1>3, <2>2 DEF Accept, TypeOK
  <2> QED
    BY <2>1, <2>2
<1>4. CASE Tick
  BY <1>4 DEF Tick, Limiter!Tick, Limiter!Next
<1>5. CASE UNCHANGED <<now, offered, level>>
  BY <1>5
<1> QED
  BY <1>2, <1>3, <1>4, <1>5 DEF Next, Step, vars, Lookup, Insert, Replace, MapIsFull,
       LookupAgain, AcceptUnlimited, LoadTime, LoadTokens, StoreTokens, StoreTime, Drop

(* The flows of serial keys get no more through, of the packets that have  *)
(* a bucket, than a leaky bucket lets through, whatever other CPUs do to   *)
(* other buckets and to the map.                                           *)
THEOREM LimitsTheRate == Spec => ImplementsRateLimiter
<1>1. Init => Limiter!Init
  BY DEF Init, Limiter!Init
<1> QED
  BY <1>1, FlowInit, FlowInvStep, LimiterStep, PTL
     DEF Spec, ImplementsRateLimiter, Limiter!Spec
=============================================================================
