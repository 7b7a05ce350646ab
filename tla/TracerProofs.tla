---------------------------- MODULE TracerProofs ----------------------------
(***************************************************************************)
(* The maps in which tracers count, time and collect, for every number of  *)
(* CPUs, tasks, threads and requests and without the bounds of the runs.   *)
(***************************************************************************)
EXTENDS MapCounters, SyscallImage, ScheduleImage, IoTracing, StartTimes, Integers,
        FiniteSetTheorems, TLAPS

(* What deleting does to a map.                                            *)
LEMMA WithoutKeys ==
  ASSUME NEW f, NEW keys
  PROVE  /\ DOMAIN Without(f, keys) = DOMAIN f \ keys
         /\ \A x \in DOMAIN f \ keys : Without(f, keys)[x] = f[x]
  BY DEF Without, Restrict

----------------------------------------------------------------------------
(* MapCounters: no counter shows more than was counted, what overlaps never*)
(* loses all of it, and what does not overlap loses nothing.               *)
USE CounterAssumption

Pcs == {"idle", "read", "insert", "again", "add", "load", "store", "reload", "restore"}

McCalls == [pc : Pcs, gen : Nat, value : Nat]

(* Type invariant of the counters.                                         *)
McTypeOK ==
    /\ mcIdiom \in Idioms
    /\ mcMap \in [gen : Nat, value : Nat]
    /\ mcCall \in [CounterCpus -> McCalls]
    /\ mcCount \in Nat
    /\ mcFull \in Nat
    /\ mcOverlapped \in BOOLEAN
    /\ mcTorn \in BOOLEAN

(* Which steps an idiom takes, and that a program which holds a pointer    *)
(* holds the current element, as long as none was torn.                    *)
McHolding == {"read", "add", "load", "store"}

Steps ==
    /\ mcIdiom = "incr" => mcMap.gen > 0 /\ mcFull = 0
    /\ mcMap.gen = 0 => mcMap.value = 0
    /\ \A c \in CounterCpus :
          /\ mcCall[c].pc = "idle" => mcCall[c] = NoCall
          /\ mcCall[c].pc = "read" => mcIdiom = "dns"
          /\ mcCall[c].pc = "insert" => mcIdiom # "incr"
          /\ mcCall[c].pc \in {"again", "add"} => mcIdiom = "hist"
          /\ mcCall[c].pc \in {"load", "store"} => mcIdiom \in {"rst", "incr"}
          /\ mcCall[c].pc \in {"reload", "restore"} => mcIdiom = "incr" /\ mcCount > 0
          /\ mcCall[c].pc \in McHolding => mcMap.gen > 0 /\ (~mcTorn => Current(c))

(* What is in the map, or on its way there, has been counted or will be by *)
(* the step that stores it; what the full map took away comes on top.      *)
McCounted ==
    /\ mcFull <= mcCount
    /\ ~mcTorn =>
        /\ mcMap.value + mcFull <= mcCount
        /\ \A c \in CounterCpus :
              /\ mcCall[c].pc \in {"insert", "store"} => mcCall[c].value + mcFull <= mcCount + 1
              /\ mcCall[c].pc = "restore" => mcCall[c].value + mcFull <= mcCount

(* Nothing of a counter that was ever incremented goes back to 0, but for  *)
(* hist, where the program that inserted a 0 has still to add its 1.       *)
HistAdds ==
    ~mcTorn /\ mcIdiom = "hist" /\ mcMap.gen > 0 /\ mcMap.value = 0 =>
        \E c \in CounterCpus : mcCall[c].pc \in {"again", "add"}

AboveZero ==
    /\ mcCount > mcFull => mcMap.gen > 0
    /\ ~mcTorn /\ mcIdiom \in {"rst", "dns"} /\ mcMap.gen > 0 => mcMap.value > 0
    /\ ~mcTorn /\ mcIdiom = "incr" /\ mcCount > 0 => mcMap.value > 0
    /\ \A c \in CounterCpus :
          /\ mcCall[c].pc = "insert" => IF mcIdiom = "hist" THEN mcCall[c].value = 0
                                        ELSE mcCall[c].value > 0
          /\ mcCall[c].pc = "store" => mcCall[c].value > 0
          /\ ~mcTorn /\ mcCall[c].pc = "restore" => mcCall[c].value > 0

(* While nothing overlaps one program runs, and the map is exact at each   *)
(* of its steps.                                                           *)
OneRuns == \A c, d \in CounterCpus : Running(c) /\ Running(d) => c = d

OnItsWay(c) ==
    /\ mcCall[c].pc = "insert" => IF mcIdiom = "hist" THEN mcMap.gen = 0
                                  ELSE mcCall[c].value = mcMap.value + 1
    /\ mcCall[c].pc = "store" => mcCall[c].value = mcMap.value + 1
    /\ mcCall[c].pc = "restore" => mcCall[c].value = mcMap.value

Exact ==
    ~mcOverlapped =>
        /\ OneRuns
        /\ ~mcTorn => /\ mcMap.value + mcFull = mcCount
                      /\ \A c \in CounterCpus : OnItsWay(c)

McInv == McTypeOK /\ Steps /\ McCounted /\ HistAdds /\ AboveZero /\ Exact

LEMMA McInvInit == MapCountersInit => McInv
<1> SUFFICES ASSUME MapCountersInit
             PROVE  McInv
  OBVIOUS
<1> USE DEF MapCountersInit, NoCall
<1>1. mcMap \in [gen : {0, 1}, value : {0}] /\ (mcIdiom = "incr" => mcMap.gen = 1)
                                           /\ (mcIdiom # "incr" => mcMap.gen = 0)
  BY DEF Idioms
<1>2. McTypeOK
  BY <1>1 DEF McTypeOK, McCalls, Pcs
<1>3. Steps
  BY <1>1 DEF Steps, Current, McHolding
<1>4. McCounted /\ HistAdds /\ AboveZero
  BY <1>1 DEF McCounted, HistAdds, AboveZero
<1>5. Exact
  BY <1>1 DEF Exact, OneRuns, Running, OnItsWay
<1> QED
  BY <1>2, <1>3, <1>4, <1>5 DEF McInv

----------------------------------------------------------------------------
(* A call that goes to another place; a call that returns.                 *)
LEMMA Going ==
  ASSUME McTypeOK, NEW c \in CounterCpus, NEW p \in Pcs, NEW v \in Nat, Goes(c, p, v)
  PROVE  /\ mcCall' \in [CounterCpus -> McCalls]
         /\ mcCall'[c].pc = p /\ mcCall'[c].gen = mcMap.gen /\ mcCall'[c].value = v
         /\ \A d \in CounterCpus : d # c => mcCall'[d] = mcCall[d]
  BY DEF McTypeOK, McCalls, Goes

LEMMA Returning ==
  ASSUME McTypeOK, NEW c \in CounterCpus, Returns(c)
  PROVE  /\ mcCall' \in [CounterCpus -> McCalls]
         /\ mcCall'[c] = NoCall
         /\ \A d \in CounterCpus : d # c => mcCall'[d] = mcCall[d]
  BY DEF McTypeOK, McCalls, Pcs, NoCall, Returns

(* The program on c runs on: whoever ran alone still does.                 *)
LEMMA RunsOn ==
  ASSUME OneRuns, NEW c \in CounterCpus, Running(c),
         \A d \in CounterCpus : d # c => mcCall'[d] = mcCall[d]
  PROVE  OneRuns' /\ \A d \in CounterCpus : d # c => mcCall[d] = NoCall /\ mcCall'[d] = NoCall
  BY DEF OneRuns, Running

LEMMA McInvNext == McInv /\ [MapCountersNext]_mcVars => McInv'
<1> SUFFICES ASSUME McInv, [MapCountersNext]_mcVars
             PROVE  McInv'
  OBVIOUS
<1> USE DEF McInv
<1>0. /\ mcMap \in [gen : Nat, value : Nat] /\ mcMap.gen \in Nat /\ mcMap.value \in Nat
      /\ mcCount \in Nat /\ mcFull \in Nat /\ mcIdiom \in Idioms
      /\ mcOverlapped \in BOOLEAN /\ mcTorn \in BOOLEAN
      /\ \A c \in CounterCpus : mcCall[c].pc \in Pcs /\ mcCall[c].gen \in Nat /\ mcCall[c].value \in Nat
  BY DEF McTypeOK, McCalls
<1>a. \A c \in CounterCpus : mcCall[c].pc # "idle" => Running(c)
  BY DEF Running, NoCall
<1>1. ASSUME NEW c \in CounterCpus, McLookup(c) PROVE McInv'
  <2>2. PICK p \in {"insert", "read", "add", "load"}, v \in Nat :
          /\ Goes(c, p, v)
          /\ p = "insert" => \/ v = 1 /\ mcMap.gen = 0 /\ mcIdiom \in {"rst", "dns"}
                             \/ v = 0 /\ mcMap.gen = 0 /\ mcIdiom = "hist"
          /\ p # "insert" => mcMap.gen > 0
          /\ p = "read" => mcIdiom = "dns"
          /\ p = "add" => mcIdiom = "hist"
          /\ p = "load" => mcIdiom \in {"rst", "incr"}
    <3>1. CASE mcMap.gen = 0
      <4>1. Goes(c, "insert", IF mcIdiom = "hist" THEN 0 ELSE 1)
        BY <1>1, <3>1 DEF McLookup
      <4>2. mcIdiom # "incr"
        BY <3>1 DEF Steps
      <4>3. CASE mcIdiom = "hist"
        BY <4>1, <4>3, <3>1
      <4>4. CASE mcIdiom # "hist"
        BY <4>1, <4>2, <4>4, <3>1, <1>0 DEF Idioms
      <4> QED
        BY <4>3, <4>4
    <3>2. CASE mcMap.gen # 0
      <4>1. CASE mcIdiom = "dns"
        <5>1. Goes(c, "read", 0)
          BY <1>1, <3>2, <4>1 DEF McLookup
        <5> QED
          BY <1>0, <3>2, <4>1, <5>1
      <4>2. CASE mcIdiom = "hist"
        <5>1. Goes(c, "add", 0)
          BY <1>1, <3>2, <4>2 DEF McLookup
        <5> QED
          BY <1>0, <3>2, <4>2, <5>1
      <4>3. CASE mcIdiom \in {"rst", "incr"}
        <5>1. Goes(c, "load", 0)
          BY <1>1, <3>2, <4>3 DEF McLookup
        <5> QED
          BY <1>0, <3>2, <4>3, <5>1
      <4> QED
        BY <1>0, <4>1, <4>2, <4>3 DEF Idioms
    <3> QED
      BY <3>1, <3>2
  <2>3. UNCHANGED <<mcIdiom, mcMap, mcCount, mcFull, mcTorn>> /\ ~Running(c)
    BY <1>1 DEF McLookup
  <2>4. mcOverlapped' = (mcOverlapped \/ \E d \in CounterCpus : Running(d))
    BY <1>1 DEF McLookup
  <2>5. /\ mcCall' \in [CounterCpus -> McCalls]
        /\ mcCall'[c].pc = p /\ mcCall'[c].gen = mcMap.gen /\ mcCall'[c].value = v
        /\ \A d \in CounterCpus : d # c => mcCall'[d] = mcCall[d]
    BY <2>2, Going DEF Pcs
  <2>6. McTypeOK'
    BY <2>3, <2>4, <2>5 DEF McTypeOK
  <2>7. Steps'
    BY <1>0, <2>2, <2>3, <2>5 DEF Steps, Current, McHolding
  <2>8. McCounted'
    BY <1>0, <2>2, <2>3, <2>5 DEF McCounted
  <2>9. HistAdds'
    <3>1. mcCall[c].pc = "idle"
      BY <2>3 DEF Running, NoCall
    <3> QED
      BY <2>3, <2>5, <3>1 DEF HistAdds
  <2>10. AboveZero'
    BY <1>0, <2>2, <2>3, <2>5 DEF AboveZero
  <2>11. Exact'
    <3> SUFFICES ASSUME ~mcOverlapped'
                 PROVE  /\ OneRuns'
                        /\ ~mcTorn' => /\ mcMap'.value + mcFull' = mcCount'
                                       /\ \A d \in CounterCpus : OnItsWay(d)'
      BY DEF Exact
    <3>1. ~mcOverlapped /\ \A d \in CounterCpus : mcCall[d] = NoCall
      BY <2>4 DEF Running
    <3>2. \A d \in CounterCpus : d # c => mcCall'[d] = NoCall
      BY <2>5, <3>1
    <3>3. OneRuns'
      BY <3>2 DEF OneRuns, Running
    <3>4. ~mcTorn' => mcMap'.value + mcFull' = mcCount'
      BY <2>3, <3>1 DEF Exact
    <3>5. \A d \in CounterCpus : d # c => OnItsWay(d)'
      BY <3>2 DEF OnItsWay, NoCall
    <3>6. OnItsWay(c)'
      BY <1>0, <2>2, <2>3, <2>5 DEF OnItsWay, Steps
    <3> QED
      BY <3>3, <3>4, <3>5, <3>6
  <2> QED
    BY <2>6, <2>7, <2>8, <2>9, <2>10, <2>11
<1>2. ASSUME NEW c \in CounterCpus, McRead(c) PROVE McInv'
  <2>1. /\ mcCall[c].pc = "read" /\ Running(c)
        /\ UNCHANGED <<mcIdiom, mcMap, mcCount, mcFull, mcOverlapped, mcTorn>>
    BY <1>2, <1>a DEF McRead
  <2>2. PICK value \in Nat :
          /\ mcCall' = [mcCall EXCEPT ![c] = [pc |-> "insert", gen |-> @.gen, value |-> value + 1]]
          /\ Current(c) => value = mcMap.value
    <3>1. PICK value \in IF Current(c) THEN {mcMap.value} ELSE 0 .. MaxCount :
             mcCall' = [mcCall EXCEPT ![c] = [pc |-> "insert", gen |-> @.gen, value |-> value + 1]]
      BY <1>2 DEF McRead
    <3>2. value \in Nat /\ (Current(c) => value = mcMap.value)
      BY <1>0 DEF CounterAssumption
    <3> QED
      BY <3>1, <3>2
  <2>3. /\ mcCall' \in [CounterCpus -> McCalls]
        /\ mcCall'[c].pc = "insert" /\ mcCall'[c].value = value + 1
        /\ \A d \in CounterCpus : d # c => mcCall'[d] = mcCall[d]
    <3>1. [pc |-> "insert", gen |-> mcCall[c].gen, value |-> value + 1] \in McCalls
      BY <1>0 DEF McCalls, Pcs
    <3> QED
      BY <2>2, <3>1 DEF McTypeOK
  <2>4. mcIdiom = "dns" /\ mcMap.gen > 0 /\ (~mcTorn => value = mcMap.value)
    BY <2>1, <2>2 DEF Steps, McHolding
  <2>5. McTypeOK'
    BY <2>1, <2>3 DEF McTypeOK
  <2>6. Steps'
    BY <2>1, <2>3, <2>4 DEF Steps, Current, McHolding
  <2>7. McCounted'
    BY <1>0, <2>1, <2>3, <2>4 DEF McCounted
  <2>8. HistAdds' /\ AboveZero'
    BY <1>0, <2>1, <2>3, <2>4 DEF HistAdds, AboveZero
  <2>9. Exact'
    BY <1>0, <2>1, <2>3, <2>4, RunsOn DEF Exact, OnItsWay, NoCall
  <2> QED
    BY <2>5, <2>6, <2>7, <2>8, <2>9
<1>3. ASSUME NEW c \in CounterCpus, McInsert(c) PROVE McInv'
  <2>1. mcCall[c].pc = "insert" /\ Running(c) /\ mcIdiom # "incr"
    BY <1>3, <1>a DEF McInsert, Steps
  <2>2. /\ mcMap' = [gen |-> mcMap.gen + 1, value |-> mcCall[c].value]
        /\ mcTorn' = (mcTorn \/ \E d \in CounterCpus : Holds(d))
        /\ UNCHANGED <<mcIdiom, mcFull, mcOverlapped>>
    BY <1>3 DEF McInsert
  <2>3. ~mcTorn' => ~mcTorn /\ \A d \in CounterCpus : mcCall[d].pc \notin McHolding
    BY <2>2 DEF Holds, Steps, McHolding
  <2>4. /\ mcMap'.gen = mcMap.gen + 1 /\ mcMap'.value = mcCall[c].value
        /\ mcMap' \in [gen : Nat, value : Nat]
        /\ mcTorn' \in BOOLEAN
    BY <1>0, <2>2
  <2>5. CASE mcIdiom = "hist"
    <3>1. mcCount' = mcCount /\ Goes(c, "again", 0)
      BY <1>3, <2>5 DEF McInsert
    <3>2. /\ mcCall' \in [CounterCpus -> McCalls]
          /\ mcCall'[c].pc = "again"
          /\ \A d \in CounterCpus : d # c => mcCall'[d] = mcCall[d]
      BY <3>1, Going DEF Pcs
    <3>3. McTypeOK'
      BY <2>2, <2>4, <3>1, <3>2 DEF McTypeOK
    <3>4. Steps'
      BY <1>0, <2>2, <2>3, <2>4, <2>5, <3>1, <3>2 DEF Steps, McHolding
    <3>5. McCounted'
      BY <1>0, <2>1, <2>2, <2>3, <2>4, <2>5, <3>1, <3>2 DEF McCounted, AboveZero
    <3>6. HistAdds'
      BY <3>2 DEF HistAdds
    <3>7. AboveZero'
      BY <1>0, <2>1, <2>2, <2>3, <2>4, <2>5, <3>1, <3>2 DEF AboveZero
    <3>8. Exact'
      <4>1. ASSUME ~mcOverlapped', ~mcTorn' PROVE mcMap'.value + mcFull' = mcCount'
        BY <1>0, <2>1, <2>2, <2>3, <2>4, <2>5, <3>1, <4>1 DEF Exact, OnItsWay, Steps, AboveZero
      <4> QED
        BY <2>1, <2>2, <2>3, <3>2, <4>1, RunsOn DEF Exact, OnItsWay, NoCall
    <3> QED
      BY <3>3, <3>4, <3>5, <3>6, <3>7, <3>8
  <2>6. CASE mcIdiom # "hist"
    <3>1. mcCount' = mcCount + 1 /\ Returns(c)
      BY <1>3, <2>6 DEF McInsert
    <3>2. /\ mcCall' \in [CounterCpus -> McCalls]
          /\ mcCall'[c] = NoCall
          /\ \A d \in CounterCpus : d # c => mcCall'[d] = mcCall[d]
      BY <3>1, Returning
    <3>3. McTypeOK'
      BY <1>0, <2>2, <2>4, <3>1, <3>2 DEF McTypeOK
    <3>4. Steps'
      BY <1>0, <2>1, <2>2, <2>3, <2>4, <3>1, <3>2 DEF Steps, McHolding, NoCall
    <3>5. McCounted'
      BY <1>0, <2>1, <2>2, <2>3, <2>4, <3>1, <3>2 DEF McCounted, NoCall
    <3>6. HistAdds' /\ AboveZero'
      BY <1>0, <2>1, <2>2, <2>3, <2>4, <2>6, <3>1, <3>2 DEF HistAdds, AboveZero, NoCall
    <3>7. Exact'
      BY <1>0, <2>1, <2>2, <2>3, <2>4, <2>6, <3>1, <3>2, RunsOn DEF Exact, OnItsWay, NoCall
    <3> QED
      BY <3>3, <3>4, <3>5, <3>6, <3>7
  <2> QED
    BY <2>5, <2>6
<1>4. ASSUME NEW c \in CounterCpus, McInsertFails(c) PROVE McInv'
  <2>1. /\ mcCall[c].pc = "insert" /\ mcMap.gen = 0 /\ Running(c) /\ mcIdiom # "incr"
        /\ UNCHANGED <<mcIdiom, mcMap, mcOverlapped, mcTorn>>
    BY <1>4, <1>a DEF McInsertFails, Steps
  <2>2. CASE mcIdiom = "hist"
    <3>1. UNCHANGED <<mcCount, mcFull>> /\ Goes(c, "again", 0)
      BY <1>4, <2>2 DEF McInsertFails
    <3>2. /\ mcCall' \in [CounterCpus -> McCalls]
          /\ mcCall'[c].pc = "again"
          /\ \A d \in CounterCpus : d # c => mcCall'[d] = mcCall[d]
      BY <3>1, Going DEF Pcs
    <3>3. McTypeOK' /\ Steps'
      BY <2>1, <2>2, <3>1, <3>2 DEF McTypeOK, Steps, McHolding, Current
    <3>4. McCounted' /\ HistAdds' /\ AboveZero'
      BY <1>0, <2>1, <2>2, <3>1, <3>2 DEF McCounted, HistAdds, AboveZero
    <3>5. Exact'
      BY <2>1, <2>2, <3>1, <3>2, RunsOn DEF Exact, OnItsWay, NoCall
    <3> QED
      BY <3>3, <3>4, <3>5
  <2>3. CASE mcIdiom # "hist"
    <3>1. mcCount' = mcCount + 1 /\ mcFull' = mcFull + 1 /\ Returns(c)
      BY <1>4, <2>3 DEF McInsertFails
    <3>2. /\ mcCall' \in [CounterCpus -> McCalls]
          /\ mcCall'[c] = NoCall
          /\ \A d \in CounterCpus : d # c => mcCall'[d] = mcCall[d]
      BY <3>1, Returning
    <3>3. McTypeOK'
      BY <1>0, <2>1, <3>1, <3>2 DEF McTypeOK
    <3>4. Steps'
      BY <1>0, <2>1, <3>1, <3>2 DEF Steps, McHolding, Current, NoCall
    <3>5. McCounted' /\ HistAdds' /\ AboveZero'
      BY <1>0, <2>1, <2>3, <3>1, <3>2 DEF McCounted, HistAdds, AboveZero, NoCall
    <3>6. Exact'
      BY <1>0, <2>1, <3>1, <3>2, RunsOn DEF Exact, OnItsWay, NoCall
    <3> QED
      BY <3>3, <3>4, <3>5, <3>6
  <2> QED
    BY <2>2, <2>3
<1>5. ASSUME NEW c \in CounterCpus, McLookupAgain(c) PROVE McInv'
  <2>1. /\ mcCall[c].pc = "again" /\ Running(c) /\ mcIdiom = "hist"
        /\ UNCHANGED <<mcIdiom, mcMap, mcOverlapped, mcTorn>>
    BY <1>5, <1>a DEF McLookupAgain, Steps
  <2>2. CASE mcMap.gen # 0
    <3>1. UNCHANGED <<mcCount, mcFull>> /\ Goes(c, "add", 0)
      BY <1>5, <2>2 DEF McLookupAgain
    <3>2. /\ mcCall' \in [CounterCpus -> McCalls]
          /\ mcCall'[c].pc = "add" /\ mcCall'[c].gen = mcMap.gen
          /\ \A d \in CounterCpus : d # c => mcCall'[d] = mcCall[d]
      BY <3>1, Going DEF Pcs
    <3>3. McTypeOK' /\ Steps'
      BY <1>0, <2>1, <2>2, <3>1, <3>2 DEF McTypeOK, Steps, McHolding, Current
    <3>4. McCounted' /\ HistAdds' /\ AboveZero'
      BY <1>0, <2>1, <2>2, <3>1, <3>2 DEF McCounted, HistAdds, AboveZero
    <3>5. Exact'
      BY <2>1, <2>2, <3>1, <3>2, RunsOn DEF Exact, OnItsWay, NoCall
    <3> QED
      BY <3>3, <3>4, <3>5
  <2>3. CASE mcMap.gen = 0
    <3>1. mcCount' = mcCount + 1 /\ mcFull' = mcFull + 1 /\ Returns(c)
      BY <1>5, <2>3 DEF McLookupAgain
    <3>2. /\ mcCall' \in [CounterCpus -> McCalls]
          /\ mcCall'[c] = NoCall
          /\ \A d \in CounterCpus : d # c => mcCall'[d] = mcCall[d]
      BY <3>1, Returning
    <3>3. McTypeOK'
      BY <1>0, <2>1, <3>1, <3>2 DEF McTypeOK
    <3>4. Steps'
      BY <1>0, <2>1, <3>1, <3>2 DEF Steps, McHolding, Current, NoCall
    <3>5. McCounted' /\ HistAdds' /\ AboveZero'
      BY <1>0, <2>1, <2>3, <3>1, <3>2 DEF McCounted, HistAdds, AboveZero, NoCall
    <3>6. Exact'
      BY <1>0, <2>1, <3>1, <3>2, RunsOn DEF Exact, OnItsWay, NoCall
    <3> QED
      BY <3>3, <3>4, <3>5, <3>6
  <2> QED
    BY <2>2, <2>3
<1>6. ASSUME NEW c \in CounterCpus, McAtomicAdd(c) PROVE McInv'
  <2>1. /\ mcCall[c].pc = "add" /\ Returns(c) /\ mcCount' = mcCount + 1 /\ Running(c)
        /\ mcMap' = IF Current(c) THEN [mcMap EXCEPT !.value = @ + 1] ELSE mcMap
        /\ UNCHANGED <<mcIdiom, mcFull, mcOverlapped, mcTorn>>
    BY <1>6, <1>a DEF McAtomicAdd
  <2>2. /\ mcCall' \in [CounterCpus -> McCalls] /\ mcCall'[c] = NoCall
        /\ \A d \in CounterCpus : d # c => mcCall'[d] = mcCall[d]
    BY <2>1, Returning
  <2>3. /\ mcMap' \in [gen : Nat, value : Nat] /\ mcMap'.gen = mcMap.gen
        /\ ~mcTorn => mcMap'.value = mcMap.value + 1
        /\ mcIdiom = "hist" /\ mcMap.gen > 0
    BY <1>0, <2>1 DEF Steps, McHolding
  <2>4. McTypeOK'
    BY <1>0, <2>1, <2>2, <2>3 DEF McTypeOK
  <2>5. Steps'
    BY <1>0, <2>1, <2>2, <2>3 DEF Steps, Current, NoCall, McHolding
  <2>6. McCounted' /\ HistAdds' /\ AboveZero'
    BY <1>0, <2>1, <2>2, <2>3 DEF McCounted, HistAdds, AboveZero, NoCall
  <2>7. Exact'
    BY <1>0, <2>1, <2>2, <2>3, RunsOn DEF Exact, OnItsWay, NoCall
  <2> QED
    BY <2>4, <2>5, <2>6, <2>7
<1>7. ASSUME NEW c \in CounterCpus, McLoad(c) PROVE McInv'
  <2>1. /\ mcCall[c].pc = "load" /\ Running(c)
        /\ UNCHANGED <<mcIdiom, mcMap, mcCount, mcFull, mcOverlapped, mcTorn>>
    BY <1>7, <1>a DEF McLoad
  <2>2. /\ mcCall' \in [CounterCpus -> McCalls]
        /\ mcCall'[c].pc = "store" /\ mcCall'[c].gen = mcCall[c].gen
        /\ mcCall'[c].value = mcMap.value + 1
        /\ \A d \in CounterCpus : d # c => mcCall'[d] = mcCall[d]
    <3>1. [pc |-> "store", gen |-> mcCall[c].gen, value |-> mcMap.value + 1] \in McCalls
      BY <1>0 DEF McCalls, Pcs
    <3> QED
      BY <1>7, <3>1 DEF McLoad, McTypeOK
  <2>3. McTypeOK' /\ Steps'
    BY <2>1, <2>2 DEF McTypeOK, Steps, Current, McHolding
  <2>4. McCounted' /\ HistAdds' /\ AboveZero'
    BY <1>0, <2>1, <2>2 DEF McCounted, HistAdds, AboveZero
  <2>5. Exact'
    BY <1>0, <2>1, <2>2, RunsOn DEF Exact, OnItsWay, NoCall
  <2> QED
    BY <2>3, <2>4, <2>5
<1>8. ASSUME NEW c \in CounterCpus, McStore(c) PROVE McInv'
  <2>1. /\ mcCall[c].pc = "store" /\ mcCount' = mcCount + 1 /\ Running(c)
        /\ mcMap' = IF Current(c) THEN [mcMap EXCEPT !.value = mcCall[c].value] ELSE mcMap
        /\ UNCHANGED <<mcIdiom, mcFull, mcOverlapped, mcTorn>>
        /\ IF mcIdiom = "incr" THEN Goes(c, "reload", 0) ELSE Returns(c)
    BY <1>8, <1>a DEF McStore
  <2>2. /\ mcCall' \in [CounterCpus -> McCalls]
        /\ mcIdiom = "incr" => mcCall'[c].pc = "reload"
        /\ mcIdiom # "incr" => mcCall'[c] = NoCall
        /\ \A d \in CounterCpus : d # c => mcCall'[d] = mcCall[d]
    <3>1. CASE mcIdiom = "incr"
      BY <2>1, <3>1, Going DEF Pcs
    <3>2. CASE mcIdiom # "incr"
      BY <2>1, <3>2, Returning
    <3> QED
      BY <3>1, <3>2
  <2>3. /\ mcMap' \in [gen : Nat, value : Nat] /\ mcMap'.gen = mcMap.gen
        /\ ~mcTorn => mcMap'.value = mcCall[c].value
        /\ mcIdiom \in {"rst", "incr"} /\ mcMap.gen > 0
    BY <1>0, <2>1 DEF Steps, McHolding
  <2>4. McTypeOK'
    BY <1>0, <2>1, <2>2, <2>3 DEF McTypeOK
  <2>5. Steps'
    BY <1>0, <2>1, <2>2, <2>3 DEF Steps, Current, NoCall, McHolding
  <2>6. McCounted'
    BY <1>0, <2>1, <2>2, <2>3 DEF McCounted, NoCall
  <2>7. HistAdds' /\ AboveZero'
    BY <1>0, <2>1, <2>2, <2>3 DEF HistAdds, AboveZero, NoCall
  <2>8. Exact'
    BY <1>0, <2>1, <2>2, <2>3, RunsOn DEF Exact, OnItsWay, NoCall
  <2> QED
    BY <2>4, <2>5, <2>6, <2>7, <2>8
<1>9. ASSUME NEW c \in CounterCpus, McReload(c) PROVE McInv'
  <2>1. /\ mcCall[c].pc = "reload" /\ Goes(c, "restore", mcMap.value) /\ Running(c)
        /\ UNCHANGED <<mcIdiom, mcMap, mcCount, mcFull, mcOverlapped, mcTorn>>
    BY <1>9, <1>a DEF McReload
  <2>2. /\ mcCall' \in [CounterCpus -> McCalls]
        /\ mcCall'[c].pc = "restore" /\ mcCall'[c].value = mcMap.value
        /\ \A d \in CounterCpus : d # c => mcCall'[d] = mcCall[d]
    BY <1>0, <2>1, Going DEF Pcs
  <2>3. McTypeOK' /\ Steps'
    BY <2>1, <2>2 DEF McTypeOK, Steps, Current, McHolding
  <2>4. McCounted' /\ HistAdds' /\ AboveZero'
    BY <1>0, <2>1, <2>2 DEF McCounted, HistAdds, AboveZero, Steps
  <2>5. Exact'
    BY <1>0, <2>1, <2>2, RunsOn DEF Exact, OnItsWay, NoCall
  <2> QED
    BY <2>3, <2>4, <2>5
<1>10. ASSUME NEW c \in CounterCpus, McRestore(c) PROVE McInv'
  <2>1. /\ mcCall[c].pc = "restore" /\ Returns(c) /\ Running(c)
        /\ mcMap' = [mcMap EXCEPT !.value = mcCall[c].value]
        /\ UNCHANGED <<mcIdiom, mcCount, mcFull, mcOverlapped, mcTorn>>
    BY <1>10, <1>a DEF McRestore
  <2>2. /\ mcCall' \in [CounterCpus -> McCalls] /\ mcCall'[c] = NoCall
        /\ \A d \in CounterCpus : d # c => mcCall'[d] = mcCall[d]
    BY <2>1, Returning
  <2>3. /\ mcMap' \in [gen : Nat, value : Nat] /\ mcMap'.gen = mcMap.gen
        /\ mcMap'.value = mcCall[c].value
        /\ mcIdiom = "incr" /\ mcMap.gen > 0
    BY <1>0, <2>1 DEF Steps
  <2>4. McTypeOK'
    BY <2>1, <2>2, <2>3 DEF McTypeOK
  <2>5. Steps'
    BY <1>0, <2>1, <2>2, <2>3 DEF Steps, Current, NoCall, McHolding
  <2>6. McCounted'
    BY <1>0, <2>1, <2>2, <2>3 DEF McCounted, NoCall
  <2>7. HistAdds' /\ AboveZero'
    BY <1>0, <2>1, <2>2, <2>3 DEF HistAdds, AboveZero, NoCall
  <2>8. Exact'
    BY <1>0, <2>1, <2>2, <2>3, RunsOn DEF Exact, OnItsWay, NoCall
  <2> QED
    BY <2>4, <2>5, <2>6, <2>7, <2>8
<1>11. ASSUME McForeignWrite PROVE McInv'
  <2>1. PICK value \in 0 .. MaxCount : mcMap' = [mcMap EXCEPT !.value = value]
    BY <1>11 DEF McForeignWrite
  <2>2. /\ mcMap' \in [gen : Nat, value : Nat] /\ mcMap'.gen = mcMap.gen /\ mcMap.gen # 0
        /\ mcTorn' = TRUE /\ UNCHANGED <<mcIdiom, mcCall, mcCount, mcFull, mcOverlapped>>
    BY <1>0, <1>11, <2>1 DEF McForeignWrite
  <2> QED
    BY <2>2 DEF McTypeOK, Steps, Current, McCounted, HistAdds, AboveZero, Exact, OneRuns, Running
<1>12. CASE UNCHANGED mcVars
  BY <1>12 DEF mcVars, McTypeOK, Steps, McCounted, HistAdds, AboveZero, Current, Exact,
              OneRuns, Running, OnItsWay
<1> QED
  BY <1>1, <1>2, <1>3, <1>4, <1>5, <1>6, <1>7, <1>8, <1>9, <1>10, <1>11, <1>12
     DEF MapCountersNext

LEMMA McInvHolds == MapCountersSpec => []McInv
  BY McInvInit, McInvNext, PTL DEF MapCountersSpec

(* As long as no program held an element that the map replaced, the        *)
(* counters of the tracers never show more than was counted, are not back  *)
(* at 0 when something was, and miss nothing but what found the map full   *)
(* as long as no two increments overlap (ret, process_dns_packet,          *)
(* __tcp_rcv_established, __incr).                                         *)
THEOREM CountersAreBounded == MapCountersSpec => []McCountBounds
<1>1. McInv => McCountBounds
  <2> SUFFICES ASSUME McInv, ~mcTorn
               PROVE  /\ mcMap.value + mcFull <= mcCount
                      /\ Quiet /\ mcCount > mcFull => mcMap.value > 0
                      /\ ~mcOverlapped => mcMap.value + mcFull = mcCount
    BY DEF McCountBounds
  <2>1. mcMap.value + mcFull <= mcCount
    BY DEF McInv, McCounted
  <2>2. ASSUME Quiet, mcCount > mcFull PROVE mcMap.value > 0
    <3>1. \A c \in CounterCpus : mcCall[c].pc \notin {"again", "add"}
      <4> TAKE c \in CounterCpus
      <4>1. mcCall[c] = [pc |-> "idle", gen |-> 0, value |-> 0]
        BY <2>2 DEF Quiet, Running, NoCall
      <4> QED
        BY <4>1
    <3>2. /\ mcMap.value \in Nat /\ mcIdiom \in Idioms /\ mcMap.gen > 0
          /\ mcCount \in Nat /\ mcFull \in Nat
      BY <2>2 DEF McInv, McTypeOK, AboveZero
    <3> QED
      BY <2>2, <3>1, <3>2 DEF McInv, HistAdds, AboveZero, Idioms
  <2>3. ~mcOverlapped => mcMap.value + mcFull = mcCount
    BY DEF McInv, Exact
  <2> QED
    BY <2>1, <2>2, <2>3
<1> QED
  BY <1>1, McInvHolds, PTL

----------------------------------------------------------------------------
(* SyscallImage: the sequence of system calls shown for a thread has the   *)
(* length asked for and the time its calls took.                           *)
USE SyscallAssumption

Asked == IF syscalls < 1 THEN 1 ELSE syscalls

SyEntryType == [enter : Nat, count : 1 .. MAX_SYSCALL_COUNT, sum : Nat]

(* Type invariant of the sequences.                                        *)
SyTypeOK ==
    /\ syscalls \in Int
    /\ syThread \in [SyThreads -> [pc : {"user", "in"}, began : Nat]]
    /\ DOMAIN syMap \subseteq SyThreads
    /\ \A t \in DOMAIN syMap : syMap[t] \in SyEntryType /\ syMap[t].count <= Asked
    /\ syClock \in Nat
    /\ sySpent \in [SyThreads -> Nat]
    /\ syLate \subseteq SyThreads
    /\ \A t \in SyThreads : syThread[t].began <= syClock

(* The entry of a thread in a call has the time of that call, or, when it  *)
(* did not take it, an earlier one; what is summed up is what was spent,   *)
(* or more.                                                                *)
SyEntryOf(t) ==
    /\ syMap[t].enter <= syClock
    /\ syMap[t].sum >= sySpent[t]
    /\ syThread[t].pc = "in" => syMap[t].enter <= syThread[t].began
    /\ t \notin syLate =>
          /\ syMap[t].sum = sySpent[t]
          /\ syThread[t].pc = "in" => syMap[t].enter = syThread[t].began

SyscallInv ==
    /\ SyTypeOK
    /\ \A t \in DOMAIN syMap : SyEntryOf(t)
    /\ SySequencesExact

LEMMA SyscallInvInit == SyscallInit => SyscallInv
  BY DEF SyscallInit, SyscallInv, SyTypeOK, SyEntryOf, SySequencesExact

(* What does not touch a thread or its entry leaves the entry right.        *)
LEMMA EntryOfKept ==
  ASSUME SyscallInv, NEW t \in DOMAIN syMap, syMap'[t] = syMap[t],
         syThread'[t] = syThread[t], sySpent'[t] = sySpent[t],
         t \in syLate <=> t \in syLate', syClock' \in Nat, syClock' >= syClock
  PROVE  SyEntryOf(t)'
  BY DEF SyscallInv, SyTypeOK, SyEntryType, SyEntryOf

(* An entry that takes the time of a call.                                 *)
LEMMA TimeTaken ==
  ASSUME NEW r \in SyEntryType, NEW n \in Nat
  PROVE  LET v == [r EXCEPT !.sum = n]
         IN  v \in SyEntryType /\ v.enter = r.enter /\ v.sum = n /\ v.count = r.count
  BY DEF SyEntryType

LEMMA SyscallInvNext == SyscallInv /\ [SyscallNext]_syVars => SyscallInv'
<1> SUFFICES ASSUME SyscallInv, [SyscallNext]_syVars
             PROVE  SyscallInv'
  OBVIOUS
<1>1. ASSUME NEW t \in SyThreads, SyEnter(t) PROVE SyscallInv'
  <2>1. /\ syThread[t].pc = "user" /\ syscalls' = syscalls /\ syscalls \in Int
        /\ syClock \in Nat /\ syClock' = syClock + 1
        /\ syThread' = [syThread EXCEPT ![t] = [pc |-> "in", began |-> syClock + 1]]
        /\ sys_enter(t, syClock + 1) \/ NotTaken(t)
    BY <1>1 DEF SyEnter, SyscallInv, SyTypeOK
  <2>2. /\ \A x \in SyThreads : x # t => syThread'[x] = syThread[x]
        /\ syThread'[t].pc = "in" /\ syThread'[t].began = syClock + 1
        /\ syThread' \in [SyThreads -> [pc : {"user", "in"}, began : Nat]]
        /\ \A x \in SyThreads : syThread'[x].began <= syClock'
    BY <2>1 DEF SyscallInv, SyTypeOK
  <2>3. SySequencesExact'
    BY <1>1 DEF SyEnter, SySequencesExact
  <2>4. ASSUME NotTaken(t) PROVE SyscallInv'
    <3>1. syLate' = syLate \cup {t} /\ UNCHANGED <<syMap, sySpent>>
      BY <2>4 DEF NotTaken
    <3>2. SyTypeOK'
      BY <2>1, <2>2, <3>1 DEF SyscallInv, SyTypeOK, Asked
    <3>3. t \in DOMAIN syMap => SyEntryOf(t)'
      BY <2>1, <2>2, <3>1 DEF SyEntryOf, SyscallInv, SyTypeOK, SyEntryType
    <3>4. ASSUME NEW x \in DOMAIN syMap, x # t PROVE SyEntryOf(x)'
      BY <2>1, <2>2, <3>1, <3>4, EntryOfKept DEF SyscallInv, SyTypeOK
    <3> QED
      BY <2>3, <3>1, <3>2, <3>3, <3>4 DEF SyscallInv
  <2>5. CASE /\ t \notin DOMAIN syMap
             /\ syMap' = Updated(syMap, t, [enter |-> syClock + 1, count |-> 1, sum |-> 0])
             /\ sySpent' = [sySpent EXCEPT ![t] = 0]
             /\ syLate' = syLate \ {t}
    <3>1. syMap' = [x \in DOMAIN syMap \cup {t} |->
                          IF x = t THEN [enter |-> syClock + 1, count |-> 1, sum |-> 0]
                          ELSE syMap[x]]
      BY <2>5 DEF Updated
    <3>2. SyTypeOK'
      BY <2>1, <2>2, <2>5, <3>1 DEF SyscallInv, SyTypeOK, SyEntryType, Asked
    <3>3. SyEntryOf(t)'
      BY <2>1, <2>2, <2>5, <3>1 DEF SyEntryOf, SyscallInv, SyTypeOK
    <3>4. ASSUME NEW x \in DOMAIN syMap, x # t PROVE SyEntryOf(x)'
      <4>1. /\ syMap'[x] = syMap[x] /\ syThread'[x] = syThread[x] /\ sySpent'[x] = sySpent[x]
            /\ x \in syLate <=> x \in syLate'
        BY <2>1, <2>2, <2>5, <3>1, <3>4 DEF SyscallInv, SyTypeOK
      <4> QED
        BY <2>1, <4>1, EntryOfKept
    <3> QED
      BY <2>3, <2>5, <3>1, <3>2, <3>3, <3>4 DEF SyscallInv
  <2>6. CASE /\ t \in DOMAIN syMap /\ syMap[t].count < syscalls
             /\ syMap' = [syMap EXCEPT ![t] = [enter |-> syClock + 1, count |-> Capped(@),
                                               sum |-> @.sum]]
             /\ UNCHANGED <<sySpent, syLate>>
    <3> DEFINE taken == [enter |-> syClock + 1, count |-> Capped(syMap[t]),
                         sum |-> syMap[t].sum]
    <3>1. syMap' = [syMap EXCEPT ![t] = taken]
      BY <2>6
    <3>2. /\ taken \in SyEntryType /\ taken.enter = syClock + 1 /\ taken.sum = syMap[t].sum
          /\ taken.count <= Asked
      BY <2>1, <2>6 DEF SyscallInv, SyTypeOK, SyEntryType, Capped, Asked
    <3> HIDE DEF taken
    <3>3. SyTypeOK'
      BY <2>1, <2>2, <2>6, <3>1, <3>2 DEF SyscallInv, SyTypeOK, Asked
    <3>4. SyEntryOf(t)'
      BY <2>1, <2>2, <2>6, <3>1, <3>2 DEF SyEntryOf, SyscallInv, SyTypeOK
    <3>5. ASSUME NEW x \in DOMAIN syMap, x # t PROVE SyEntryOf(x)'
      BY <2>1, <2>2, <2>6, <3>1, <3>5, EntryOfKept DEF SyscallInv, SyTypeOK
    <3> QED
      BY <2>3, <2>6, <3>1, <3>3, <3>4, <3>5 DEF SyscallInv
  <2> QED
    BY <2>1, <2>4, <2>5, <2>6 DEF sys_enter, FirstCall
<1>2. ASSUME NEW t \in SyThreads, SyExit(t) PROVE SyscallInv'
  <2>1. /\ syThread[t].pc = "in" /\ syscalls' = syscalls /\ syLate' = syLate /\ syscalls \in Int
        /\ syClock \in Nat /\ syClock' = syClock + 1
        /\ syThread' = [syThread EXCEPT ![t] = [pc |-> "user", began |-> 0]]
    BY <1>2 DEF SyExit, SyscallInv, SyTypeOK
  <2>2. /\ \A x \in SyThreads : x # t => syThread'[x] = syThread[x]
        /\ syThread'[t].pc = "user"
        /\ syThread' \in [SyThreads -> [pc : {"user", "in"}, began : Nat]]
        /\ \A x \in SyThreads : syThread'[x].began <= syClock'
    BY <2>1 DEF SyscallInv, SyTypeOK
  <2>3. CASE UNCHANGED <<syMap, sySpent>> /\ syReport' = SyNoReport
    <3>1. SyTypeOK' /\ SySequencesExact'
      BY <2>1, <2>2, <2>3 DEF SyscallInv, SyTypeOK, SySequencesExact, Asked
    <3>2. ASSUME NEW x \in DOMAIN syMap PROVE SyEntryOf(x)'
      BY <2>1, <2>2, <2>3 DEF SyscallInv, SyTypeOK, SyEntryType, SyEntryOf
    <3> QED
      BY <2>3, <3>1, <3>2 DEF SyscallInv
  <2>4. CASE sys_exit(t, syClock + 1)
    <3> DEFINE spent == sySpent[t] + ((syClock + 1) - syThread[t].began)
               sum   == syMap[t].sum + ((syClock + 1) - syMap[t].enter)
               entry == [syMap[t] EXCEPT !.sum = sum]
    <3>1. /\ t \in DOMAIN syMap
          /\ sySpent' = [sySpent EXCEPT ![t] = spent]
          /\ \/ syMap' = [syMap EXCEPT ![t] = entry] /\ syReport' = SyNoReport
             \/ /\ entry.count >= syscalls
                /\ syMap' = Without(syMap, {t})
                /\ syReport' = [sum |-> entry.sum, spent |-> spent, count |-> entry.count,
                                late |-> t \in syLate]
      BY <2>4 DEF sys_exit
    <3>2. /\ entry \in SyEntryType /\ entry.enter = syMap[t].enter /\ entry.count <= Asked
          /\ spent \in Nat /\ entry.sum >= spent
          /\ t \notin syLate => entry.sum = spent
      <4>1. /\ syMap[t] \in SyEntryType /\ sySpent[t] \in Nat /\ syThread[t].began \in Nat
            /\ syThread[t].began <= syClock /\ syMap[t].count <= Asked
        BY <3>1 DEF SyscallInv, SyTypeOK
      <4>2. SyEntryOf(t)
        BY <3>1 DEF SyscallInv
      <4>3. /\ spent \in Nat /\ sum \in Nat /\ sum >= spent
            /\ t \notin syLate => sum = spent
        BY <2>1, <4>1, <4>2 DEF SyEntryType, SyEntryOf
      <4> HIDE DEF sum, spent
      <4> QED
        BY <4>1, <4>3, TimeTaken
    <3> HIDE DEF entry, spent, sum
    <3>3. CASE syMap' = [syMap EXCEPT ![t] = entry] /\ syReport' = SyNoReport
      <4>1. SyTypeOK' /\ SySequencesExact'
        BY <2>1, <2>2, <3>1, <3>2, <3>3 DEF SyscallInv, SyTypeOK, SySequencesExact, Asked
      <4>2. SyEntryOf(t)'
        BY <2>1, <2>2, <3>1, <3>2, <3>3 DEF SyEntryOf, SyscallInv, SyTypeOK, SyEntryType
      <4>3. ASSUME NEW x \in DOMAIN syMap, x # t PROVE SyEntryOf(x)'
        BY <2>1, <2>2, <3>1, <3>3, <4>3, EntryOfKept DEF SyscallInv, SyTypeOK
      <4> QED
        BY <3>3, <4>1, <4>2, <4>3 DEF SyscallInv
    <3>4. CASE /\ entry.count >= syscalls
               /\ syMap' = Without(syMap, {t})
               /\ syReport' = [sum |-> entry.sum, spent |-> spent, count |-> entry.count,
                               late |-> t \in syLate]
      <4>1. syMap' = [x \in DOMAIN syMap \ {t} |-> syMap[x]]
        BY <3>4 DEF Without, Restrict
      <4>2. /\ syReport'.count = Asked /\ syReport'.count <= MAX_SYSCALL_COUNT
            /\ syReport'.sum = entry.sum /\ syReport'.spent = spent
        BY <2>1, <3>2, <3>4 DEF SyEntryType, Asked
      <4>3. syReport'.late = (t \in syLate)
        BY <3>4
      <4>4. SySequencesExact'
        BY <2>1, <3>2, <4>2, <4>3 DEF SySequencesExact, Asked
      <4>5. SyTypeOK'
        BY <2>1, <2>2, <3>1, <3>2, <4>1 DEF SyscallInv, SyTypeOK, Asked
      <4>6. ASSUME NEW x \in DOMAIN syMap, x # t PROVE SyEntryOf(x)'
        <5>1. /\ syMap'[x] = syMap[x] /\ syThread'[x] = syThread[x] /\ sySpent'[x] = sySpent[x]
              /\ x \in syLate <=> x \in syLate'
          BY <2>1, <2>2, <3>1, <4>1, <4>6 DEF SyscallInv, SyTypeOK
        <5> QED
          BY <2>1, <5>1, EntryOfKept
      <4> QED
        BY <4>1, <4>4, <4>5, <4>6 DEF SyscallInv
    <3> QED
      BY <3>1, <3>3, <3>4
  <2> QED
    BY <1>2, <2>3, <2>4 DEF SyExit
<1>3. ASSUME NEW t \in SyThreads, SyReplaced(t) PROVE SyscallInv'
  <2>1. /\ syThread' = [syThread EXCEPT ![t] = [pc |-> "in", began |-> syClock]]
        /\ syLate' = syLate \cup {t} /\ syReport' = SyNoReport
        /\ UNCHANGED <<syscalls, syMap, syClock, sySpent>>
    BY <1>3 DEF SyReplaced
  <2>2. SyTypeOK' /\ SySequencesExact'
    BY <2>1 DEF SyscallInv, SyTypeOK, SySequencesExact, Asked
  <2>3. ASSUME NEW x \in DOMAIN syMap PROVE SyEntryOf(x)'
    BY <2>1 DEF SyscallInv, SyTypeOK, SyEntryType, SyEntryOf
  <2> QED
    BY <2>1, <2>2, <2>3 DEF SyscallInv
<1>4. CASE UNCHANGED syVars
  BY <1>4 DEF syVars, SyscallInv, SyTypeOK, SyEntryOf, SySequencesExact, Asked
<1> QED
  BY <1>1, <1>2, <1>3, <1>4 DEF SyscallNext

LEMMA SyscallInvHolds == SyscallSpec => []SyscallInv
  BY SyscallInvInit, SyscallInvNext, PTL DEF SyscallSpec

(* A sequence is reported with the length asked for, or one call where     *)
(* less was asked for, and with the time its calls took, or more where the *)
(* entry did not take the beginning of a call (sys_enter, sys_exit).       *)
THEOREM SequencesAreExact == SyscallSpec => []SySequencesExact
<1>1. SyscallInv => SySequencesExact
  BY DEF SyscallInv
<1> QED
  BY <1>1, SyscallInvHolds, PTL

----------------------------------------------------------------------------
(* ScheduleImage: a delay that is shown was waited by the task it is shown *)
(* for.                                                                    *)
USE ScheduleAssumption

SiTaskType  == [at : {"none", "sleep", "queue", "cpu"}, since : Nat,
                state : {"running", "sleep", "dead"}, exited : BOOLEAN]
SiEntryType == [enter : Nat, count : Nat, sum : Int, add : {"no", "yes", "missing"}]

(* Type invariant of the delays.                                           *)
SiTypeOK ==
    /\ siTask \in [SiTasks -> SiTaskType]
    /\ DOMAIN siMap \subseteq SiTasks
    /\ \A t \in DOMAIN siMap : siMap[t] \in SiEntryType
    /\ siClock \in Nat
    /\ siReal \in [SiTasks -> [count : Nat, sum : Int]]
    /\ siMissed \subseteq SiTasks
    /\ siLate \subseteq SiTasks

(* A task dies on its CPU, after its exit; one that waits with its state   *)
(* set was preempted, and its entry has missed that.                       *)
SiPlace(t) ==
    /\ siTask[t].state = "dead" => siTask[t].at = "cpu" /\ siTask[t].exited
    /\ siTask[t].at = "none" => siTask[t].state = "running"
    /\ siTask[t].at = "queue" /\ siTask[t].state = "sleep" /\ t \in DOMAIN siMap => t \in siMissed

(* The entry of a task that missed nothing agrees with its waits; that of  *)
(* a task that exited was left, or made after the exit.                    *)
SiEntryOf(t) ==
    /\ t \notin DOMAIN siMap => siReal[t] = NoWaits
    /\ t \in DOMAIN siMap /\ t \notin siMissed /\ siMap[t].add # "missing" =>
          /\ siMap[t].sum = siReal[t].sum
          /\ siMap[t].count = IF siReal[t].count = 0 THEN 1 ELSE siReal[t].count
          /\ siMap[t].add = "yes" <=> siReal[t].count > 0
          /\ Queued(t) => siMap[t].enter = siTask[t].since
    /\ t \in DOMAIN siMap /\ (siTask[t].exited \/ siTask[t].at = "none") => t \in siLate

ScheduleInv == SiTypeOK /\ \A t \in SiTasks : SiPlace(t) /\ SiEntryOf(t)

LEMMA FirstTasks ==
  ASSUME NEW r \in [at : {"sleep", "queue", "cpu"}, since : {0},
                    state : {"running", "sleep"}, exited : BOOLEAN]
  PROVE  r \in SiTaskType /\ r.at # "none" /\ r.state # "dead"
  BY DEF SiTaskType

LEMMA NoTaskType ==
  /\ NoTask \in SiTaskType /\ NoTask.at = "none" /\ NoTask.state = "running"
  /\ ~NoTask.exited
  BY DEF NoTask, SiTaskType

LEMMA ScheduleInvInit == ScheduleInit => ScheduleInv
<1> SUFFICES ASSUME ScheduleInit PROVE ScheduleInv
  OBVIOUS
<1>1. ASSUME NEW t \in SiTasks
      PROVE  /\ siTask[t] \in SiTaskType /\ siTask[t].state # "dead"
             /\ siTask[t].at = "none" => siTask[t].state = "running"
  <2>1. CASE siTask[t] = NoTask
    BY <2>1, NoTaskType
  <2>2. CASE siTask[t] \in [at : {"sleep", "queue", "cpu"}, since : {0},
                            state : {"running", "sleep"}, exited : BOOLEAN]
    BY <2>2, FirstTasks
  <2> QED
    BY <2>1, <2>2 DEF ScheduleInit
<1>2. SiTypeOK
  BY <1>1 DEF ScheduleInit, SiTypeOK, NoWaits
<1>3. \A t \in SiTasks : SiPlace(t) /\ SiEntryOf(t)
  BY <1>1 DEF ScheduleInit, SiPlace, SiEntryOf
<1> QED
  BY <1>2, <1>3 DEF ScheduleInv

(* The fields of an entry, and of a task, that a step rewrites.            *)
LEMMA EntryEntered ==
  ASSUME NEW r \in SiEntryType, NEW n \in Nat
  PROVE  LET v == [r EXCEPT !.enter = n]
         IN  /\ v \in SiEntryType /\ v.enter = n
             /\ v.count = r.count /\ v.sum = r.sum /\ v.add = r.add
  BY DEF SiEntryType

LEMMA EntryDelayed ==
  ASSUME NEW r \in SiEntryType, siClock \in Nat
  PROVE  /\ Delayed(r) \in SiEntryType
         /\ Delayed(r).count = IF r.add = "yes" THEN r.count + 1 ELSE r.count
         /\ Delayed(r).add = "yes"
         /\ Delayed(r).sum = r.sum + (now - r.enter)
<1> DEFINE count == IF r.add = "yes" THEN r.count + 1 ELSE r.count
           sum   == r.sum + (now - r.enter)
           v     == [r EXCEPT !.count = count, !.add = "yes", !.sum = sum]
<1>1. Delayed(r) = v
  BY DEF Delayed
<1>2. count \in Nat /\ sum \in Int
  BY DEF SiEntryType, now
<1> HIDE DEF count, sum
<1>3. v \in SiEntryType /\ v.count = count /\ v.add = "yes" /\ v.sum = sum
  BY <1>2 DEF SiEntryType
<1> QED
  BY <1>1, <1>3 DEF count, sum

LEMMA TaskQueued ==
  ASSUME NEW r \in SiTaskType, NEW n \in Nat
  PROVE  LET v == [r EXCEPT !.at = "queue", !.since = n]
         IN  /\ v \in SiTaskType /\ v.at = "queue" /\ v.since = n
             /\ v.state = r.state /\ v.exited = r.exited
  BY DEF SiTaskType

LEMMA TaskSwitchedIn ==
  ASSUME NEW r \in SiTaskType
  PROVE  LET v == [r EXCEPT !.at = "cpu", !.since = 0]
         IN  /\ v \in SiTaskType /\ v.at = "cpu"
             /\ v.state = r.state /\ v.exited = r.exited
  BY DEF SiTaskType

LEMMA TaskSleeps ==
  ASSUME NEW r \in SiTaskType
  PROVE  LET v == [r EXCEPT !.at = "sleep"]
         IN  /\ v \in SiTaskType /\ v.at = "sleep"
             /\ v.state = r.state /\ v.exited = r.exited
  BY DEF SiTaskType

LEMMA TaskExits ==
  ASSUME NEW r \in SiTaskType
  PROVE  LET v == [r EXCEPT !.exited = TRUE]
         IN  /\ v \in SiTaskType /\ v.at = r.at /\ v.since = r.since /\ v.state = r.state
             /\ v.exited
  BY DEF SiTaskType

(* The entry of a task that became runnable, and the maps with it.         *)
EnteredAs(r, t) ==
    /\ r.enter = now
    /\ t \in DOMAIN siMap => /\ r.sum = siMap[t].sum /\ r.count = siMap[t].count
                             /\ r.add = siMap[t].add
    /\ t \notin DOMAIN siMap => r.sum = 0 /\ r.count = 1 /\ r.add # "yes"

Entered(map, t) ==
    /\ DOMAIN siMap \subseteq DOMAIN map /\ DOMAIN map \subseteq DOMAIN siMap \cup {t}
    /\ \A x \in DOMAIN map : map[x] \in SiEntryType
    /\ \A x \in DOMAIN siMap : x # t => map[x] = siMap[x]
    /\ t \in DOMAIN map => EnteredAs(map[t], t)

LEMMA RunnableMaps ==
  ASSUME SiTypeOK, NEW t \in SiTasks, NEW map \in Runnable(t)
  PROVE  Entered(map, t)
<1>1. siClock + 1 \in Nat /\ now = siClock + 1
  BY DEF SiTypeOK, now
<1>2. CASE t \in DOMAIN siMap
  <2> DEFINE v == [siMap[t] EXCEPT !.enter = now]
  <2>1. map = [siMap EXCEPT ![t] = v]
    BY <1>2 DEF Runnable
  <2>2. siMap[t] \in SiEntryType
    BY <1>2 DEF SiTypeOK
  <2>3. /\ v \in SiEntryType /\ v.enter = now /\ v.sum = siMap[t].sum
        /\ v.count = siMap[t].count /\ v.add = siMap[t].add
    BY <1>1, <2>2, EntryEntered
  <2> HIDE DEF v
  <2> QED
    BY <1>2, <2>1, <2>3 DEF Entered, EnteredAs, SiTypeOK
<1>3. CASE t \notin DOMAIN siMap
  <2>1. CASE map = siMap
    BY <1>3, <2>1 DEF Entered, SiTypeOK
  <2>2. ASSUME NEW a \in {"no", "missing"}, map = Updated(siMap, t, NewEntry(a))
        PROVE  Entered(map, t)
    <3>1. map = [x \in DOMAIN siMap \cup {t} |-> IF x = t THEN NewEntry(a) ELSE siMap[x]]
      BY <2>2 DEF Updated
    <3>2. /\ NewEntry(a) \in SiEntryType /\ NewEntry(a).enter = now /\ NewEntry(a).sum = 0
          /\ NewEntry(a).count = 1 /\ NewEntry(a).add # "yes"
      BY <1>1, <2>2 DEF NewEntry, SiEntryType
    <3> QED
      BY <1>3, <3>1, <3>2 DEF Entered, EnteredAs, SiTypeOK
  <2> QED
    BY <1>3, <2>1, <2>2 DEF Runnable
<1> QED
  BY <1>2, <1>3

(* The entry of a task that became runnable is right again.                *)
LEMMA EntryOfRunnable ==
  ASSUME SiTypeOK, NEW t \in SiTasks, SiEntryOf(t),
         t \in DOMAIN siMap => t \in DOMAIN siMap',
         t \in DOMAIN siMap' => EnteredAs(siMap'[t], t),
         siReal'[t] = siReal[t], t \in siMissed => t \in siMissed',
         siTask'[t].at = "queue" /\ t \in DOMAIN siMap' /\ t \notin siMissed' =>
             siTask'[t].since = now,
         t \in DOMAIN siMap' /\ (siTask'[t].exited \/ siTask'[t].at = "none") => t \in siLate'
  PROVE  SiEntryOf(t)'
<1>1. t \notin DOMAIN siMap => siReal[t].count = 0 /\ siReal[t].sum = 0
  BY DEF SiEntryOf, NoWaits
<1>2. t \notin DOMAIN siMap' => siReal'[t] = NoWaits
  BY DEF SiEntryOf
<1>3. ASSUME t \in DOMAIN siMap', t \notin siMissed', siMap'[t].add # "missing"
      PROVE  /\ siMap'[t].sum = siReal'[t].sum
             /\ siMap'[t].count = IF siReal'[t].count = 0 THEN 1 ELSE siReal'[t].count
             /\ siMap'[t].add = "yes" <=> siReal'[t].count > 0
  <2>1. CASE t \in DOMAIN siMap
    BY <1>3, <2>1 DEF SiEntryOf, EnteredAs
  <2>2. CASE t \notin DOMAIN siMap
    BY <1>1, <1>3, <2>2 DEF EnteredAs
  <2> QED
    BY <2>1, <2>2
<1> QED
  BY <1>2, <1>3 DEF SiEntryOf, Queued, EnteredAs

(* What a step leaves alone stays right.                                   *)
LEMMA TaskKept ==
  ASSUME NEW t, SiPlace(t), SiEntryOf(t), siTask'[t] = siTask[t],
         t \in DOMAIN siMap' <=> t \in DOMAIN siMap,
         t \in DOMAIN siMap => siMap'[t] = siMap[t], siReal'[t] = siReal[t],
         t \in siMissed' <=> t \in siMissed, t \in siLate' <=> t \in siLate
  PROVE  SiPlace(t)' /\ SiEntryOf(t)'
  BY DEF SiPlace, SiEntryOf, Queued

LEMMA ScheduleInvNext == ScheduleInv /\ [ScheduleNext]_siVars => ScheduleInv'
<1> SUFFICES ASSUME ScheduleInv, [ScheduleNext]_siVars
             PROVE  ScheduleInv'
  OBVIOUS
<1>a. /\ SiTypeOK /\ now \in Nat /\ now = siClock + 1
      /\ \A x \in SiTasks : SiPlace(x) /\ SiEntryOf(x)
  BY DEF ScheduleInv, SiTypeOK, now
<1>b. ASSUME NEW t \in SiTasks, NEW seen \in BOOLEAN, Woken(t, seen)
      PROVE  /\ DOMAIN siMap \subseteq DOMAIN siMap' /\ DOMAIN siMap' \subseteq DOMAIN siMap \cup {t}
             /\ DOMAIN siMap' \subseteq SiTasks
             /\ \A x \in DOMAIN siMap : x # t => siMap'[x] = siMap[x]
             /\ \A x \in DOMAIN siMap' : siMap'[x] \in SiEntryType
             /\ seen /\ t \in DOMAIN siMap' => EnteredAs(siMap'[t], t)
             /\ ~seen => siMap' = siMap
  <2>1. CASE seen
    <3>1. Entered(siMap', t)
      BY <1>a, <1>b, <2>1, RunnableMaps DEF Woken
    <3> QED
      BY <1>a, <2>1, <3>1 DEF Entered, SiTypeOK
  <2>2. CASE ~seen
    <3>1. siMap' = siMap
      BY <1>b, <2>2 DEF Woken
    <3> QED
      BY <1>a, <2>2, <3>1 DEF SiTypeOK
  <2> QED
    BY <2>1, <2>2
<1>1. ASSUME NEW t \in SiTasks, SiFork(t) PROVE ScheduleInv'
  <2> DEFINE r == [NoTask EXCEPT !.at = "queue", !.since = now]
  <2>1. /\ siTask[t].at = "none" /\ siClock' = siClock + 1
        /\ siTask' = [siTask EXCEPT ![t] = r]
        /\ siReal' = [siReal EXCEPT ![t] = NoWaits]
        /\ siMissed' = siMissed \cup ({t} \cap DOMAIN siMap)
        /\ siLate' = siLate
    BY <1>1 DEF SiFork, Ticks
  <2>2. PICK seen \in BOOLEAN : Woken(t, seen)
    BY <1>1 DEF SiFork
  <2>3. r \in SiTaskType /\ r.at = "queue" /\ r.since = now /\ r.state = "running" /\ ~r.exited
    BY <1>a DEF NoTask, SiTaskType
  <2> HIDE DEF r
  <2>4. /\ siTask' \in [SiTasks -> SiTaskType] /\ siTask'[t] = r
        /\ \A x \in SiTasks : x # t => siTask'[x] = siTask[x]
    BY <1>a, <2>1, <2>3 DEF SiTypeOK
  <2>5. /\ siReal' \in [SiTasks -> [count : Nat, sum : Int]] /\ siReal'[t] = NoWaits
        /\ \A x \in SiTasks : x # t => siReal'[x] = siReal[x]
    BY <1>a, <2>1 DEF SiTypeOK, NoWaits
  <2>6. SiTypeOK'
    BY <1>a, <1>b, <2>1, <2>2, <2>4, <2>5 DEF SiTypeOK
  <2>7. SiPlace(t)'
    BY <2>3, <2>4 DEF SiPlace
  <2>8. SiEntryOf(t)'
    <3>1. CASE t \in DOMAIN siMap
      <4>1. t \in siMissed' /\ t \in DOMAIN siMap'
        BY <1>b, <2>1, <2>2, <3>1
      <4> QED
        BY <2>3, <2>4, <4>1 DEF SiEntryOf
    <3>2. CASE t \notin DOMAIN siMap
      <4>1. SiEntryOf(t) /\ siReal'[t] = siReal[t]
        BY <1>a, <2>5, <3>2 DEF SiEntryOf
      <4>2. t \in DOMAIN siMap' => EnteredAs(siMap'[t], t)
        BY <1>b, <2>2, <3>2
      <4>3. siTask'[t].since = now /\ siTask'[t].at = "queue" /\ ~siTask'[t].exited
        BY <2>3, <2>4
      <4> QED
        BY <1>a, <2>1, <3>2, <4>1, <4>2, <4>3, EntryOfRunnable
    <3> QED
      BY <3>1, <3>2
  <2>9. ASSUME NEW x \in SiTasks, x # t PROVE SiPlace(x)' /\ SiEntryOf(x)'
    <3>1. /\ x \in DOMAIN siMap' <=> x \in DOMAIN siMap
          /\ x \in DOMAIN siMap => siMap'[x] = siMap[x]
      BY <1>b, <2>2, <2>9
    <3> QED
      BY <1>a, <2>1, <2>4, <2>5, <2>9, <3>1, TaskKept
  <2> QED
    BY <2>6, <2>7, <2>8, <2>9 DEF ScheduleInv
<1>2. ASSUME NEW t \in SiTasks, SiWakeup(t) PROVE ScheduleInv'
  <2> DEFINE place == IF siTask[t].at = "sleep" THEN "queue" ELSE siTask[t].at
             since == IF siTask[t].at = "sleep" THEN now ELSE siTask[t].since
             r == [siTask[t] EXCEPT !.state = "running", !.at = place, !.since = since]
  <2>1. /\ siTask[t].state = "sleep" /\ siClock' = siClock + 1
        /\ siTask' = [siTask EXCEPT ![t] = r] /\ siReal' = siReal
    BY <1>2 DEF SiWakeup, Ticks
  <2>2. PICK seen \in BOOLEAN :
          /\ Woken(t, seen)
          /\ siMissed' = IF Queued(t) \/ (~seen /\ ~On(t))
                         THEN siMissed \union ({t} \intersect DOMAIN siMap') ELSE siMissed
          /\ siLate' = IF seen /\ siTask[t].exited THEN siLate \union {t} ELSE siLate
    BY <1>2 DEF SiWakeup
  <2>3. siTask[t] \in SiTaskType /\ SiPlace(t) /\ SiEntryOf(t)
    BY <1>a DEF SiTypeOK
  <2>4. /\ place \in {"queue", "cpu"} /\ since \in Nat
        /\ siTask[t].at \in {"sleep", "queue", "cpu"}
    BY <1>a, <2>1, <2>3 DEF SiPlace, SiTaskType
  <2>5. /\ r \in SiTaskType /\ r.state = "running" /\ r.at = place /\ r.since = since
        /\ r.exited = siTask[t].exited
    <3> HIDE DEF place, since
    <3> QED
      BY <2>3, <2>4 DEF SiTaskType
  <2> HIDE DEF r
  <2>6. /\ siTask' \in [SiTasks -> SiTaskType] /\ siTask'[t] = r
        /\ \A x \in SiTasks : x # t => siTask'[x] = siTask[x]
    BY <1>a, <2>1, <2>5 DEF SiTypeOK
  <2>7. SiTypeOK'
    BY <1>a, <1>b, <2>1, <2>2, <2>6 DEF SiTypeOK
  <2>8. SiPlace(t)'
    BY <2>4, <2>5, <2>6 DEF SiPlace
  <2>9. SiEntryOf(t)'
    <3>1. siMissed \subseteq siMissed' /\ siLate \subseteq siLate' /\ siReal'[t] = siReal[t]
      BY <2>1, <2>2
    <3>2. siTask'[t].exited = siTask[t].exited /\ siTask'[t].at = place
          /\ siTask'[t].at # "none" /\ siTask'[t].since = since
      BY <2>4, <2>5, <2>6
    <3>3. CASE seen
      <4>1. siTask'[t].at = "queue" /\ t \in DOMAIN siMap' /\ t \notin siMissed' =>
                siTask'[t].since = now
        BY <2>2, <2>4, <3>2, <3>3 DEF Queued
      <4>2. siTask'[t].exited => t \in siLate'
        BY <2>2, <3>2, <3>3
      <4>3. /\ t \in DOMAIN siMap => t \in DOMAIN siMap'
            /\ t \in DOMAIN siMap' => EnteredAs(siMap'[t], t)
        BY <1>b, <2>2, <3>3
      <4> QED
        BY <1>a, <2>3, <3>1, <3>2, <4>1, <4>2, <4>3, EntryOfRunnable
    <3>4. CASE ~seen
      <4>1. siMap' = siMap
        BY <1>b, <2>2, <3>4
      <4>2. siTask'[t].at = "queue" /\ t \in DOMAIN siMap => t \in siMissed'
        BY <2>2, <2>4, <3>2, <3>4, <4>1 DEF Queued, On
      <4> QED
        BY <2>3, <3>1, <3>2, <4>1, <4>2 DEF SiEntryOf, Queued
    <3> QED
      BY <3>3, <3>4
  <2>10. ASSUME NEW x \in SiTasks, x # t PROVE SiPlace(x)' /\ SiEntryOf(x)'
    <3>1. /\ x \in DOMAIN siMap' <=> x \in DOMAIN siMap
          /\ x \in DOMAIN siMap => siMap'[x] = siMap[x]
      BY <1>b, <2>2, <2>10
    <3>2. (x \in siMissed' <=> x \in siMissed) /\ (x \in siLate' <=> x \in siLate)
      BY <2>2, <2>10
    <3> QED
      BY <1>a, <2>1, <2>6, <2>10, <3>1, <3>2, TaskKept
  <2> QED
    BY <2>7, <2>8, <2>9, <2>10 DEF ScheduleInv
<1>3. ASSUME NEW t \in SiTasks, SiSetState(t) PROVE ScheduleInv'
  <2>1. PICK s \in {"running", "sleep", "dead"} :
          /\ siTask' = [siTask EXCEPT ![t].state = s]
          /\ s = "dead" => siTask[t].exited
    BY <1>3 DEF SiSetState
  <2> DEFINE r == [siTask[t] EXCEPT !.state = s]
  <2>2. /\ siTask[t].at = "cpu" /\ siTask' = [siTask EXCEPT ![t] = r]
        /\ UNCHANGED <<siMap, siClock, siReal, siMissed, siLate>>
    BY <1>3, <2>1 DEF SiSetState, On
  <2>3. r \in SiTaskType /\ r.at = "cpu" /\ r.exited = siTask[t].exited /\ r.state = s
    <3>1. siTask[t] \in SiTaskType
      BY <1>a DEF SiTypeOK
    <3> QED
      BY <2>2, <3>1 DEF SiTaskType
  <2> HIDE DEF r
  <2>4. /\ siTask' \in [SiTasks -> SiTaskType] /\ siTask'[t] = r
        /\ \A x \in SiTasks : x # t => siTask'[x] = siTask[x]
    BY <1>a, <2>2, <2>3 DEF SiTypeOK
  <2>5. SiTypeOK'
    BY <1>a, <2>2, <2>4 DEF SiTypeOK
  <2>6. SiPlace(t)' /\ SiEntryOf(t)'
    BY <1>a, <2>1, <2>2, <2>3, <2>4 DEF SiPlace, SiEntryOf, Queued
  <2>7. ASSUME NEW x \in SiTasks, x # t PROVE SiPlace(x)' /\ SiEntryOf(x)'
    BY <1>a, <2>2, <2>4, <2>7, TaskKept
  <2> QED
    BY <2>5, <2>6, <2>7 DEF ScheduleInv
<1>4. ASSUME NEW t \in SiTasks, SiExit(t) PROVE ScheduleInv'
  <2> DEFINE r == [siTask[t] EXCEPT !.exited = TRUE]
  <2>1. /\ siTask[t].at = "cpu" /\ siTask' = [siTask EXCEPT ![t] = r] /\ siClock' = siClock
        /\ siTask[t].state = "running"
    BY <1>4 DEF SiExit, On
  <2>2. r \in SiTaskType /\ r.at = "cpu" /\ r.exited /\ r.state = "running"
    BY <1>a, <2>1, TaskExits DEF SiTypeOK
  <2> HIDE DEF r
  <2>3. /\ siTask' \in [SiTasks -> SiTaskType] /\ siTask'[t] = r
        /\ \A x \in SiTasks : x # t => siTask'[x] = siTask[x]
    BY <1>a, <2>1, <2>2 DEF SiTypeOK
  <2>4. CASE /\ siMap' = Without(siMap, {t})
             /\ siReal' = [siReal EXCEPT ![t] = NoWaits]
             /\ siMissed' = siMissed \ {t} /\ siLate' = siLate \ {t}
    <3>1. siMap' = [x \in DOMAIN siMap \ {t} |-> siMap[x]]
      BY <2>4 DEF Without, Restrict
    <3>2. /\ siReal' \in [SiTasks -> [count : Nat, sum : Int]] /\ siReal'[t] = NoWaits
          /\ \A x \in SiTasks : x # t => siReal'[x] = siReal[x]
      BY <1>a, <2>4 DEF SiTypeOK, NoWaits
    <3>3. SiTypeOK'
      BY <1>a, <2>1, <2>3, <2>4, <3>1, <3>2 DEF SiTypeOK
    <3>4. SiPlace(t)' /\ SiEntryOf(t)'
      BY <2>2, <2>3, <3>1, <3>2 DEF SiPlace, SiEntryOf
    <3>5. ASSUME NEW x \in SiTasks, x # t PROVE SiPlace(x)' /\ SiEntryOf(x)'
      BY <1>a, <2>3, <2>4, <3>1, <3>2, <3>5, TaskKept
    <3> QED
      BY <3>3, <3>4, <3>5 DEF ScheduleInv
  <2>5. CASE siLate' = siLate \cup {t} /\ UNCHANGED <<siMap, siReal, siMissed>>
    <3>1. SiTypeOK'
      BY <1>a, <2>1, <2>3, <2>5 DEF SiTypeOK
    <3>2. SiPlace(t)' /\ SiEntryOf(t)'
      BY <1>a, <2>2, <2>3, <2>5 DEF SiPlace, SiEntryOf, Queued
    <3>3. ASSUME NEW x \in SiTasks, x # t PROVE SiPlace(x)' /\ SiEntryOf(x)'
      BY <1>a, <2>3, <2>5, <3>3, TaskKept
    <3> QED
      BY <3>1, <3>2, <3>3 DEF ScheduleInv
  <2> QED
    BY <1>4, <2>4, <2>5 DEF SiExit
<1>5. ASSUME NEW p \in SiTasks \union {Absent}, NEW n \in SiTasks \union {Absent},
             NEW preempt \in BOOLEAN, SiSwitch(p, n, preempt)
      PROVE  ScheduleInv'
  <2>1. /\ p # n
        /\ p # Absent => p \in SiTasks /\ siTask[p].at = "cpu"
        /\ p = Absent => ~preempt
        /\ n # Absent => n \in SiTasks /\ siTask[n].at = "queue"
        /\ preempt => p # Absent /\ siTask[p].state # "dead"
        /\ siClock' = siClock + 1
    BY <1>5 DEF SiSwitch, Ticks, On, Queued
  <2>2. siTask' = [t \in SiTasks |->
                     IF t = p THEN PrevGoes(p, preempt)
                     ELSE IF t = n THEN [siTask[n] EXCEPT !.at = "cpu", !.since = 0]
                     ELSE siTask[t]]
    BY <1>5 DEF SiSwitch
  <2>3. siReal' = [t \in SiTasks |->
                     IF t = n /\ t \in DOMAIN siMap
                     THEN [count |-> siReal[t].count + 1,
                           sum |-> siReal[t].sum + (now - siTask[t].since)]
                     ELSE siReal[t]]
    BY <1>5 DEF SiSwitch
  <2>4. PICK seen \in BOOLEAN :
          IF seen
          THEN /\ sched_switch(p, n)
               /\ siMissed' = IF Waits(p, preempt) /\ siTask[p].state # "running"
                              THEN siMissed \union ({p} \intersect DOMAIN siMap) ELSE siMissed
               /\ siLate' = IF Waits(p, FALSE) /\ siTask[p].exited THEN siLate \union {p}
                            ELSE siLate
          ELSE /\ siMap' = siMap
               /\ siMissed' = siMissed \union
                      ({t \in SiTasks : t = n \/ (t = p /\ Waits(p, preempt))} \intersect DOMAIN siMap)
               /\ siLate' = siLate
    BY <1>5 DEF SiSwitch
  (* Where prev goes.                                                      *)
  <2>5. ASSUME p # Absent
        PROVE  /\ siTask'[p] \in SiTaskType
               /\ IF Waits(p, preempt)
                  THEN /\ siTask'[p].at = "queue" /\ siTask'[p].since = now
                       /\ siTask'[p].state = siTask[p].state
                       /\ siTask'[p].exited = siTask[p].exited
                  ELSE IF siTask[p].state = "dead"
                  THEN siTask'[p].at = "none" /\ siTask'[p].state = "running" /\ ~siTask'[p].exited
                  ELSE /\ siTask'[p].at = "sleep" /\ siTask'[p].state = "sleep"
                       /\ siTask'[p].exited = siTask[p].exited
    <3>1. siTask[p] \in SiTaskType /\ siTask'[p] = PrevGoes(p, preempt)
      BY <1>a, <2>1, <2>2, <2>5 DEF SiTypeOK
    <3>2. CASE Waits(p, preempt)
      <4> DEFINE v == [siTask[p] EXCEPT !.at = "queue", !.since = now]
      <4>1. /\ v \in SiTaskType /\ v.at = "queue" /\ v.since = now
            /\ v.state = siTask[p].state /\ v.exited = siTask[p].exited
        BY <1>a, <3>1, TaskQueued
      <4>2. siTask'[p] = v
        BY <3>1, <3>2 DEF PrevGoes
      <4> HIDE DEF v
      <4> QED
        BY <3>2, <4>1, <4>2
    <3>3. CASE ~Waits(p, preempt) /\ siTask[p].state = "dead"
      BY <3>1, <3>3, NoTaskType DEF PrevGoes
    <3>4. CASE ~Waits(p, preempt) /\ siTask[p].state # "dead"
      <4> DEFINE v == [siTask[p] EXCEPT !.at = "sleep"]
      <4>1. /\ v \in SiTaskType /\ v.at = "sleep"
            /\ v.state = siTask[p].state /\ v.exited = siTask[p].exited
        BY <3>1, TaskSleeps
      <4>2. siTask'[p] = v
        BY <3>1, <3>4 DEF PrevGoes
      <4>3. siTask[p].state = "sleep"
        BY <2>5, <3>1, <3>4 DEF Waits, SiTaskType
      <4> HIDE DEF v
      <4> QED
        BY <3>4, <4>1, <4>2, <4>3
    <3> QED
      BY <3>2, <3>3, <3>4
  (* Where next goes.                                                      *)
  <2>6. ASSUME n # Absent
        PROVE  /\ siTask'[n] \in SiTaskType
               /\ siTask'[n].at = "cpu" /\ siTask'[n].state = siTask[n].state
               /\ siTask'[n].exited = siTask[n].exited
    <3>1. siTask[n] \in SiTaskType
          /\ siTask'[n] = [siTask[n] EXCEPT !.at = "cpu", !.since = 0]
      BY <1>a, <2>1, <2>2, <2>6 DEF SiTypeOK
    <3> QED
      BY <3>1, TaskSwitchedIn
  <2>7. /\ \A x \in SiTasks : x # p /\ x # n => siTask'[x] = siTask[x]
        /\ siTask' \in [SiTasks -> SiTaskType]
    <3>1. \A x \in SiTasks : x # p /\ x # n => siTask'[x] = siTask[x]
      BY <2>2
    <3>2. \A x \in SiTasks : siTask'[x] \in SiTaskType
      BY <1>a, <2>1, <2>5, <2>6, <3>1 DEF SiTypeOK
    <3> QED
      BY <2>2, <3>1, <3>2
  (* What the probe does to the map.                                       *)
  <2>8. ASSUME seen
        PROVE  /\ DOMAIN siMap \subseteq DOMAIN siMap'
               /\ DOMAIN siMap' \subseteq DOMAIN siMap
                                  \cup {x \in SiTasks : x = p /\ siTask[x].state = "running"}
               /\ \A x \in DOMAIN siMap : x # p /\ x # n => siMap'[x] = siMap[x]
               /\ p \in DOMAIN siMap' => IF siTask[p].state = "running" THEN EnteredAs(siMap'[p], p)
                                         ELSE siMap'[p] = siMap[p]
               /\ n \in DOMAIN siMap => siMap'[n] = IF siMap[n].add = "missing" THEN siMap[n]
                                                    ELSE Delayed(siMap[n])
               /\ \A x \in DOMAIN siMap' : siMap'[x] \in SiEntryType
    <3>1. PICK map \in AfterPrev(p) : siMap' = AfterNext(map, n)
      BY <2>4, <2>8 DEF sched_switch
    <3>2. /\ DOMAIN siMap \subseteq DOMAIN map
          /\ DOMAIN map \subseteq DOMAIN siMap
                             \cup {x \in SiTasks : x = p /\ siTask[x].state = "running"}
          /\ \A x \in DOMAIN siMap : x # p => map[x] = siMap[x]
          /\ p \in DOMAIN map => IF siTask[p].state = "running" THEN EnteredAs(map[p], p)
                                 ELSE map[p] = siMap[p]
          /\ \A x \in DOMAIN map : map[x] \in SiEntryType
      <4>1. CASE p # Absent /\ siTask[p].state = "running"
        <5>1. Entered(map, p) /\ p \in SiTasks
          BY <1>a, <2>1, <3>1, <4>1, RunnableMaps DEF AfterPrev
        <5> QED
          BY <4>1, <5>1 DEF Entered
      <4>2. CASE ~(p # Absent /\ siTask[p].state = "running")
        <5>1. map = siMap
          BY <3>1, <4>2 DEF AfterPrev
        <5>2. p \in DOMAIN siMap => p # Absent
          BY <1>a DEF SiTypeOK
        <5> QED
          BY <1>a, <4>2, <5>1, <5>2 DEF SiTypeOK
      <4> QED
        BY <4>1, <4>2
    <3>3. n \in DOMAIN map <=> n \in DOMAIN siMap
      BY <2>1, <3>2
    <3>4. CASE n \in DOMAIN map /\ map[n].add # "missing"
      <4>1. siMap' = [map EXCEPT ![n] = Delayed(map[n])]
        BY <3>1, <3>4 DEF AfterNext
      <4>2. Delayed(siMap[n]) \in SiEntryType /\ map[n] = siMap[n]
        BY <1>a, <2>1, <3>2, <3>3, <3>4, EntryDelayed DEF SiTypeOK
      <4>3. /\ DOMAIN siMap' = DOMAIN map /\ siMap'[n] = Delayed(siMap[n])
            /\ \A x \in DOMAIN map : x # n => siMap'[x] = map[x]
        BY <3>4, <4>1, <4>2
      <4> QED
        BY <2>1, <3>2, <3>3, <3>4, <4>2, <4>3
    <3>5. CASE ~(n \in DOMAIN map /\ map[n].add # "missing")
      <4>1. siMap' = map
        BY <3>1, <3>5 DEF AfterNext
      <4> QED
        BY <2>1, <3>2, <3>3, <3>5, <4>1
    <3> QED
      BY <3>4, <3>5
  <2>9. /\ siReal' \in [SiTasks -> [count : Nat, sum : Int]]
        /\ \A x \in SiTasks : x # n => siReal'[x] = siReal[x]
        /\ n \in DOMAIN siMap => /\ siReal'[n].count = siReal[n].count + 1
                                /\ siReal'[n].sum = siReal[n].sum + (now - siTask[n].since)
        /\ n \in SiTasks /\ n \notin DOMAIN siMap => siReal'[n] = siReal[n]
    <3>1. \A x \in SiTasks : siTask[x].since \in Nat /\ siReal[x] \in [count : Nat, sum : Int]
      BY <1>a DEF SiTypeOK, SiTaskType
    <3>2. DOMAIN siMap \subseteq SiTasks
      BY <1>a DEF SiTypeOK
    <3> QED
      BY <1>a, <2>3, <3>1, <3>2
  <2>10. SiTypeOK'
    <3>1. DOMAIN siMap' \subseteq SiTasks /\ \A x \in DOMAIN siMap' : siMap'[x] \in SiEntryType
      <4>1. CASE seen
        BY <1>a, <2>8, <4>1 DEF SiTypeOK
      <4>2. CASE ~seen
        BY <1>a, <2>4, <4>2 DEF SiTypeOK
      <4> QED
        BY <4>1, <4>2
    <3>2. siMissed' \subseteq SiTasks /\ siLate' \subseteq SiTasks
      BY <1>a, <2>1, <2>4 DEF SiTypeOK, Waits
    <3> QED
      BY <1>a, <2>1, <2>7, <2>9, <3>1, <3>2 DEF SiTypeOK
  <2>11. ASSUME p # Absent PROVE SiPlace(p)' /\ SiEntryOf(p)'
    <3>1. SiPlace(p) /\ SiEntryOf(p) /\ p \in SiTasks /\ p # n /\ siReal'[p] = siReal[p]
      BY <1>a, <2>1, <2>9, <2>11
    <3>2. siMissed \subseteq siMissed' /\ siLate \subseteq siLate'
      BY <2>4
    <3>3. /\ siTask'[p].at = "none" => siTask[p].exited
          /\ siTask'[p].exited => siTask[p].exited
      BY <2>5, <2>11, <3>1 DEF SiPlace
    <3>4. CASE seen /\ siTask[p].state = "running"
      <4>1. /\ p \in DOMAIN siMap => p \in DOMAIN siMap'
            /\ p \in DOMAIN siMap' => EnteredAs(siMap'[p], p)
        BY <2>8, <3>4
      <4>2. /\ siTask'[p].since = now /\ siTask'[p].at = "queue" /\ siTask'[p].state = "running"
            /\ siTask[p].exited => p \in siLate'
        BY <2>4, <2>5, <2>11, <3>4 DEF Waits
      <4>3. SiPlace(p)'
        BY <4>2 DEF SiPlace
      <4> QED
        BY <1>a, <3>1, <3>2, <3>3, <4>1, <4>2, <4>3, EntryOfRunnable
    <3>5. CASE ~(seen /\ siTask[p].state = "running")
      <4>1. /\ p \in DOMAIN siMap' <=> p \in DOMAIN siMap
            /\ p \in DOMAIN siMap => siMap'[p] = siMap[p]
        BY <2>4, <2>8, <3>1, <3>5
      <4>2. siTask'[p].at = "queue" /\ p \in DOMAIN siMap => p \in siMissed'
        BY <2>4, <2>5, <2>11, <3>1, <3>5
      <4>3. SiPlace(p)'
        BY <2>1, <2>5, <2>11, <3>1, <4>1, <4>2 DEF SiPlace, Waits
      <4> QED
        BY <3>1, <3>2, <3>3, <4>1, <4>2, <4>3 DEF SiEntryOf, Queued
    <3> QED
      BY <3>4, <3>5
  <2>12. ASSUME n # Absent PROVE SiPlace(n)' /\ SiEntryOf(n)'
    <3>1. SiPlace(n) /\ SiEntryOf(n) /\ n \in SiTasks /\ Queued(n) /\ p # n
      BY <1>a, <2>1, <2>12 DEF Queued
    <3>2. SiPlace(n)' /\ ~Queued(n)'
      BY <2>6, <2>12, <3>1 DEF SiPlace, Queued
    <3>3. /\ n \in DOMAIN siMap' <=> n \in DOMAIN siMap
          /\ siMissed \subseteq siMissed' /\ siLate \subseteq siLate'
      BY <2>1, <2>4, <2>8, <3>1
    <3>4. siTask'[n].at # "none" /\ (siTask'[n].exited => siTask[n].exited)
      BY <2>6, <2>12
    <3>5. CASE n \notin DOMAIN siMap
      <4>1. siReal'[n] = siReal[n] /\ n \notin DOMAIN siMap'
        BY <2>9, <3>1, <3>3, <3>5
      <4> QED
        BY <3>1, <3>2, <3>5, <4>1 DEF SiEntryOf
    <3>6. CASE n \in DOMAIN siMap /\ seen
      <4>1. /\ siMap[n] \in SiEntryType /\ siReal[n] \in [count : Nat, sum : Int]
            /\ siTask[n].since \in Nat
        BY <1>a, <3>1, <3>6 DEF SiTypeOK, SiTaskType
      <4>2. siMap[n].add # "missing" =>
               /\ siMap'[n].count = IF siMap[n].add = "yes" THEN siMap[n].count + 1
                                    ELSE siMap[n].count
               /\ siMap'[n].add = "yes"
               /\ siMap'[n].sum = siMap[n].sum + (now - siMap[n].enter)
        BY <1>a, <2>8, <3>6, <4>1, EntryDelayed DEF SiTypeOK
      <4>3. /\ siReal'[n].count = siReal[n].count + 1
            /\ siReal'[n].sum = siReal[n].sum + (now - siTask[n].since)
        BY <2>9, <3>6
      <4>4. ASSUME n \notin siMissed', siMap'[n].add # "missing"
            PROVE  /\ siMap'[n].sum = siReal'[n].sum
                   /\ siMap'[n].count = IF siReal'[n].count = 0 THEN 1 ELSE siReal'[n].count
                   /\ siMap'[n].add = "yes" <=> siReal'[n].count > 0
        <5>1. siMap[n].add # "missing" /\ n \notin siMissed
          BY <2>8, <3>3, <3>6, <4>4
        <5>2. /\ siMap[n].sum = siReal[n].sum
              /\ siMap[n].count = IF siReal[n].count = 0 THEN 1 ELSE siReal[n].count
              /\ siMap[n].add = "yes" <=> siReal[n].count > 0
              /\ siMap[n].enter = siTask[n].since
          BY <3>1, <3>6, <5>1 DEF SiEntryOf
        <5> QED
          BY <4>1, <4>2, <4>3, <5>1, <5>2
      <4> QED
        BY <3>1, <3>2, <3>3, <3>4, <3>6, <4>4 DEF SiEntryOf
    <3>7. CASE n \in DOMAIN siMap /\ ~seen
      <4>1. n \in siMissed'
        BY <2>4, <3>1, <3>7
      <4> QED
        BY <3>1, <3>2, <3>3, <3>4, <3>7, <4>1 DEF SiEntryOf
    <3> QED
      BY <3>5, <3>6, <3>7
  <2>13. ASSUME NEW x \in SiTasks, x # p, x # n PROVE SiPlace(x)' /\ SiEntryOf(x)'
    <3>1. /\ x \in DOMAIN siMap' <=> x \in DOMAIN siMap
          /\ x \in DOMAIN siMap => siMap'[x] = siMap[x]
      BY <2>4, <2>8, <2>13
    <3>2. /\ siTask'[x] = siTask[x] /\ siReal'[x] = siReal[x]
          /\ x \in siMissed' <=> x \in siMissed
          /\ x \in siLate' <=> x \in siLate
      BY <2>4, <2>7, <2>9, <2>13
    <3> QED
      BY <1>a, <3>1, <3>2, TaskKept
  <2> QED
    BY <2>1, <2>10, <2>11, <2>12, <2>13 DEF ScheduleInv
<1>6. CASE UNCHANGED siVars
  BY <1>6 DEF siVars, ScheduleInv, SiTypeOK, SiPlace, SiEntryOf, Queued
<1> QED
  BY <1>1, <1>2, <1>3, <1>4, <1>5, <1>6 DEF ScheduleNext

LEMMA ScheduleInvHolds == ScheduleSpec => []ScheduleInv
  BY ScheduleInvInit, ScheduleInvNext, PTL DEF ScheduleSpec

(* The entry of every task has the sum and the number of its waits, unless *)
(* it missed one of its events or took over another's entry, and a task    *)
(* that is gone leaves none unless its exit was not seen or it became      *)
(* runnable after it (sched_wakeup, sched_switch, sched_process_exit).     *)
THEOREM DelaysAreExact == ScheduleSpec => []SiDelaysExact
<1>1. ScheduleInv => SiDelaysExact
  BY DEF ScheduleInv, SiTypeOK, SiEntryOf, SiDelaysExact
<1> QED
  BY <1>1, ScheduleInvHolds, PTL

----------------------------------------------------------------------------
(* IoTracing: an owner is charged for each of its requests once.           *)
USE IoAssumption

IoRequestType == [nr : Nat, sector : Sectors, owner : Owners, meta : BOOLEAN]
IoChargeType  == [pc : {"load", "store"}, sector : Sectors, owner : Owners,
                  gen : Nat, count : Nat]

(* What a program has in hand, at each of its steps.                       *)
IoProgramOK(p) ==
    /\ p.pc \in {"idle", "read", "load", "store", "delete", "insert"}
    /\ p.pc = "idle" => p = IoIdle
    /\ p.pc = "read" => p.sector \in Sectors /\ p.nr \in Nat
    /\ p.pc \in {"load", "store"} => p \in IoChargeType
    /\ p.pc = "delete" => p.sector \in Sectors
    /\ p.pc = "insert" => p.owner \in Owners /\ p.gen = 0

(* Type invariant of the accounting.                                       *)
IoTypeOK ==
    /\ ioRequests \subseteq IoRequestType
    /\ DOMAIN ioStart \subseteq Sectors /\ IsFiniteSet(DOMAIN ioStart)
    /\ \A s \in DOMAIN ioStart : ioStart[s].owner \in Owners /\ ioStart[s].nr \in Nat
    /\ ioSource \in [Owners -> [gen : Nat, count : Nat]]
    /\ DOMAIN ioProgram = IoCpus
    /\ \A c \in IoCpus : IoProgramOK(ioProgram[c])
    /\ ioIssued \in Nat
    /\ ioRecorded \in [Owners -> Nat]
    /\ ioFinished \in [Owners -> Nat]
    /\ ioShared \subseteq Owners
    /\ ioOverlapped \in BOOLEAN
    /\ ioTorn \in BOOLEAN

(* Without overlap a completion has its sector to itself, and the record   *)
(* under it is there until the completion deletes it.                      *)
IoAt(c) == ioProgram[c].pc \in {"read", "load", "store", "delete"}

IoApart ==
    \A c \in IoCpus : IoAt(c) =>
       /\ ioProgram[c].sector \in DOMAIN ioStart
       /\ ioProgram[c].pc = "read" => ioStart[ioProgram[c].sector].nr = ioProgram[c].nr
       /\ \A d \in IoCpus : d # c /\ IoAt(d) => ioProgram[d].sector # ioProgram[c].sector

(* The sectors for which an owner may still be charged: those that wait    *)
(* under its name, and those whose completion has read it.                 *)
Chargeable(o) ==
    {s \in DOMAIN ioStart :
       \/ /\ ioStart[s].owner = o
          /\ ~\E c \in IoCpus : ioProgram[c].pc = "delete" /\ ioProgram[c].sector = s
       \/ \E c \in IoCpus : /\ ioProgram[c].pc \in {"load", "store"}
                            /\ ioProgram[c].sector = s /\ ioProgram[c].owner = o}

(* What was counted and what may be, together, was recorded.               *)
IoBalance ==
    \A o \in Owners : ioFinished[o] + Cardinality(Chargeable(o)) =< ioRecorded[o]

(* The elements the programs point to: an element no one else works for is *)
(* the one in the map, and so is every one that was found there, as long   *)
(* as none was torn.                                                       *)
IoElements ==
    /\ \A o \in Owners : ioSource[o].gen = 0 => ioSource[o].count = 0 /\ ioFinished[o] = 0
    /\ \A c, d \in IoCpus, o \in Owners : WorksFor(c, o) /\ WorksFor(d, o) /\ c # d => o \in ioShared
    /\ \A c \in IoCpus : ioProgram[c].pc \in {"load", "store", "insert"} =>
          /\ ioProgram[c].gen <= ioSource[ioProgram[c].owner].gen
          /\ ioProgram[c].owner \notin ioShared => InMap(c)
          /\ ~ioTorn /\ ioProgram[c].gen # 0 => InMap(c)

(* What is in the entry of an owner, or in the hands of a program that     *)
(* will store it there, was counted.                                       *)
IoCounts ==
    /\ \A o \in Owners : /\ ioSource[o].count =< ioFinished[o]
                         /\ o \notin ioShared => ioSource[o].count = ioFinished[o]
    /\ \A c \in IoCpus : ioProgram[c].pc = "store" =>
          /\ ioProgram[c].count =< ioFinished[ioProgram[c].owner] + 1
          /\ ioProgram[c].owner \notin ioShared =>
                ioProgram[c].count = ioFinished[ioProgram[c].owner] + 1

IoInv ==
    /\ IoTypeOK
    /\ IoElements
    /\ ~ioOverlapped => IoApart /\ IoBalance
    /\ ~ioTorn => IoCounts

LEMMA ChargeableFinite ==
  ASSUME IoTypeOK, NEW o
  PROVE  IsFiniteSet(Chargeable(o)) /\ Cardinality(Chargeable(o)) \in Nat
<1>1. Chargeable(o) \subseteq DOMAIN ioStart /\ IsFiniteSet(DOMAIN ioStart)
  BY DEF Chargeable, IoTypeOK
<1> HIDE DEF Chargeable
<1>2. IsFiniteSet(Chargeable(o))
  BY <1>1, FS_Subset
<1> QED
  BY <1>2, FS_CardinalityType

(* A sector that is no longer chargeable leaves room for what is.          *)
LEMMA BalanceKept ==
  ASSUME IoTypeOK, IoBalance, ioFinished' = ioFinished, ioRecorded' = ioRecorded,
         \A o \in Owners : Chargeable(o)' \subseteq Chargeable(o)
  PROVE  IoBalance'
<1> SUFFICES ASSUME NEW o \in Owners
             PROVE  ioFinished'[o] + Cardinality(Chargeable(o)') =< ioRecorded'[o]
  BY DEF IoBalance
<1>1. IsFiniteSet(Chargeable(o)) /\ Cardinality(Chargeable(o)) \in Nat
  BY ChargeableFinite
<1>2. IsFiniteSet(Chargeable(o)')
  BY <1>1, FS_Subset
<1>3. /\ Cardinality(Chargeable(o)') =< Cardinality(Chargeable(o))
      /\ Cardinality(Chargeable(o)') \in Nat
  BY <1>1, <1>2, FS_Subset, FS_CardinalityType
<1>4. /\ ioFinished[o] \in Nat /\ ioRecorded[o] \in Nat
      /\ ioFinished[o] + Cardinality(Chargeable(o)) =< ioRecorded[o]
  BY DEF IoTypeOK, IoBalance
<1> QED
  BY <1>1, <1>3, <1>4

LEMMA IoInvInit == IoInit => IoInv
<1> SUFFICES ASSUME IoInit PROVE IoInv
  OBVIOUS
<1>1. IsFiniteSet(DOMAIN ioStart) /\ DOMAIN ioStart = {}
  BY FS_EmptySet DEF IoInit
<1>2. \A c \in IoCpus : ioProgram[c] = IoIdle /\ ioProgram[c].pc = "idle"
  BY DEF IoInit, IoIdle
<1>3. \A o \in Owners : /\ ioSource[o].gen = 0 /\ ioSource[o].count = 0
                        /\ ioFinished[o] = 0 /\ ioRecorded[o] = 0
  BY DEF IoInit
<1>4. IoTypeOK
  BY <1>1, <1>2 DEF IoInit, IoTypeOK, IoProgramOK
<1>5. IoApart /\ IoElements /\ IoCounts
  BY <1>2, <1>3 DEF IoApart, IoAt, IoElements, WorksFor, IoCounts
<1>6. IoBalance
  <2> SUFFICES ASSUME NEW o \in Owners
               PROVE  ioFinished[o] + Cardinality(Chargeable(o)) =< ioRecorded[o]
    BY DEF IoBalance
  <2>1. Chargeable(o) = {}
    BY <1>1 DEF Chargeable
  <2>2. Cardinality({}) = 0
    BY FS_EmptySet
  <2> QED
    BY <1>3, <2>1, <2>2
<1> QED
  BY <1>4, <1>5, <1>6 DEF IoInv

(* A request is recorded, over what was under its sector.                  *)
LEMMA IssueRecorded ==
  ASSUME IoInv, NEW s \in Sectors, NEW w \in Owners, NEW n \in Nat,
         ioRequests' \subseteq IoRequestType, ioIssued' \in Nat,
         ioStart' = Updated(ioStart, s, [owner |-> w, nr |-> n]),
         ioRecorded' = [ioRecorded EXCEPT ![w] = @ + 1],
         ioOverlapped' = (ioOverlapped \/ Finding(s)),
         UNCHANGED <<ioSource, ioProgram, ioFinished, ioShared, ioTorn>>
  PROVE  IoInv'
<1>1. /\ DOMAIN ioStart' = DOMAIN ioStart \cup {s}
      /\ ioStart'[s].owner = w /\ ioStart'[s].nr = n
      /\ \A t \in DOMAIN ioStart : t # s => ioStart'[t] = ioStart[t]
  BY DEF Updated
<1>2. /\ ioRecorded' \in [Owners -> Nat] /\ ioRecorded'[w] = ioRecorded[w] + 1
      /\ \A o \in Owners : o # w => ioRecorded'[o] = ioRecorded[o]
  BY DEF IoInv, IoTypeOK
<1>3. IoTypeOK'
  <2>1. IsFiniteSet(DOMAIN ioStart')
    <3>1. IsFiniteSet(DOMAIN ioStart)
      BY DEF IoInv, IoTypeOK
    <3>2. IsFiniteSet(DOMAIN ioStart \cup {s})
      BY <3>1, FS_AddElement
    <3> QED
      BY <1>1, <3>2
  <2>2. \A t \in DOMAIN ioStart' : ioStart'[t].owner \in Owners /\ ioStart'[t].nr \in Nat
    BY <1>1 DEF IoInv, IoTypeOK
  <2> QED
    BY <1>1, <1>2, <2>1, <2>2 DEF IoInv, IoTypeOK
<1>4. IoElements' /\ (~ioTorn' => IoCounts')
  BY DEF IoInv, IoElements, WorksFor, InMap, IoCounts
<1>5. ASSUME ~ioOverlapped' PROVE IoApart' /\ IoBalance'
  <2>a. IoTypeOK /\ IoApart /\ IoBalance /\ ~Finding(s)
    BY <1>5 DEF IoInv
  <2>1. IoApart'
    BY <1>1, <2>a DEF IoApart, IoAt, Finding
  <2>2. ASSUME NEW o \in Owners, o # w PROVE Chargeable(o)' \subseteq Chargeable(o)
    <3> SUFFICES ASSUME NEW t \in Chargeable(o)' PROVE t \in Chargeable(o)
      OBVIOUS
    <3>1. CASE t = s
      <4>1. ioStart'[t].owner # o
        BY <1>1, <2>2, <3>1
      <4>2. PICK c \in IoCpus : /\ ioProgram[c].pc \in {"load", "store"}
                                /\ ioProgram[c].sector = t /\ ioProgram[c].owner = o
        BY <4>1 DEF Chargeable
      <4>3. t \in DOMAIN ioStart
        BY <2>a, <4>2 DEF IoApart, IoAt
      <4> QED
        BY <4>2, <4>3 DEF Chargeable
    <3>2. CASE t # s
      BY <1>1, <3>2 DEF Chargeable
    <3> QED
      BY <3>1, <3>2
  <2>3. Chargeable(w)' \subseteq Chargeable(w) \cup {s}
    BY <1>1 DEF Chargeable
  <2>4. /\ Cardinality(Chargeable(w)') =< Cardinality(Chargeable(w)) + 1
        /\ Cardinality(Chargeable(w)) \in Nat /\ Cardinality(Chargeable(w)') \in Nat
    <3> DEFINE A == Chargeable(w)
               B == Chargeable(w)'
    <3>1. IsFiniteSet(A) /\ Cardinality(A) \in Nat
      BY <2>a, ChargeableFinite
    <3>2. B \subseteq A \cup {s}
      BY <2>3
    <3> HIDE DEF A, B
    <3>4. /\ IsFiniteSet(A \cup {s})
          /\ Cardinality(A \cup {s}) = Cardinality(A) \/ Cardinality(A \cup {s}) = Cardinality(A) + 1
      BY <3>1, FS_AddElement
    <3>5. Cardinality(B) =< Cardinality(A \cup {s}) /\ Cardinality(B) \in Nat
      BY <3>2, <3>4, FS_Subset, FS_CardinalityType
    <3>6. Cardinality(B) =< Cardinality(A) + 1
      BY <3>1, <3>4, <3>5
    <3> QED
      BY <3>1, <3>5, <3>6 DEF A, B
  <2>5. ASSUME NEW o \in Owners, o # w
        PROVE  /\ Cardinality(Chargeable(o)) \in Nat /\ Cardinality(Chargeable(o)') \in Nat
               /\ Cardinality(Chargeable(o)') =< Cardinality(Chargeable(o))
    <3>1. IsFiniteSet(Chargeable(o)) /\ Cardinality(Chargeable(o)) \in Nat
      BY <2>a, ChargeableFinite
    <3> QED
      BY <2>2, <2>5, <3>1, FS_Subset, FS_CardinalityType
  <2>6. \A o \in Owners : ioFinished[o] \in Nat /\ ioRecorded[o] \in Nat
    BY <2>a DEF IoTypeOK
  <2>7. IoBalance'
    <3> SUFFICES ASSUME NEW o \in Owners
                 PROVE  ioFinished'[o] + Cardinality(Chargeable(o)') =< ioRecorded'[o]
      BY DEF IoBalance
    <3>1. ioFinished[o] + Cardinality(Chargeable(o)) =< ioRecorded[o]
      BY <2>a DEF IoBalance
    <3>2. CASE o = w
      BY <1>2, <2>4, <2>6, <3>1, <3>2
    <3>3. CASE o # w
      BY <1>2, <2>5, <2>6, <3>1, <3>3
    <3> QED
      BY <3>2, <3>3
  <2> QED
    BY <2>1, <2>7
<1> QED
  BY <1>3, <1>4, <1>5 DEF IoInv

(* Nothing but the list of requests changes.                               *)
LEMMA IssueLeft ==
  ASSUME IoInv, ioRequests' \subseteq IoRequestType, ioIssued' \in Nat,
         UNCHANGED <<ioStart, ioRecorded, ioSource, ioProgram, ioFinished, ioShared,
                     ioOverlapped, ioTorn>>
  PROVE  IoInv'
<1>1. IoTypeOK'
  BY DEF IoInv, IoTypeOK
<1>2. \A o : Chargeable(o)' = Chargeable(o)
  BY DEF Chargeable
<1>3. IoElements' /\ (~ioTorn' => IoCounts')
  BY DEF IoInv, IoElements, WorksFor, InMap, IoCounts
<1>4. ~ioOverlapped' => IoApart' /\ IoBalance'
  BY <1>2 DEF IoInv, IoApart, IoAt, IoBalance
<1> QED
  BY <1>1, <1>3, <1>4 DEF IoInv

LEMMA IssueHandled ==
  ASSUME IoInv, NEW r \in IoRequestType, rq_qos_issue(r),
         ioRequests' \subseteq IoRequestType, ioIssued' \in Nat,
         UNCHANGED <<ioSource, ioProgram, ioFinished, ioShared, ioTorn>>
  PROVE  IoInv'
<1>1. r.sector \in Sectors /\ r.owner \in Owners /\ ioIssued + 1 \in Nat
  BY DEF IoRequestType, IoInv, IoTypeOK
<1>2. CASE UNCHANGED <<ioStart, ioRecorded, ioOverlapped>>
  BY <1>2, IssueLeft
<1>3. CASE /\ ioStart' = Updated(ioStart, r.sector, [owner |-> r.owner, nr |-> ioIssued + 1])
           /\ ioRecorded' = [ioRecorded EXCEPT ![r.owner] = @ + 1]
           /\ ioOverlapped' = (ioOverlapped \/ Finding(r.sector))
  BY <1>1, <1>3, IssueRecorded
<1> QED
  BY <1>2, <1>3 DEF rq_qos_issue

(* The program on c goes on: what the others have in hand stays.           *)
LEMMA ProgramOf ==
  ASSUME IoTypeOK, NEW c \in IoCpus, NEW p, IoProgramOK(p),
         ioProgram' = [ioProgram EXCEPT ![c] = p]
  PROVE  /\ DOMAIN ioProgram' = IoCpus /\ ioProgram'[c] = p
         /\ \A d \in IoCpus : d # c => ioProgram'[d] = ioProgram[d]
         /\ \A d \in IoCpus : IoProgramOK(ioProgram'[d])
  BY DEF IoTypeOK

(* The program on c leaves its owner, or its sector, with nothing done.    *)
LEMMA ProgramReleases ==
  ASSUME IoInv, NEW c \in IoCpus, ioProgram'[c].pc \in {"idle", "read", "delete"},
         DOMAIN ioProgram' = IoCpus,
         \A d \in IoCpus : d # c => ioProgram'[d] = ioProgram[d],
         \A d \in IoCpus : IoProgramOK(ioProgram'[d]),
         UNCHANGED <<ioRequests, ioStart, ioSource, ioIssued, ioRecorded, ioFinished, ioShared,
                     ioOverlapped, ioTorn>>
  PROVE  IoTypeOK' /\ IoElements' /\ (~ioTorn' => IoCounts')
<1>1. IoTypeOK'
  BY DEF IoInv, IoTypeOK
<1>2. IoElements' /\ (~ioTorn' => IoCounts')
  BY DEF IoInv, IoElements, WorksFor, InMap, IoCounts
<1> QED
  BY <1>1, <1>2

(* A completion that goes on to the deletion without a request counted.    *)
LEMMA CompletionLeaves ==
  ASSUME IoInv, ~ioOverlapped, NEW c \in IoCpus,
         ioProgram[c].pc \in {"read", "load", "store"}, 
         ioProgram'[c] = [pc |-> "delete", sector |-> ioProgram[c].sector],
         \A d \in IoCpus : d # c => ioProgram'[d] = ioProgram[d],
         ioStart' = ioStart
  PROVE  /\ IoApart'
         /\ \A o \in Owners : Chargeable(o)' \subseteq Chargeable(o) \ {ioProgram[c].sector}
<1>1. IoApart /\ IoAt(c)
  BY DEF IoInv, IoAt
<1>2. /\ ioProgram'[c].pc = "delete" /\ ioProgram'[c].sector = ioProgram[c].sector
  OBVIOUS
<1>3. IoApart'
  BY <1>1, <1>2 DEF IoApart, IoAt
<1>4. ASSUME NEW o \in Owners, NEW t \in Chargeable(o)'
      PROVE  t \in Chargeable(o) /\ t # ioProgram[c].sector
  <2>1. CASE t = ioProgram[c].sector
    <3>1. PICK d \in IoCpus : /\ ioProgram'[d].pc \in {"load", "store"}
                              /\ ioProgram'[d].sector = t
      BY <1>2, <1>4, <2>1 DEF Chargeable
    <3> QED
      BY <1>1, <1>2, <2>1, <3>1 DEF IoApart, IoAt
  <2>2. CASE t # ioProgram[c].sector
    <3>1. t \in DOMAIN ioStart
      BY <1>4 DEF Chargeable
    <3>2. CASE \E d \in IoCpus : /\ ioProgram'[d].pc \in {"load", "store"}
                                 /\ ioProgram'[d].sector = t /\ ioProgram'[d].owner = o
      BY <1>2, <2>2, <3>1, <3>2 DEF Chargeable
    <3>3. CASE /\ ioStart[t].owner = o
               /\ ~\E d \in IoCpus : ioProgram'[d].pc = "delete" /\ ioProgram'[d].sector = t
      <4>1. ~\E d \in IoCpus : ioProgram[d].pc = "delete" /\ ioProgram[d].sector = t
        BY <2>2, <3>3
      <4> QED
        BY <3>1, <3>3, <4>1 DEF Chargeable
    <3> QED
      BY <1>4, <3>2, <3>3 DEF Chargeable
  <2> QED
    BY <2>1, <2>2
<1> QED
  BY <1>3, <1>4

(* A completion that has counted its request: one sector less for the      *)
(* owner, and one request more.                                            *)
LEMMA CompletionCounts ==
  ASSUME IoInv, ~ioOverlapped, NEW c \in IoCpus, ioProgram[c].pc = "store",
         ioProgram'[c] = [pc |-> "delete", sector |-> ioProgram[c].sector],
         \A d \in IoCpus : d # c => ioProgram'[d] = ioProgram[d],
         ioStart' = ioStart, ioRecorded' = ioRecorded,
         ioFinished' = [ioFinished EXCEPT ![ioProgram[c].owner] = @ + 1]
  PROVE  IoApart' /\ IoBalance'
<1> DEFINE s == ioProgram[c].sector
           w == ioProgram[c].owner
<1>1. /\ IoApart' /\ IoTypeOK /\ IoBalance /\ IoApart
      /\ \A o \in Owners : Chargeable(o)' \subseteq Chargeable(o) \ {s}
  BY CompletionLeaves DEF IoInv
<1>2. w \in Owners
  BY <1>1 DEF IoTypeOK, IoProgramOK, IoChargeType
<1>3. s \in Chargeable(w)
  BY <1>1 DEF IoApart, IoAt, Chargeable
<1>4. /\ ioFinished'[w] = ioFinished[w] + 1
      /\ \A o \in Owners : o # w => ioFinished'[o] = ioFinished[o]
      /\ \A o \in Owners : ioFinished[o] \in Nat /\ ioRecorded[o] \in Nat
  BY <1>1, <1>2 DEF IoTypeOK
<1> HIDE DEF s, w
<1>5. ASSUME NEW o \in Owners
      PROVE  ioFinished'[o] + Cardinality(Chargeable(o)') =< ioRecorded'[o]
  <2> DEFINE A == Chargeable(o)
             B == Chargeable(o)'
  <2>1. IsFiniteSet(A) /\ Cardinality(A) \in Nat /\ ioFinished[o] + Cardinality(A) =< ioRecorded[o]
    BY <1>1, ChargeableFinite DEF IoBalance
  <2>2. B \subseteq A \ {s} /\ (o = w => s \in A)
    BY <1>1, <1>3
  <2> HIDE DEF A, B
  <2>3. /\ IsFiniteSet(A \ {s})
        /\ Cardinality(A \ {s}) = IF s \in A THEN Cardinality(A) - 1 ELSE Cardinality(A)
    BY <2>1, FS_RemoveElement
  <2>4. Cardinality(B) =< Cardinality(A \ {s}) /\ Cardinality(B) \in Nat
    BY <2>2, <2>3, FS_Subset, FS_CardinalityType
  <2>5. ioFinished'[o] + Cardinality(B) =< ioRecorded'[o]
    BY <1>4, <2>1, <2>2, <2>3, <2>4
  <2> QED
    BY <2>5 DEF B
<1> QED
  BY <1>1, <1>5 DEF IoBalance

LEMMA IoInvNext == IoInv /\ [IoNext]_ioVars => IoInv'
<1> SUFFICES ASSUME IoInv, [IoNext]_ioVars
             PROVE  IoInv'
  OBVIOUS
<1>a. /\ IoTypeOK /\ IoElements /\ ioRequests \subseteq IoRequestType /\ ioIssued \in Nat
      /\ ioOverlapped \in BOOLEAN /\ ioTorn \in BOOLEAN
      /\ \A c \in IoCpus : IoProgramOK(ioProgram[c])
      /\ \A o \in Owners : /\ ioSource[o].gen \in Nat /\ ioSource[o].count \in Nat
                           /\ ioFinished[o] \in Nat /\ ioRecorded[o] \in Nat
  BY DEF IoInv, IoTypeOK
<1>1. ASSUME NEW s \in Sectors, NEW o \in Owners, NEW meta \in BOOLEAN, IoIssue(s, o, meta)
      PROVE  IoInv'
  <2> DEFINE r == [nr |-> ioIssued + 1, sector |-> s, owner |-> o, meta |-> meta]
  <2>1. r \in IoRequestType /\ ioIssued + 1 \in Nat
    BY <1>a DEF IoRequestType
  <2>2. /\ rq_qos_issue(r) /\ ioRequests' = ioRequests \union {r} /\ ioIssued' = ioIssued + 1
        /\ UNCHANGED <<ioSource, ioProgram, ioFinished, ioShared, ioTorn>>
    BY <1>1 DEF IoIssue
  <2> HIDE DEF r
  <2> QED
    BY <1>a, <2>1, <2>2, IssueHandled
<1>2. ASSUME NEW r \in ioRequests, IoReissue(r) PROVE IoInv'
  <2>1. r \in IoRequestType /\ ioIssued + 1 \in Nat
    BY <1>a
  <2> QED
    BY <1>2, <1>a, <2>1, IssueHandled DEF IoReissue
<1>3. ASSUME NEW c \in IoCpus, NEW r \in ioRequests, IoDone(c, r) PROVE IoInv'
  <2>1. /\ ioProgram[c] = IoIdle /\ ioRequests' \subseteq IoRequestType
        /\ UNCHANGED <<ioStart, ioSource, ioIssued, ioRecorded, ioFinished, ioShared, ioTorn>>
    BY <1>3, <1>a DEF IoDone
  <2>2. CASE r.sector \notin DOMAIN ioStart
    BY <1>3, <1>a, <2>1, <2>2, IssueLeft DEF IoDone
  <2>3. CASE r.sector \in DOMAIN ioStart
    <3> DEFINE p == [pc |-> "read", sector |-> r.sector, nr |-> ioStart[r.sector].nr]
    <3>1. /\ ioProgram' = [ioProgram EXCEPT ![c] = p]
          /\ ioOverlapped' = (ioOverlapped \/ Handled(r.sector))
      BY <1>3, <2>3 DEF IoDone
    <3>2. /\ IoProgramOK(p) /\ p.pc = "read" /\ p.sector = r.sector
          /\ p.nr = ioStart[r.sector].nr
      BY <1>a, <2>3 DEF IoProgramOK, IoTypeOK
    <3> HIDE DEF p
    <3>3. /\ DOMAIN ioProgram' = IoCpus /\ ioProgram'[c] = p
          /\ \A d \in IoCpus : d # c => ioProgram'[d] = ioProgram[d]
          /\ \A d \in IoCpus : IoProgramOK(ioProgram'[d])
      BY <1>a, <3>1, <3>2, ProgramOf
    <3>4. ASSUME ~ioOverlapped' PROVE IoApart' /\ IoBalance'
      <4>1. IoApart /\ IoBalance /\ ~Handled(r.sector)
        BY <3>1, <3>4 DEF IoInv
      <4>2. IoApart'
        BY <2>1, <2>3, <3>2, <3>3, <4>1 DEF IoApart, IoAt, Handled
      <4>3. \A o \in Owners : Chargeable(o)' \subseteq Chargeable(o)
        BY <2>1, <3>2, <3>3 DEF Chargeable, IoIdle
      <4> QED
        BY <1>a, <2>1, <4>1, <4>2, <4>3, BalanceKept
    <3>5. IoTypeOK'
      BY <1>a, <2>1, <3>1, <3>3 DEF IoTypeOK
    <3>6. IoElements' /\ (~ioTorn' => IoCounts')
      BY <2>1, <3>2, <3>3 DEF IoInv, IoElements, WorksFor, InMap, IoCounts
    <3> QED
      BY <3>4, <3>5, <3>6 DEF IoInv
  <2> QED
    BY <2>2, <2>3
<1>4. ASSUME NEW c \in IoCpus, IoOwner(c) PROVE IoInv'
  <2> DEFINE s == ioProgram[c].sector
  <2>1. /\ ioProgram[c].pc = "read" /\ s \in Sectors
        /\ UNCHANGED <<ioRequests, ioStart, ioSource, ioIssued, ioRecorded, ioFinished,
                       ioOverlapped, ioTorn>>
    BY <1>4, <1>a DEF IoOwner, IoProgramOK
  <2>2. CASE /\ ioProgram' = [ioProgram EXCEPT ![c] = [pc |-> "delete", sector |-> s]]
             /\ UNCHANGED ioShared
    <3> DEFINE p == [pc |-> "delete", sector |-> s]
    <3>1. IoProgramOK(p) /\ p.pc = "delete"
      BY <2>1 DEF IoProgramOK
    <3>2. /\ ioProgram'[c] = p
          /\ \A d \in IoCpus : d # c => ioProgram'[d] = ioProgram[d]
      BY <1>a, <2>2, <3>1, ProgramOf
    <3>3. ASSUME ~ioOverlapped' PROVE IoApart' /\ IoBalance'
      <4>1. /\ IoApart' /\ IoBalance
            /\ \A o \in Owners : Chargeable(o)' \subseteq Chargeable(o)
        BY <2>1, <3>2, <3>3, CompletionLeaves DEF IoInv
      <4> QED
        BY <1>a, <2>1, <4>1, BalanceKept
    <3>4. /\ DOMAIN ioProgram' = IoCpus /\ ioProgram'[c].pc = "delete"
          /\ \A d \in IoCpus : IoProgramOK(ioProgram'[d])
      BY <1>a, <2>2, <3>1, <3>2, ProgramOf
    <3>5. IoTypeOK' /\ IoElements' /\ (~ioTorn' => IoCounts')
      BY <2>1, <2>2, <3>2, <3>4, ProgramReleases
    <3> QED
      BY <3>3, <3>5 DEF IoInv
  <2>3. ASSUME NEW o \in Owners,
               s \in DOMAIN ioStart /\ ioStart[s].nr = ioProgram[c].nr => o = ioStart[s].owner,
               ioProgram' = [ioProgram EXCEPT ![c] =
                        [pc |-> "load", sector |-> s, owner |-> o, gen |-> Source(o), count |-> 0]],
               ioShared' = IF \E d \in IoCpus : WorksFor(d, o) THEN ioShared \union {o}
                           ELSE ioShared
        PROVE  IoInv'
    <3> DEFINE p == [pc |-> "load", sector |-> s, owner |-> o, gen |-> Source(o), count |-> 0]
    <3>1. /\ p \in IoChargeType /\ p.pc = "load" /\ p.sector = s /\ p.owner = o
          /\ p.gen = ioSource[o].gen
      BY <1>a, <2>1 DEF IoChargeType, Source
    <3>2. IoProgramOK(p) /\ ioProgram' = [ioProgram EXCEPT ![c] = p]
      BY <2>3, <3>1 DEF IoProgramOK
    <3> HIDE DEF p
    <3>3. /\ DOMAIN ioProgram' = IoCpus /\ ioProgram'[c] = p
          /\ \A d \in IoCpus : d # c => ioProgram'[d] = ioProgram[d]
          /\ \A d \in IoCpus : IoProgramOK(ioProgram'[d])
      BY <1>a, <3>2, ProgramOf
    <3>4. IoTypeOK'
      BY <1>a, <2>1, <2>3, <3>3 DEF IoTypeOK
    <3>5. ioShared \subseteq ioShared' /\ \A x \in Owners : x # o => (x \in ioShared' <=> x \in ioShared)
      BY <2>3
    <3>6. IoElements'
      <4>1. ASSUME NEW a \in IoCpus, NEW b \in IoCpus, NEW x \in Owners,
                   WorksFor(a, x)', WorksFor(b, x)', a # b
            PROVE  x \in ioShared'
        <5>1. CASE a # c /\ b # c
          BY <1>a, <3>3, <3>5, <4>1, <5>1 DEF IoElements, WorksFor
        <5>2. CASE a = c
          <6>1. x = o /\ WorksFor(b, o)
            BY <3>1, <3>3, <4>1, <5>2 DEF WorksFor
          <6> QED
            BY <2>3, <6>1
        <5>3. CASE b = c
          <6>1. x = o /\ WorksFor(a, o)
            BY <3>1, <3>3, <4>1, <5>3 DEF WorksFor
          <6> QED
            BY <2>3, <6>1
        <5> QED
          BY <5>1, <5>2, <5>3
      <4>2. \A d \in IoCpus : ioProgram'[d].pc \in {"load", "store", "insert"} =>
               /\ ioProgram'[d].gen <= ioSource'[ioProgram'[d].owner].gen
               /\ ioProgram'[d].owner \notin ioShared' => InMap(d)'
               /\ ~ioTorn' /\ ioProgram'[d].gen # 0 => InMap(d)'
        BY <1>a, <2>1, <3>1, <3>3, <3>5 DEF IoElements, InMap
      <4>3. \A x \in Owners : ioSource'[x].gen = 0 => ioSource'[x].count = 0 /\ ioFinished'[x] = 0
        BY <1>a, <2>1 DEF IoElements
      <4> QED
        BY <4>1, <4>2, <4>3 DEF IoElements
    <3>7. ~ioTorn' => IoCounts'
      BY <2>1, <3>1, <3>3, <3>5 DEF IoInv, IoCounts
    <3>8. ASSUME ~ioOverlapped' PROVE IoApart' /\ IoBalance'
      <4>1. IoApart /\ IoBalance
        BY <2>1, <3>8 DEF IoInv
      <4>2. s \in DOMAIN ioStart /\ ioStart[s].owner = o
        BY <2>1, <2>3, <4>1 DEF IoApart, IoAt
      <4>3. \A d \in IoCpus : d # c /\ IoAt(d) => ioProgram[d].sector # s
        BY <2>1, <4>1 DEF IoApart, IoAt
      <4>4. IoApart'
        BY <2>1, <3>1, <3>3, <4>1, <4>3 DEF IoApart, IoAt
      <4>5. s \in Chargeable(o)
        BY <2>1, <4>2, <4>3 DEF Chargeable, IoAt
      <4>6. ASSUME NEW x \in Owners, NEW t \in Chargeable(x)' PROVE t \in Chargeable(x)
        <5>1. CASE t = s /\ x = o
          BY <4>5, <5>1
        <5>2. CASE ~(t = s /\ x = o)
          BY <2>1, <3>1, <3>3, <4>6, <5>2 DEF Chargeable
        <5> QED
          BY <5>1, <5>2
      <4> QED
        BY <1>a, <2>1, <4>1, <4>4, <4>6, BalanceKept
    <3> QED
      BY <3>4, <3>6, <3>7, <3>8 DEF IoInv
  <2>4. \/ /\ ioProgram' = [ioProgram EXCEPT ![c] = [pc |-> "delete", sector |-> s]]
           /\ UNCHANGED ioShared
        \/ \E o \in IF s \in DOMAIN ioStart /\ ioStart[s].nr = ioProgram[c].nr
                    THEN {ioStart[s].owner} ELSE Owners :
              /\ ioProgram' = [ioProgram EXCEPT ![c] =
                        [pc |-> "load", sector |-> s, owner |-> o, gen |-> Source(o), count |-> 0]]
              /\ ioShared' = IF \E d \in IoCpus : WorksFor(d, o) THEN ioShared \union {o}
                             ELSE ioShared
    BY <1>4 DEF IoOwner
  <2>5. s \in DOMAIN ioStart => ioStart[s].owner \in Owners
    BY <1>a DEF IoTypeOK
  <2> HIDE DEF s
  <2> QED
    BY <2>2, <2>3, <2>4, <2>5
<1>5. ASSUME NEW c \in IoCpus, IoLoad(c) PROVE IoInv'
  <2> DEFINE w == ioProgram[c].owner
  <2>1. /\ ioProgram[c].pc = "load" /\ ioProgram[c] \in IoChargeType
        /\ UNCHANGED <<ioRequests, ioStart, ioSource, ioIssued, ioRecorded, ioFinished,
                       ioShared, ioOverlapped, ioTorn>>
    BY <1>5, <1>a DEF IoLoad, IoProgramOK
  <2>2. PICK value : /\ value \in IF ioProgram[c].gen = 0 THEN {0}
                                  ELSE IF InMap(c) THEN {ioSource[w].count} ELSE 0 .. MaxIssued
                     /\ ioProgram' = [ioProgram EXCEPT ![c] =
                             [ioProgram[c] EXCEPT !.pc = "store", !.count = value + 1]]
    BY <1>5 DEF IoLoad
  <2>3. w \in Owners /\ ioProgram[c].gen \in Nat
    BY <2>1 DEF IoChargeType
  <2>4. /\ value \in Nat
        /\ ioProgram[c].gen = 0 => value = 0
        /\ ioProgram[c].gen # 0 /\ InMap(c) => value = ioSource[w].count
    BY <1>a, <2>2, <2>3 DEF IoAssumption
  <2> DEFINE n == value + 1
             q == ioProgram[c]
             p == [q EXCEPT !.pc = "store", !.count = n]
  <2>5. /\ p \in IoChargeType /\ p.pc = "store" /\ p.count = value + 1 /\ p.owner = w
        /\ p.gen = ioProgram[c].gen /\ p.sector = ioProgram[c].sector
    <3>1. q \in IoChargeType /\ n \in Nat
      BY <2>1, <2>4
    <3> HIDE DEF q, n
    <3>2. /\ p \in IoChargeType /\ p.pc = "store" /\ p.count = n /\ p.owner = q.owner
          /\ p.gen = q.gen /\ p.sector = q.sector
      BY <3>1 DEF IoChargeType
    <3> QED
      BY <3>2 DEF q, n
  <2>6. IoProgramOK(p) /\ ioProgram' = [ioProgram EXCEPT ![c] = p]
    BY <2>2, <2>5 DEF IoProgramOK
  <2> HIDE DEF p, w
  <2>7. /\ DOMAIN ioProgram' = IoCpus /\ ioProgram'[c] = p
        /\ \A d \in IoCpus : d # c => ioProgram'[d] = ioProgram[d]
        /\ \A d \in IoCpus : IoProgramOK(ioProgram'[d])
    BY <1>a, <2>6, ProgramOf
  <2>8. IoTypeOK'
    BY <1>a, <2>1, <2>7 DEF IoTypeOK
  <2>9. IoElements'
    BY <1>a, <2>1, <2>5, <2>7 DEF IoElements, WorksFor, InMap, w
  <2>10. ASSUME ~ioTorn' PROVE IoCounts'
    <3>1. IoCounts /\ (ioProgram[c].gen # 0 => InMap(c)) /\ (w \notin ioShared => InMap(c))
      BY <1>a, <2>1, <2>10 DEF IoInv, IoElements, w
    <3>2. value =< ioFinished[w] /\ (w \notin ioShared => value = ioFinished[w])
      <4>1. CASE ioProgram[c].gen = 0
        <5>1. w \notin ioShared => ioSource[w].gen = 0
          BY <3>1, <4>1 DEF InMap, w
        <5>2. w \notin ioShared => ioFinished[w] = 0
          BY <1>a, <2>3, <5>1 DEF IoElements
        <5> QED
          BY <1>a, <2>3, <2>4, <4>1, <5>2
      <4>2. CASE ioProgram[c].gen # 0
        BY <2>3, <2>4, <3>1, <4>2 DEF IoCounts
      <4> QED
        BY <4>1, <4>2
    <3> QED
      BY <1>a, <2>1, <2>3, <2>4, <2>5, <2>7, <3>1, <3>2 DEF IoCounts
  <2>11. ASSUME ~ioOverlapped' PROVE IoApart' /\ IoBalance'
    <3>1. IoApart /\ IoBalance
      BY <2>1, <2>11 DEF IoInv
    <3>2. IoApart'
      BY <2>1, <2>5, <2>7, <3>1 DEF IoApart, IoAt
    <3>3. \A o \in Owners : Chargeable(o)' \subseteq Chargeable(o)
      BY <2>1, <2>5, <2>7 DEF Chargeable, w
    <3> QED
      BY <1>a, <2>1, <3>1, <3>2, <3>3, BalanceKept
  <2> QED
    BY <2>8, <2>9, <2>10, <2>11 DEF IoInv
<1>b. ASSUME NEW c \in IoCpus, ioProgram[c].pc = "store",
             NEW source, ioSource' = source, source \in [Owners -> [gen : Nat, count : Nat]],
             ioTorn' \in BOOLEAN, ioTorn => ioTorn', Counted(c), IoElements',
             ~ioTorn' => /\ ioSource'[ioProgram[c].owner].count = ioProgram[c].count
                         /\ \A x \in Owners : x # ioProgram[c].owner =>
                                                 ioSource'[x].count = ioSource[x].count
      PROVE  IoInv'
  <2> DEFINE w == ioProgram[c].owner
             p == [pc |-> "delete", sector |-> ioProgram[c].sector]
  <2>1. /\ ioFinished' = [ioFinished EXCEPT ![w] = @ + 1]
        /\ ioProgram' = [ioProgram EXCEPT ![c] = p]
        /\ UNCHANGED <<ioRequests, ioStart, ioIssued, ioRecorded, ioShared, ioOverlapped>>
    BY <1>b DEF Counted
  <2>2. w \in Owners /\ IoProgramOK(p) /\ p.pc = "delete" /\ ioProgram[c].count \in Nat
    BY <1>a, <1>b DEF IoProgramOK, IoChargeType
  <2>3. /\ DOMAIN ioProgram' = IoCpus /\ ioProgram'[c] = p
        /\ \A d \in IoCpus : d # c => ioProgram'[d] = ioProgram[d]
        /\ \A d \in IoCpus : IoProgramOK(ioProgram'[d])
    BY <1>a, <2>1, <2>2, ProgramOf
  <2>4. /\ ioFinished' \in [Owners -> Nat] /\ ioFinished'[w] = ioFinished[w] + 1
        /\ \A o \in Owners : o # w => ioFinished'[o] = ioFinished[o]
    BY <1>a, <2>1, <2>2 DEF IoTypeOK
  <2>5. IoTypeOK'
    BY <1>a, <1>b, <2>1, <2>3, <2>4 DEF IoTypeOK
  <2>6. ~ioOverlapped' => IoApart' /\ IoBalance'
    BY <1>b, <2>1, <2>3, CompletionCounts
  <2>7. ASSUME ~ioTorn' PROVE IoCounts'
    <3>1. IoCounts
      BY <1>b, <2>7 DEF IoInv
    <3> HIDE DEF w
    <3>2. ASSUME NEW o \in Owners
          PROVE  /\ ioSource'[o].count =< ioFinished'[o]
                 /\ o \notin ioShared' => ioSource'[o].count = ioFinished'[o]
      <4>1. CASE o = w
        BY <1>a, <1>b, <2>1, <2>2, <2>4, <2>7, <3>1, <4>1 DEF IoCounts, w
      <4>2. CASE o # w
        BY <1>b, <2>1, <2>4, <2>7, <3>1, <4>2 DEF IoCounts, w
      <4> QED
        BY <4>1, <4>2
    <3>3. ASSUME NEW d \in IoCpus, ioProgram'[d].pc = "store"
          PROVE  /\ ioProgram'[d].count =< ioFinished'[ioProgram'[d].owner] + 1
                 /\ ioProgram'[d].owner \notin ioShared' =>
                       ioProgram'[d].count = ioFinished'[ioProgram'[d].owner] + 1
      <4>1. d # c /\ ioProgram'[d] = ioProgram[d]
        BY <2>2, <2>3, <3>3
      <4>2. ioProgram[d].owner \in Owners /\ ioProgram[d].count \in Nat
        BY <1>a, <3>3, <4>1 DEF IoProgramOK, IoChargeType
      <4>3. ioProgram[d].owner = w => w \in ioShared
        BY <1>a, <1>b, <2>2, <3>3, <4>1 DEF IoElements, WorksFor, w
      <4> QED
        BY <1>a, <2>1, <2>2, <2>4, <3>1, <3>3, <4>1, <4>2, <4>3 DEF IoCounts
    <3> QED
      BY <3>2, <3>3 DEF IoCounts
  <2> QED
    BY <2>5, <2>6, <2>7, <1>b DEF IoInv
<1>6. ASSUME NEW c \in IoCpus, IoStore(c) PROVE IoInv'
  <2>1. /\ ioProgram[c].pc = "store" /\ ioProgram[c].gen # 0 /\ Counted(c) /\ ioTorn' = ioTorn
        /\ ioProgram[c] \in IoChargeType
    BY <1>6, <1>a DEF IoStore, IoProgramOK
  <2>2. ioProgram[c].owner \in Owners /\ ioProgram[c].count \in Nat /\ ioProgram[c].gen \in Nat
    BY <2>1 DEF IoChargeType
  <2>3. ioSource[ioProgram[c].owner].gen # 0
    BY <1>a, <2>1, <2>2 DEF IoElements
  <2>4. PICK o \in Owners :
          /\ ioSource[o].gen # 0
          /\ \/ ioSource' = ioSource
             \/ ioSource' = [ioSource EXCEPT ![o].count = ioProgram[c].count]
          /\ InMap(c) => o = ioProgram[c].owner
                         /\ ioSource' = [ioSource EXCEPT ![o].count = ioProgram[c].count]
    <3>1. CASE InMap(c)
      BY <1>6, <2>2, <2>3, <3>1 DEF IoStore
    <3>2. CASE ~InMap(c)
      BY <1>6, <2>2, <2>3, <3>2 DEF IoStore
    <3> QED
      BY <3>1, <3>2
  <2>5. /\ ioSource' \in [Owners -> [gen : Nat, count : Nat]]
        /\ \A x \in Owners : /\ ioSource'[x].gen = ioSource[x].gen
                             /\ x # o => ioSource'[x].count = ioSource[x].count
        /\ ioSource' = [ioSource EXCEPT ![o].count = ioProgram[c].count] =>
               ioSource'[o].count = ioProgram[c].count
    BY <1>a, <2>2, <2>4 DEF IoTypeOK
  <2>6. /\ ioFinished' = [ioFinished EXCEPT ![ioProgram[c].owner] = @ + 1]
        /\ ioProgram' = [ioProgram EXCEPT ![c] = [pc |-> "delete", sector |-> ioProgram[c].sector]]
        /\ ioShared' = ioShared
    BY <2>1 DEF Counted
  <2>7. /\ ioProgram'[c].pc = "delete"
        /\ \A d \in IoCpus : d # c => ioProgram'[d] = ioProgram[d]
    BY <1>a, <2>6 DEF IoTypeOK
  <2>8. IoElements'
    <3>1. \A x \in Owners : x # ioProgram[c].owner => ioFinished'[x] = ioFinished[x]
      BY <1>a, <2>6 DEF IoTypeOK
    <3>2. \A x \in Owners : ioSource'[x].gen = 0 => ioSource'[x].count = 0 /\ ioFinished'[x] = 0
      BY <1>a, <2>3, <2>4, <2>5, <3>1 DEF IoElements
    <3>3. \A a, b \in IoCpus, x \in Owners :
             WorksFor(a, x)' /\ WorksFor(b, x)' /\ a # b => x \in ioShared'
      BY <1>a, <2>6, <2>7 DEF IoElements, WorksFor
    <3>4. \A d \in IoCpus : ioProgram'[d].pc \in {"load", "store", "insert"} =>
             ioProgram[d].owner \in Owners /\ ioProgram'[d] = ioProgram[d]
      BY <1>a, <2>7 DEF IoProgramOK, IoChargeType
    <3> QED
      BY <1>a, <2>1, <2>5, <2>6, <3>2, <3>3, <3>4 DEF IoElements, InMap
  <2>9. ~ioTorn' => InMap(c)
    BY <1>a, <2>1 DEF IoElements
  <2> QED
    BY <1>a, <1>b, <2>1, <2>4, <2>5, <2>8, <2>9
<1>c. ASSUME NEW c \in IoCpus, NEW w \in Owners, NEW n \in Nat, Inserted(w, n),
             ioProgram[c].pc \in {"store", "insert"}, ioProgram[c].owner = w,
             ioProgram[c].gen = 0, ioShared' = ioShared,
             ioProgram'[c].pc \in {"idle", "delete"},
             \A d \in IoCpus : d # c => ioProgram'[d] = ioProgram[d],
             \A x \in Owners : x # w => ioFinished'[x] = ioFinished[x]
      PROVE  /\ IoElements' /\ ioTorn' \in BOOLEAN /\ (ioTorn => ioTorn')
             /\ ioSource' \in [Owners -> [gen : Nat, count : Nat]]
             /\ ioSource'[w].count = n
             /\ \A x \in Owners : x # w => ioSource'[x] = ioSource[x]
  <2>1. /\ ioSource' = [ioSource EXCEPT ![w] = [gen |-> ioSource[w].gen + 1, count |-> n]]
        /\ ioTorn' = (ioTorn \/ \E d \in IoCpus : /\ WorksFor(d, w) /\ InMap(d)
                                                  /\ ioProgram[d].gen # 0)
    BY <1>c DEF Inserted
  <2>2. /\ ioSource' \in [Owners -> [gen : Nat, count : Nat]]
        /\ ioSource'[w].gen = ioSource[w].gen + 1 /\ ioSource'[w].count = n
        /\ \A x \in Owners : x # w => ioSource'[x] = ioSource[x]
    BY <1>a, <1>c, <2>1 DEF IoTypeOK
  <2>3. ASSUME NEW d \in IoCpus, ioProgram'[d].pc \in {"load", "store", "insert"}
        PROVE  /\ ioProgram'[d].gen <= ioSource'[ioProgram'[d].owner].gen
               /\ ioProgram'[d].owner \notin ioShared' => InMap(d)'
               /\ ~ioTorn' /\ ioProgram'[d].gen # 0 => InMap(d)'
    <3>1. d # c /\ ioProgram'[d] = ioProgram[d]
      BY <1>c, <2>3
    <3>2. ioProgram[d].owner \in Owners /\ ioProgram[d].gen \in Nat
      BY <1>a, <2>3, <3>1 DEF IoProgramOK, IoChargeType
    <3>3. CASE ioProgram[d].owner # w
      BY <1>a, <1>c, <2>1, <2>2, <2>3, <3>1, <3>2, <3>3 DEF IoElements, InMap
    <3>4. CASE ioProgram[d].owner = w
      <4>1. WorksFor(d, w) /\ WorksFor(c, w)
        BY <1>c, <2>3, <3>1, <3>4 DEF WorksFor
      <4>2. w \in ioShared
        BY <1>a, <1>c, <3>1, <4>1 DEF IoElements
      <4>3. ioProgram[d].gen <= ioSource[w].gen
        BY <1>a, <2>3, <3>1, <3>4 DEF IoElements
      <4>4. ioTorn' \/ ioProgram[d].gen = 0
        <5>1. ~ioTorn /\ ioProgram[d].gen # 0 => InMap(d)
          BY <1>a, <2>3, <3>1 DEF IoElements
        <5> QED
          BY <2>1, <4>1, <5>1
      <4> QED
        BY <1>a, <1>c, <2>2, <3>1, <3>2, <3>4, <4>2, <4>3, <4>4
    <3> QED
      BY <3>3, <3>4
  <2>4. \A a, b \in IoCpus, x \in Owners :
             WorksFor(a, x)' /\ WorksFor(b, x)' /\ a # b => x \in ioShared'
    BY <1>a, <1>c DEF IoElements, WorksFor
  <2>5. \A x \in Owners : ioSource'[x].gen = 0 => ioSource'[x].count = 0 /\ ioFinished'[x] = 0
    BY <1>a, <1>c, <2>2 DEF IoElements
  <2>6. IoElements'
    BY <2>3, <2>4, <2>5 DEF IoElements
  <2> QED
    BY <1>a, <2>1, <2>2, <2>6
<1>7. ASSUME NEW c \in IoCpus, IoInsert(c) PROVE IoInv'
  <2>1. /\ ioProgram[c].pc = "store" /\ ioProgram[c].gen = 0 /\ Counted(c)
        /\ Inserted(ioProgram[c].owner, ioProgram[c].count)
        /\ ioProgram[c] \in IoChargeType
    BY <1>7, <1>a DEF IoInsert, IoProgramOK
  <2>2. ioProgram[c].owner \in Owners /\ ioProgram[c].count \in Nat
    BY <2>1 DEF IoChargeType
  <2>3. /\ ioFinished' = [ioFinished EXCEPT ![ioProgram[c].owner] = @ + 1]
        /\ ioProgram' = [ioProgram EXCEPT ![c] = [pc |-> "delete", sector |-> ioProgram[c].sector]]
        /\ ioShared' = ioShared
    BY <2>1 DEF Counted
  <2>4. /\ ioProgram'[c].pc = "delete"
        /\ \A d \in IoCpus : d # c => ioProgram'[d] = ioProgram[d]
        /\ \A x \in Owners : x # ioProgram[c].owner => ioFinished'[x] = ioFinished[x]
    BY <1>a, <2>3 DEF IoTypeOK
  <2>5. /\ IoElements' /\ ioTorn' \in BOOLEAN /\ (ioTorn => ioTorn')
        /\ ioSource' \in [Owners -> [gen : Nat, count : Nat]]
        /\ ioSource'[ioProgram[c].owner].count = ioProgram[c].count
        /\ \A x \in Owners : x # ioProgram[c].owner => ioSource'[x] = ioSource[x]
    BY <1>c, <2>1, <2>2, <2>3, <2>4
  <2> QED
    BY <1>b, <2>1, <2>5
<1>8. ASSUME NEW c \in IoCpus, IoInsertFails(c) PROVE IoInv'
  <2> DEFINE p == [pc |-> "delete", sector |-> ioProgram[c].sector]
  <2>1. /\ ioProgram[c].pc = "store"
        /\ ioProgram' = [ioProgram EXCEPT ![c] = p]
        /\ UNCHANGED <<ioRequests, ioStart, ioSource, ioIssued, ioRecorded, ioFinished,
                       ioShared, ioOverlapped, ioTorn>>
    BY <1>8 DEF IoInsertFails
  <2>2. IoProgramOK(p) /\ p.pc = "delete"
    BY <1>a, <2>1 DEF IoProgramOK, IoChargeType
  <2>3. /\ ioProgram'[c] = p
        /\ \A d \in IoCpus : d # c => ioProgram'[d] = ioProgram[d]
    BY <1>a, <2>1, <2>2, ProgramOf
  <2>4. ASSUME ~ioOverlapped' PROVE IoApart' /\ IoBalance'
    <3>1. /\ IoApart' /\ IoBalance
          /\ \A o \in Owners : Chargeable(o)' \subseteq Chargeable(o)
      BY <2>1, <2>3, <2>4, CompletionLeaves DEF IoInv
    <3> QED
      BY <1>a, <2>1, <3>1, BalanceKept
  <2>5. /\ DOMAIN ioProgram' = IoCpus /\ ioProgram'[c].pc = "delete"
        /\ \A d \in IoCpus : IoProgramOK(ioProgram'[d])
    BY <1>a, <2>1, <2>2, <2>3, ProgramOf
  <2>6. IoTypeOK' /\ IoElements' /\ (~ioTorn' => IoCounts')
    BY <2>1, <2>3, <2>5, ProgramReleases
  <2> QED
    BY <2>4, <2>6 DEF IoInv
<1>9. ASSUME NEW c \in IoCpus, IoDelete(c) PROVE IoInv'
  <2> DEFINE s == ioProgram[c].sector
  <2>1. /\ ioProgram[c].pc = "delete"
        /\ ioStart' = [x \in DOMAIN ioStart \ {s} |-> ioStart[x]]
        /\ ioProgram' = [ioProgram EXCEPT ![c] = IoIdle]
        /\ UNCHANGED <<ioRequests, ioSource, ioIssued, ioRecorded, ioFinished, ioShared,
                       ioOverlapped, ioTorn>>
    BY <1>9 DEF IoDelete, Without, Restrict
  <2>2. IoProgramOK(IoIdle) /\ IoIdle.pc = "idle"
    BY DEF IoProgramOK, IoIdle
  <2>3. /\ DOMAIN ioProgram' = IoCpus /\ ioProgram'[c] = IoIdle
        /\ \A d \in IoCpus : d # c => ioProgram'[d] = ioProgram[d]
        /\ \A d \in IoCpus : IoProgramOK(ioProgram'[d])
    BY <1>a, <2>1, <2>2, ProgramOf
  <2> HIDE DEF s
  <2>4. /\ DOMAIN ioStart' = DOMAIN ioStart \ {s}
        /\ \A x \in DOMAIN ioStart' : ioStart'[x] = ioStart[x]
    BY <2>1
  <2>5. IoTypeOK'
    <3>1. IsFiniteSet(DOMAIN ioStart)
      BY <1>a DEF IoTypeOK
    <3>2. IsFiniteSet(DOMAIN ioStart')
      BY <2>4, <3>1, FS_Subset
    <3> QED
      BY <1>a, <2>1, <2>3, <2>4, <3>2 DEF IoTypeOK
  <2>6. IoElements' /\ (~ioTorn' => IoCounts')
    BY <2>1, <2>2, <2>3 DEF IoInv, IoElements, WorksFor, InMap, IoCounts
  <2>7. ASSUME ~ioOverlapped' PROVE IoApart' /\ IoBalance'
    <3>1. IoApart /\ IoBalance
      BY <2>1, <2>7 DEF IoInv
    <3>2. IoApart'
      BY <2>1, <2>2, <2>3, <2>4, <3>1 DEF IoApart, IoAt, s
    <3>3. \A o \in Owners : Chargeable(o)' \subseteq Chargeable(o)
      BY <2>1, <2>2, <2>3, <2>4 DEF Chargeable, s
    <3> QED
      BY <1>a, <2>1, <3>1, <3>2, <3>3, BalanceKept
  <2> QED
    BY <2>5, <2>6, <2>7 DEF IoInv
<1>10. ASSUME NEW c \in IoCpus, NEW o \in Owners, IoFile(c, o) PROVE IoInv'
  <2> DEFINE p == [pc |-> "insert", owner |-> o, gen |-> 0]
  <2>1. /\ ioProgram[c] = IoIdle /\ ioSource[o].gen = 0
        /\ ioProgram' = [ioProgram EXCEPT ![c] = p]
        /\ ioShared' = IF \E d \in IoCpus : WorksFor(d, o) THEN ioShared \union {o} ELSE ioShared
        /\ UNCHANGED <<ioRequests, ioStart, ioSource, ioIssued, ioRecorded, ioFinished,
                       ioOverlapped, ioTorn>>
    BY <1>10 DEF IoFile
  <2>2. IoProgramOK(p) /\ p.pc = "insert" /\ p.owner = o /\ p.gen = 0 /\ ioProgram[c].pc = "idle"
    BY <2>1 DEF IoProgramOK, IoIdle
  <2> HIDE DEF p
  <2>3. /\ DOMAIN ioProgram' = IoCpus /\ ioProgram'[c] = p
        /\ \A d \in IoCpus : d # c => ioProgram'[d] = ioProgram[d]
        /\ \A d \in IoCpus : IoProgramOK(ioProgram'[d])
    BY <1>a, <2>1, <2>2, ProgramOf
  <2>4. IoTypeOK'
    BY <1>a, <2>1, <2>3 DEF IoTypeOK
  <2>5. ioShared \subseteq ioShared' /\ \A x \in Owners : x # o => (x \in ioShared' <=> x \in ioShared)
    BY <2>1
  <2>6. IoElements'
    <3>1. ASSUME NEW a \in IoCpus, NEW b \in IoCpus, NEW x \in Owners,
                 WorksFor(a, x)', WorksFor(b, x)', a # b
          PROVE  x \in ioShared'
      <4>1. CASE a # c /\ b # c
        BY <1>a, <2>3, <2>5, <3>1, <4>1 DEF IoElements, WorksFor
      <4>2. CASE a = c
        <5>1. x = o /\ WorksFor(b, o)
          BY <2>2, <2>3, <3>1, <4>2 DEF WorksFor
        <5> QED
          BY <2>1, <5>1
      <4>3. CASE b = c
        <5>1. x = o /\ WorksFor(a, o)
          BY <2>2, <2>3, <3>1, <4>3 DEF WorksFor
        <5> QED
          BY <2>1, <5>1
      <4> QED
        BY <4>1, <4>2, <4>3
    <3>2. \A d \in IoCpus : ioProgram'[d].pc \in {"load", "store", "insert"} =>
             /\ ioProgram'[d].gen <= ioSource'[ioProgram'[d].owner].gen
             /\ ioProgram'[d].owner \notin ioShared' => InMap(d)'
             /\ ~ioTorn' /\ ioProgram'[d].gen # 0 => InMap(d)'
      BY <1>a, <2>1, <2>2, <2>3, <2>5 DEF IoElements, InMap
    <3>3. \A x \in Owners : ioSource'[x].gen = 0 => ioSource'[x].count = 0 /\ ioFinished'[x] = 0
      BY <1>a, <2>1 DEF IoElements
    <3> QED
      BY <3>1, <3>2, <3>3 DEF IoElements
  <2>7. ~ioTorn' => IoCounts'
    BY <2>1, <2>2, <2>3, <2>5 DEF IoInv, IoCounts
  <2>8. ASSUME ~ioOverlapped' PROVE IoApart' /\ IoBalance'
    <3>1. IoApart /\ IoBalance
      BY <2>1, <2>8 DEF IoInv
    <3>2. IoApart'
      BY <2>1, <2>2, <2>3, <3>1 DEF IoApart, IoAt
    <3>3. \A x \in Owners : Chargeable(x)' \subseteq Chargeable(x)
      BY <2>1, <2>2, <2>3 DEF Chargeable
    <3> QED
      BY <1>a, <2>1, <3>1, <3>2, <3>3, BalanceKept
  <2> QED
    BY <2>4, <2>6, <2>7, <2>8 DEF IoInv
<1>11. ASSUME NEW c \in IoCpus, IoFileInsert(c) PROVE IoInv'
  <2> DEFINE w == ioProgram[c].owner
  <2>1. /\ ioProgram[c].pc = "insert" /\ w \in Owners /\ ioProgram[c].gen = 0
        /\ ioProgram' = [ioProgram EXCEPT ![c] = IoIdle]
        /\ UNCHANGED <<ioRequests, ioStart, ioIssued, ioRecorded, ioFinished, ioShared,
                       ioOverlapped>>
    BY <1>11, <1>a DEF IoFileInsert, IoProgramOK
  <2>2. IoProgramOK(IoIdle) /\ IoIdle.pc = "idle"
    BY DEF IoProgramOK, IoIdle
  <2>3. /\ DOMAIN ioProgram' = IoCpus /\ ioProgram'[c] = IoIdle
        /\ \A d \in IoCpus : d # c => ioProgram'[d] = ioProgram[d]
        /\ \A d \in IoCpus : IoProgramOK(ioProgram'[d])
    BY <1>a, <2>1, <2>2, ProgramOf
  <2>4. ASSUME ~ioOverlapped' PROVE IoApart' /\ IoBalance'
    <3>1. IoApart /\ IoBalance
      BY <2>1, <2>4 DEF IoInv
    <3>2. IoApart'
      BY <2>1, <2>2, <2>3, <3>1 DEF IoApart, IoAt
    <3>3. \A x \in Owners : Chargeable(x)' \subseteq Chargeable(x)
      BY <2>1, <2>2, <2>3 DEF Chargeable
    <3> QED
      BY <1>a, <2>1, <3>1, <3>2, <3>3, BalanceKept
  <2>5. CASE UNCHANGED <<ioSource, ioTorn>>
    <3>1. IoTypeOK' /\ IoElements' /\ (~ioTorn' => IoCounts')
      BY <2>1, <2>2, <2>3, <2>5, ProgramReleases
    <3> QED
      BY <2>4, <3>1 DEF IoInv
  <2>6. CASE Inserted(w, 0)
    <3>1. ioProgram'[c].pc = "idle" /\ \A x \in Owners : x # w => ioFinished'[x] = ioFinished[x]
      BY <2>1, <2>2, <2>3
    <3>2. /\ IoElements' /\ ioTorn' \in BOOLEAN /\ (ioTorn => ioTorn')
          /\ ioSource' \in [Owners -> [gen : Nat, count : Nat]]
          /\ ioSource'[w].count = 0
          /\ \A x \in Owners : x # w => ioSource'[x] = ioSource[x]
      BY <1>c, <2>1, <2>3, <2>6, <3>1
    <3>3. IoTypeOK'
      BY <1>a, <2>1, <2>3, <3>2 DEF IoTypeOK
    <3>4. ASSUME ~ioTorn' PROVE IoCounts'
      <4>1. IoCounts
        BY <3>2, <3>4 DEF IoInv
      <4>2. w \notin ioShared => ioFinished[w] = 0
        <5>1. w \notin ioShared => ioSource[w].gen = 0
          BY <1>a, <2>1 DEF IoElements, InMap
        <5> QED
          BY <1>a, <2>1, <5>1 DEF IoElements
      <4> HIDE DEF w
      <4>3. ASSUME NEW o \in Owners
            PROVE  /\ ioSource'[o].count =< ioFinished'[o]
                   /\ o \notin ioShared' => ioSource'[o].count = ioFinished'[o]
        BY <1>a, <2>1, <3>2, <4>1, <4>2 DEF IoCounts
      <4>4. ASSUME NEW d \in IoCpus, ioProgram'[d].pc = "store" PROVE ioProgram'[d] = ioProgram[d]
        BY <2>2, <2>3, <4>4
      <4> QED
        BY <2>1, <4>1, <4>3, <4>4 DEF IoCounts
    <3> QED
      BY <2>4, <3>2, <3>3, <3>4 DEF IoInv
  <2> QED
    BY <1>11, <2>5, <2>6 DEF IoFileInsert
<1>12. CASE UNCHANGED ioVars
  BY <1>12, <1>a, IssueLeft DEF ioVars
<1> QED
  BY <1>1, <1>2, <1>3, <1>4, <1>5, <1>6, <1>7, <1>8, <1>9, <1>10, <1>11, <1>12 DEF IoNext

LEMMA IoInvHolds == IoSpec => []IoInv
  BY IoInvInit, IoInvNext, PTL DEF IoSpec

LEMMA IoInvImplies == IoInv => IoChargedOnce
<1> SUFFICES ASSUME IoInv, ~ioOverlapped, ~ioTorn, NEW o \in Owners
             PROVE  ioSource[o].count + Waiting(o) =< ioRecorded[o]
  BY DEF IoChargedOnce
<1> DEFINE A == {s \in DOMAIN ioStart : ioStart[s].owner = o /\ ~\E c \in IoCpus :
                    ioProgram[c].pc = "delete" /\ ioProgram[c].sector = s}
<1>1. A \subseteq Chargeable(o) /\ Waiting(o) = Cardinality(A)
  BY DEF Chargeable, Waiting
<1>2. IsFiniteSet(Chargeable(o)) /\ Cardinality(Chargeable(o)) \in Nat
  BY ChargeableFinite DEF IoInv
<1>3. ioSource[o].count \in Nat /\ ioRecorded[o] \in Nat /\ ioFinished[o] \in Nat
  BY DEF IoInv, IoTypeOK
<1>4. /\ ioFinished[o] + Cardinality(Chargeable(o)) =< ioRecorded[o]
      /\ ioSource[o].count =< ioFinished[o]
  BY DEF IoInv, IoBalance, IoCounts
<1> HIDE DEF A
<1>5. Cardinality(A) \in Nat /\ Cardinality(A) =< Cardinality(Chargeable(o))
  BY <1>1, <1>2, FS_Subset, FS_CardinalityType
<1> QED
  BY <1>1, <1>2, <1>3, <1>4, <1>5

(* No owner is charged for more block requests than were recorded for it,  *)
(* as long as no two completions of one sector overlap and no element is   *)
(* replaced in the hands of a program (bpf_rq_qos_issue and                *)
(* bpf_rq_qos_done of iotracing).                                          *)
THEOREM RequestsChargedOnce == IoSpec => []IoChargedOnce
<1> QED
  BY IoInvHolds, IoInvImplies, PTL

(* An owner has every charge that a completion made for it, unless two     *)
(* programs were at work for it at one time (bpf_rq_qos_done,              *)
(* bpf_file_read_write of iotracing).                                      *)
THEOREM ChargesKept == IoSpec => []IoChargesKept
<1>1. IoInv => IoChargesKept
  BY DEF IoInv, IoCounts, IoChargesKept
<1> QED
  BY <1>1, IoInvHolds, PTL

----------------------------------------------------------------------------
(* StartTimes: a start time that CPUs share makes what is measured         *)
(* shorter, never longer.                                                  *)
USE StartTimesAssumption

StStates      == {"idle", "store", "in", "find", "delete", "load", "sum"}
StHandlerType == [pc : StStates, began : Int, read : Int, gen : Nat]

(* Type invariant of the start time, the sum and the handlers.             *)
StTypeOK ==
    /\ stTool \in Sums \cup {"cs_delay", "sc_delay"}
    /\ stStart \in Nat
    /\ stTotal \in [gen : Nat, sum : Int]
    /\ stHandler \in [StCpus -> StHandlerType]
    /\ stClock \in Nat
    /\ stSpent \in Int /\ stSummed \in Int
    /\ stMeasured \in [taken : Int, really : Int]
    /\ stRaced \in BOOLEAN /\ stOverlapped \in BOOLEAN

(* Every time was read from the clock; only the tools of sar sum up, and   *)
(* only sc_delay deletes.                                                  *)
StTimes ==
    /\ stStart =< stClock
    /\ \A c \in StCpus :
          /\ stHandler[c].began >= 0
          /\ stHandler[c].pc \in {"store", "in", "find"} => stHandler[c].began =< stClock
          /\ stHandler[c].pc = "store" => /\ stHandler[c].read = stHandler[c].began
                                          /\ stHandler[c].began # 0
          /\ stHandler[c].pc = "find" => /\ stHandler[c].began =< stHandler[c].read
                                         /\ stHandler[c].read =< stClock
          /\ stHandler[c].pc \in {"load", "sum"} => stTool \in Sums
          /\ stHandler[c].pc = "delete" => stTool = "sc_delay"

(* Without a race a start in the map is not older than what any CPU is in, *)
(* nor younger than the end it has read; and what is on its way to the sum *)
(* is not longer than it really took.                                      *)
StFair ==
    /\ \A c \in StCpus :
          /\ stHandler[c].pc \in {"in", "find"} /\ StFound => stHandler[c].began =< stStart
          /\ stHandler[c].pc = "find" => stStart =< stHandler[c].read
          /\ stHandler[c].pc = "load" => stHandler[c].read =< stHandler[c].began
          /\ stHandler[c].pc = "sum" => stHandler[c].read =< stSummed + stHandler[c].began
    /\ \A c, d \in StCpus :
          stHandler[c].pc = "in" /\ stHandler[d].pc = "store" =>
             stHandler[c].began =< stHandler[d].read
    /\ stMeasured.taken \in 0 .. stMeasured.really
    /\ stTotal.sum =< stSummed

(* Without overlap one CPU at most is at it, the start in the map is its,  *)
(* and the sum misses what it has in hand.                                 *)
StExact ==
    /\ \A c, d \in StCpus : c # d => stHandler[c].pc = "idle" \/ stHandler[d].pc = "idle"
    /\ \A c \in StCpus :
          /\ stHandler[c].pc \in {"in", "find"} =>
                stStart = stHandler[c].began /\ stStart # 0
          /\ stHandler[c].pc = "load" => /\ stHandler[c].read = stHandler[c].began
                                         /\ stTotal.sum + stHandler[c].read = stSpent
          /\ stHandler[c].pc = "sum" => /\ stHandler[c].read = stSpent
                                        /\ stHandler[c].gen = stTotal.gen
    /\ stTool \in Sums /\ (\A c \in StCpus : stHandler[c].pc \notin {"load", "sum"}) =>
          stTotal.sum = stSpent
    /\ stMeasured.taken = stMeasured.really

StInv ==
    /\ StTypeOK
    /\ StTimes
    /\ ~stRaced => StFair
    /\ ~stOverlapped => StExact

LEMMA StInvInit == StartTimesInit => StInv
<1> SUFFICES ASSUME StartTimesInit PROVE StInv
  OBVIOUS
<1> DEFINE in == [StIdle EXCEPT !.pc = "in"]
<1>1. /\ StIdle \in StHandlerType /\ StIdle.pc = "idle" /\ StIdle.began = 0
      /\ in \in StHandlerType /\ in.pc = "in" /\ in.began = 0
  BY DEF StIdle, StHandlerType, StStates
<1>2. stHandler \in [StCpus -> {StIdle} \cup IF stTool = "cs_delay" THEN {} ELSE {in}]
  BY DEF StartTimesInit
<1>0. stStart = 0 /\ stClock = 0
  BY DEF StartTimesInit
<1>3. /\ stTool \in Sums \cup {"cs_delay", "sc_delay"} /\ stStart = 0 /\ stClock = 0
      /\ stTotal = [gen |-> IF stTool = "irq" THEN 1 ELSE 0, sum |-> 0]
      /\ stSpent = 0 /\ stSummed = 0 /\ stMeasured = NoMeasure
      /\ stRaced = FALSE /\ stOverlapped = \E c \in StCpus : stHandler[c] # StIdle
  BY DEF StartTimesInit
<1> HIDE DEF in
<1>4. /\ stHandler \in [StCpus -> StHandlerType]
      /\ \A c \in StCpus : /\ stHandler[c].began = 0
                           /\ stHandler[c].pc = "idle" \/ stHandler[c].pc = "in"
  BY <1>1, <1>2
<1>5. /\ stTotal \in [gen : Nat, sum : Int] /\ stTotal.sum = 0
      /\ stMeasured \in [taken : Int, really : Int]
      /\ stMeasured.taken = 0 /\ stMeasured.really = 0
  BY <1>3 DEF NoMeasure
<1>6. StTypeOK
  BY <1>3, <1>4, <1>5 DEF StTypeOK
<1>7. StTimes
  <2>1. ASSUME NEW c \in StCpus
        PROVE  stHandler[c].began >= 0 /\ stHandler[c].began =< stClock
    <3>1. stHandler[c].began = 0
      BY <1>4
    <3>2. stClock = 0
      BY <1>0
    <3> QED
      BY <3>1, <3>2
  <2>s. \A c \in StCpus :
           stHandler[c].pc \notin {"store", "find", "load", "sum", "delete"}
    BY <1>4
  <2>2. stStart =< stClock
    BY <1>3
  <2> QED
    BY <2>1, <2>2, <2>s DEF StTimes
<1>8. StFair
  <2>1. ASSUME NEW c \in StCpus PROVE stHandler[c].began =< stStart
    <3>1. stHandler[c].began = 0
      BY <1>4
    <3>2. stStart = 0
      BY <1>0
    <3> QED
      BY <3>1, <3>2
  <2>s. \A c \in StCpus :
           stHandler[c].pc \notin {"store", "find", "load", "sum", "delete"}
    BY <1>4
  <2>2. stMeasured.taken \in 0 .. stMeasured.really /\ stTotal.sum =< stSummed
    BY <1>3, <1>5
  <2> QED
    BY <2>1, <2>2, <2>s DEF StFair
<1>9. ASSUME ~stOverlapped PROVE StExact
  <2>1. \A c \in StCpus : stHandler[c].pc = "idle"
    BY <1>1, <1>3, <1>9
  <2> QED
    BY <1>3, <1>5, <2>1 DEF StExact
<1> QED
  BY <1>6, <1>7, <1>8, <1>9 DEF StInv

(* The handler of one CPU moves.                                           *)
LEMMA Moved ==
  ASSUME StTypeOK, NEW c \in StCpus, NEW v \in StHandlerType, StMove(c, v)
  PROVE  /\ stHandler' \in [StCpus -> StHandlerType] /\ stHandler'[c] = v
         /\ \A d \in StCpus : d # c => stHandler'[d] = stHandler[d]
  BY DEF StTypeOK, StMove

(* A handler, its fields apart.                                            *)
LEMMA HandlerFields ==
  ASSUME StTypeOK, NEW c \in StCpus
  PROVE  /\ stHandler[c] \in StHandlerType
         /\ stHandler[c].began \in Int /\ stHandler[c].read \in Int /\ stHandler[c].gen \in Nat
         /\ stHandler[c].pc \in StStates
  BY DEF StTypeOK, StHandlerType

LEMMA StInvNext == StInv /\ [StartTimesNext]_stVars => StInv'
<1> SUFFICES ASSUME StInv, [StartTimesNext]_stVars
             PROVE  StInv'
  OBVIOUS
<1>a. /\ StTypeOK /\ StTimes /\ (~stRaced => StFair) /\ (~stOverlapped => StExact)
  BY DEF StInv
<1>b. /\ stTool \in Sums \cup {"cs_delay", "sc_delay"}
      /\ stStart \in Nat /\ stClock \in Nat /\ stSpent \in Int /\ stSummed \in Int
      /\ stTotal \in [gen : Nat, sum : Int] /\ stTotal.sum \in Int /\ stTotal.gen \in Nat
      /\ stRaced \in BOOLEAN /\ stOverlapped \in BOOLEAN
      /\ \A c \in StCpus :
            /\ stHandler[c] \in StHandlerType
            /\ stHandler[c].began \in Int /\ stHandler[c].read \in Int
            /\ stHandler[c].gen \in Nat /\ stHandler[c].pc \in StStates
  BY <1>a, HandlerFields DEF StTypeOK
<1>i. StIdle \in StHandlerType /\ StIdle.pc = "idle" /\ StIdle.began = 0 /\ StIdle.read = 0
  BY DEF StIdle, StHandlerType, StStates
<1>n. /\ NoMeasure \in [taken : Int, really : Int]
      /\ NoMeasure.taken = 0 /\ NoMeasure.really = 0
  BY DEF NoMeasure
<1>1. ASSUME NEW c \in StCpus, StEnter(c) PROVE StInv'
  <2> DEFINE reading == stClock + 1
             v       == [StIdle EXCEPT !.pc = "store", !.began = reading, !.read = reading]
  <2>1. /\ stHandler[c].pc = "idle" /\ stClock' = stClock + 1 /\ StMove(c, v)
        /\ stMeasured' = NoMeasure
        /\ stOverlapped' = (stOverlapped \/ \E d \in StCpus : stHandler[d].pc # "idle")
        /\ UNCHANGED <<stTool, stStart, stTotal, stSpent, stSummed, stRaced>>
    BY <1>1 DEF StEnter, Reading
  <2>n. reading \in Int /\ reading = stClock + 1
    BY <1>b
  <2> HIDE DEF reading
  <2>v. v \in StHandlerType /\ v.pc = "store" /\ v.began = reading /\ v.read = reading
    BY <1>i, <2>n DEF StHandlerType, StStates
  <2> HIDE DEF v
  <2>2. v \in StHandlerType /\ v.pc = "store" /\ v.began = stClock + 1 /\ v.read = stClock + 1
    BY <2>n, <2>v
  <2>3. /\ stHandler' \in [StCpus -> StHandlerType] /\ stHandler'[c] = v
        /\ \A d \in StCpus : d # c => stHandler'[d] = stHandler[d]
    BY <1>a, <2>1, <2>2, Moved
  <2>4. StTypeOK'
    BY <1>a, <1>b, <1>n, <2>1, <2>3 DEF StTypeOK
  <2>5. StTimes'
    BY <1>a, <1>b, <2>1, <2>2, <2>3 DEF StTimes
  <2>6. ASSUME ~stRaced' PROVE StFair'
    BY <1>a, <1>b, <1>n, <2>1, <2>2, <2>3, <2>6 DEF StFair, StFound, StTimes
  <2>7. ASSUME ~stOverlapped' PROVE StExact'
    BY <1>a, <1>b, <1>n, <2>1, <2>2, <2>3, <2>7 DEF StExact
  <2> QED
    BY <2>4, <2>5, <2>6, <2>7 DEF StInv
<1>2. ASSUME NEW c \in StCpus, StStore(c) PROVE StInv'
  <2> DEFINE h == stHandler[c]
             v == [h EXCEPT !.pc = "in"]
  <2>1. /\ h.pc = "store" /\ stStart' = h.read /\ StMove(c, v) /\ stMeasured' = NoMeasure
        /\ stRaced' = (stRaced \/ Holding(c))
        /\ UNCHANGED <<stTool, stTotal, stClock, stSpent, stSummed, stOverlapped>>
    BY <1>2 DEF StStore
  <2>2. /\ h \in StHandlerType /\ h.read = h.began /\ h.began =< stClock /\ h.began \in Nat
        /\ h.began # 0
    BY <1>a, <1>b, <2>1 DEF StTimes
  <2>3. h = stHandler[c]
    OBVIOUS
  <2> HIDE DEF h
  <2>4. v \in StHandlerType /\ v.pc = "in" /\ v.began = h.began
    BY <2>2 DEF StHandlerType, StStates
  <2> HIDE DEF v
  <2>5. /\ stHandler' \in [StCpus -> StHandlerType] /\ stHandler'[c] = v
        /\ \A d \in StCpus : d # c => stHandler'[d] = stHandler[d]
    BY <1>a, <2>1, <2>4, Moved
  <2>6. StTypeOK'
    BY <1>a, <1>b, <1>n, <2>1, <2>2, <2>5 DEF StTypeOK
  <2>7. StTimes'
    BY <1>a, <1>b, <2>1, <2>2, <2>4, <2>5 DEF StTimes
  <2>8. ASSUME ~stRaced' PROVE StFair'
    <3>1. /\ StFair /\ \A d \in StCpus : d # c => stHandler[d].pc \notin {"store", "find"}
      BY <1>a, <2>1, <2>8 DEF Holding
    <3>2. \A d \in StCpus : stHandler[d].pc = "in" => stHandler[d].began =< stStart'
      BY <2>1, <2>3, <3>1 DEF StFair
    <3> QED
      BY <1>a, <1>b, <1>n, <2>1, <2>2, <2>3, <2>4, <2>5, <3>1, <3>2 DEF StFair
  <2>9. ASSUME ~stOverlapped' PROVE StExact'
    BY <1>a, <1>b, <1>n, <2>1, <2>2, <2>3, <2>4, <2>5, <2>9 DEF StExact
  <2> QED
    BY <2>6, <2>7, <2>8, <2>9 DEF StInv
<1>3. ASSUME NEW c \in StCpus, StLeave(c) PROVE StInv'
  <2> DEFINE h       == stHandler[c]
             reading == stClock + 1
             v       == [h EXCEPT !.pc = "find", !.read = reading]
  <2>1. /\ h.pc = "in" /\ stClock' = stClock + 1 /\ StMove(c, v) /\ stMeasured' = NoMeasure
        /\ UNCHANGED <<stTool, stStart, stTotal, stSpent, stSummed, stRaced, stOverlapped>>
    BY <1>3 DEF StLeave, Reading
  <2>2. /\ h \in StHandlerType /\ h.began \in Int /\ h.began =< stClock /\ h.began >= 0
    BY <1>a, <1>b, <2>1 DEF StTimes
  <2>3. h = stHandler[c]
    OBVIOUS
  <2>n. reading \in Int /\ reading = stClock + 1
    BY <1>b
  <2> HIDE DEF h, reading
  <2>v. v \in StHandlerType /\ v.pc = "find" /\ v.began = h.began /\ v.read = reading
    BY <2>2, <2>n DEF StHandlerType, StStates
  <2> HIDE DEF v
  <2>4. v \in StHandlerType /\ v.pc = "find" /\ v.began = h.began /\ v.read = stClock + 1
    BY <2>n, <2>v
  <2>5. /\ stHandler' \in [StCpus -> StHandlerType] /\ stHandler'[c] = v
        /\ \A d \in StCpus : d # c => stHandler'[d] = stHandler[d]
    BY <1>a, <2>1, <2>4, Moved
  <2>6. StTypeOK'
    BY <1>a, <1>b, <1>n, <2>1, <2>2, <2>5 DEF StTypeOK
  <2>7. StTimes'
    BY <1>a, <1>b, <2>1, <2>2, <2>4, <2>5 DEF StTimes
  <2>8. ASSUME ~stRaced' PROVE StFair'
    BY <1>a, <1>b, <1>n, <2>1, <2>2, <2>3, <2>4, <2>5, <2>8 DEF StFair, StFound, StTimes
  <2>9. ASSUME ~stOverlapped' PROVE StExact'
    BY <1>a, <1>b, <1>n, <2>1, <2>2, <2>3, <2>4, <2>5, <2>9 DEF StExact
  <2> QED
    BY <2>6, <2>7, <2>8, <2>9 DEF StInv
<1>4. ASSUME NEW c \in StCpus, StFind(c) PROVE StInv'
  <2> DEFINE h      == stHandler[c]
             taken  == h.read - stStart
             really == h.read - h.began
             after  == AfterFind(h, taken, really)
  <2>1. /\ h.pc = "find"
        /\ ~StFound => StMove(c, StIdle) /\ stMeasured' = NoMeasure /\ stSpent' = stSpent
        /\ StFound => /\ StMove(c, after) /\ stSpent' = stSpent + really
                      /\ stMeasured' = [taken |-> taken, really |-> really]
        /\ UNCHANGED <<stTool, stStart, stTotal, stClock, stSummed, stRaced, stOverlapped>>
    BY <1>4 DEF StFind
  <2>2. /\ h \in StHandlerType /\ h.began \in Int /\ h.read \in Int
        /\ h.began =< h.read /\ taken \in Int /\ really \in Int /\ really >= 0
    BY <1>a, <1>b, <2>1 DEF StTimes
  <2>3. /\ h = stHandler[c]
        /\ ~stRaced /\ StFound => taken \in 0 .. really
        /\ ~stOverlapped => StFound /\ taken = really
    <3>1. h = stHandler[c]
      OBVIOUS
    <3>2. ASSUME ~stRaced, StFound PROVE h.began =< stStart /\ stStart =< h.read
      BY <1>a, <2>1, <3>2 DEF StFair
    <3>3. ASSUME ~stOverlapped PROVE StFound /\ stStart = h.began
      BY <1>a, <2>1, <3>3 DEF StExact, StFound
    <3> QED
      BY <1>b, <2>2, <3>1, <3>2, <3>3
  <2> HIDE DEF h, taken, really
  <2>4. CASE ~StFound \/ stTool = "cs_delay"
    <3>1. /\ StMove(c, StIdle)
          /\ ~StFound => stMeasured' = NoMeasure /\ stSpent' = stSpent
          /\ StFound => /\ stSpent' = stSpent + really
                        /\ stMeasured' = [taken |-> taken, really |-> really]
      BY <2>1, <2>4 DEF AfterFind
    <3>2. /\ stHandler' \in [StCpus -> StHandlerType] /\ stHandler'[c] = StIdle
          /\ \A d \in StCpus : d # c => stHandler'[d] = stHandler[d]
      BY <1>a, <1>i, <3>1, Moved
    <3>3. /\ stMeasured' \in [taken : Int, really : Int] /\ stSpent' \in Int
          /\ ~stRaced => stMeasured'.taken \in 0 .. stMeasured'.really
          /\ ~stOverlapped => stMeasured'.taken = stMeasured'.really
      BY <1>b, <1>n, <2>2, <2>3, <3>1
    <3>4. StTypeOK'
      BY <1>a, <1>b, <2>1, <3>2, <3>3 DEF StTypeOK
    <3>5. StTimes'
      BY <1>a, <1>b, <1>i, <2>1, <3>2 DEF StTimes
    <3>6. ASSUME ~stRaced' PROVE StFair'
      BY <1>a, <1>b, <1>i, <2>1, <3>2, <3>3, <3>6 DEF StFair, StFound
    <3>7. ASSUME ~stOverlapped' PROVE StExact'
      <4>1. stTool = "cs_delay" /\ stTool \notin Sums
        BY <2>1, <2>3, <2>4, <3>7 DEF Sums
      <4> QED
        BY <1>a, <1>b, <1>i, <2>1, <2>3, <3>2, <3>3, <3>7, <4>1 DEF StExact
    <3> QED
      BY <3>4, <3>5, <3>6, <3>7 DEF StInv
  <2>5. CASE StFound /\ stTool # "cs_delay"
    <3>1. /\ StMove(c, after) /\ stSpent' = stSpent + really
          /\ stMeasured' = [taken |-> taken, really |-> really]
      BY <2>1, <2>5
    <3>2. /\ after \in StHandlerType /\ after.read = taken /\ after.began = really
          /\ after.pc = IF stTool \in Sums THEN "load" ELSE "delete"
      BY <2>2, <2>5 DEF AfterFind, StHandlerType, StStates
    <3>s. stTool \notin Sums => stTool = "sc_delay"
      BY <1>b, <2>5
    <3> HIDE DEF after
    <3>3. /\ stHandler' \in [StCpus -> StHandlerType] /\ stHandler'[c] = after
          /\ \A d \in StCpus : d # c => stHandler'[d] = stHandler[d]
      BY <1>a, <3>1, <3>2, Moved
    <3>4. /\ stMeasured' \in [taken : Int, really : Int] /\ stSpent' \in Int
          /\ stMeasured'.taken = taken /\ stMeasured'.really = really
      BY <1>b, <2>2, <3>1
    <3>5. StTypeOK'
      BY <1>a, <1>b, <2>1, <3>3, <3>4 DEF StTypeOK
    <3>6. StTimes'
      BY <1>a, <1>b, <2>1, <2>2, <3>2, <3>3, <3>s DEF StTimes
    <3>7. ASSUME ~stRaced' PROVE StFair'
      BY <1>a, <1>b, <2>1, <2>2, <2>3, <2>5, <3>2, <3>3, <3>4, <3>7 DEF StFair, StFound
    <3>8. ASSUME ~stOverlapped' PROVE StExact'
      <4>1. /\ StExact /\ taken = really
            /\ \A d \in StCpus : d # c => stHandler'[d].pc = "idle"
        BY <1>a, <2>1, <2>3, <3>3, <3>8 DEF StExact
      <4>2. stTool \in Sums => stTotal.sum = stSpent
        <5>1. \A d \in StCpus : stHandler[d].pc \notin {"load", "sum"}
          BY <2>1, <2>3, <3>3, <4>1
        <5> QED
          BY <4>1, <5>1 DEF StExact
      <4> QED
        BY <1>b, <2>1, <2>2, <3>1, <3>2, <3>3, <3>4, <4>1, <4>2, <3>s DEF StExact
    <3> QED
      BY <3>5, <3>6, <3>7, <3>8 DEF StInv
  <2> QED
    BY <2>4, <2>5
<1>5. ASSUME NEW c \in StCpus, StDelete(c) PROVE StInv'
  <2>1. /\ stHandler[c].pc = "delete" /\ stStart' = 0 /\ StMove(c, StIdle)
        /\ stMeasured' = NoMeasure
        /\ UNCHANGED <<stTool, stTotal, stClock, stSpent, stSummed, stRaced, stOverlapped>>
    BY <1>5 DEF StDelete
  <2>2. stTool = "sc_delay" /\ stTool \notin Sums
    BY <1>a, <2>1 DEF StTimes, Sums
  <2>3. /\ stHandler' \in [StCpus -> StHandlerType] /\ stHandler'[c] = StIdle
        /\ \A d \in StCpus : d # c => stHandler'[d] = stHandler[d]
    BY <1>a, <1>i, <2>1, Moved
  <2>4. StTypeOK'
    BY <1>a, <1>b, <1>n, <2>1, <2>3 DEF StTypeOK
  <2>5. StTimes'
    BY <1>a, <1>b, <1>i, <2>1, <2>3 DEF StTimes
  <2>6. ASSUME ~stRaced' PROVE StFair'
    <3>1. \A d \in StCpus : stHandler[d].pc = "find" => stHandler[d].read >= 0
      BY <1>a, <1>b DEF StTimes
    <3> QED
      BY <1>a, <1>b, <1>i, <1>n, <2>1, <2>2, <2>3, <2>6, <3>1 DEF StFair, StFound
  <2>7. ASSUME ~stOverlapped' PROVE StExact'
    BY <1>a, <1>b, <1>i, <1>n, <2>1, <2>2, <2>3, <2>7 DEF StExact
  <2> QED
    BY <2>4, <2>5, <2>6, <2>7 DEF StInv
<1>6. ASSUME NEW c \in StCpus, StLoad(c) PROVE StInv'
  <2> DEFINE h   == stHandler[c]
             sum == h.read + stTotal.sum
             gen == stTotal.gen
             v   == [h EXCEPT !.pc = "sum", !.read = sum, !.gen = gen]
  <2>1. /\ h.pc = "load" /\ StMove(c, v) /\ stMeasured' = NoMeasure
        /\ UNCHANGED <<stTool, stStart, stTotal, stClock, stSpent, stSummed, stRaced,
                       stOverlapped>>
    BY <1>6 DEF StLoad
  <2>2. /\ h \in StHandlerType /\ h.began \in Int /\ h.began >= 0 /\ h.read \in Int
        /\ sum \in Int /\ gen \in Nat /\ stTool \in Sums
    BY <1>a, <1>b, <2>1 DEF StTimes
  <2>3. h = stHandler[c] /\ sum = h.read + stTotal.sum /\ gen = stTotal.gen
    OBVIOUS
  <2> HIDE DEF h, sum, gen
  <2>4. v \in StHandlerType /\ v.pc = "sum" /\ v.began = h.began /\ v.read = sum /\ v.gen = gen
    BY <2>2 DEF StHandlerType, StStates
  <2> HIDE DEF v
  <2>5. /\ stHandler' \in [StCpus -> StHandlerType] /\ stHandler'[c] = v
        /\ \A d \in StCpus : d # c => stHandler'[d] = stHandler[d]
    BY <1>a, <2>1, <2>4, Moved
  <2>6. StTypeOK'
    BY <1>a, <1>b, <1>n, <2>1, <2>5 DEF StTypeOK
  <2>7. StTimes'
    BY <1>a, <1>b, <2>1, <2>2, <2>4, <2>5 DEF StTimes
  <2>8. ASSUME ~stRaced' PROVE StFair'
    <3>1. sum =< stSummed + h.began
      <4>1. h.read =< h.began /\ stTotal.sum =< stSummed
        BY <1>a, <2>1, <2>3, <2>8 DEF StFair
      <4> QED
        BY <1>b, <2>2, <2>3, <4>1
    <3> QED
      BY <1>a, <1>b, <1>n, <2>1, <2>2, <2>4, <2>5, <2>8, <3>1 DEF StFair, StFound
  <2>9. ASSUME ~stOverlapped' PROVE StExact'
    <3>1. sum = stSpent
      BY <1>a, <1>b, <2>1, <2>2, <2>3, <2>9 DEF StExact
    <3>2. /\ \A d \in StCpus : d # c => stHandler'[d].pc = "idle"
          /\ stMeasured'.taken = stMeasured'.really
      BY <1>a, <1>n, <2>1, <2>3, <2>5, <2>9 DEF StExact
    <3>3. v.pc = "sum" /\ v.read = stSpent' /\ v.gen = stTotal'.gen
      BY <2>1, <2>3, <2>4, <3>1
    <3>4. \A d \in StCpus : stHandler'[d].pc # "idle" => d = c /\ stHandler'[d] = v
      BY <2>5, <3>2
    <3>5. ~\A d \in StCpus : stHandler'[d].pc \notin {"load", "sum"}
      BY <2>5, <3>3
    <3> QED
      BY <3>2, <3>3, <3>4, <3>5 DEF StExact
  <2> QED
    BY <2>6, <2>7, <2>8, <2>9 DEF StInv
<1>7. ASSUME NEW c \in StCpus, StSum(c) PROVE StInv'
  <2> DEFINE h == stHandler[c]
  <2>1. /\ h.pc = "sum" /\ StMove(c, StIdle) /\ stMeasured' = NoMeasure
        /\ stSummed' = stSummed + h.began
        /\ stTotal' = IF h.gen = 0 THEN [gen |-> stTotal.gen + 1, sum |-> h.read]
                      ELSE IF h.gen = stTotal.gen THEN [stTotal EXCEPT !.sum = h.read]
                      ELSE stTotal
        /\ UNCHANGED <<stTool, stStart, stClock, stSpent, stRaced, stOverlapped>>
    BY <1>7 DEF StSum
  <2>2. /\ h.began \in Int /\ h.began >= 0 /\ h.read \in Int /\ h.gen \in Nat /\ stTool \in Sums
    BY <1>a, <1>b, <2>1 DEF StTimes
  <2>3. h = stHandler[c]
    OBVIOUS
  <2> HIDE DEF h
  <2>4. /\ stTotal' \in [gen : Nat, sum : Int]
        /\ stTotal'.sum = h.read \/ stTotal'.sum = stTotal.sum
        /\ h.gen = stTotal.gen => stTotal'.sum = h.read
    BY <1>b, <2>1, <2>2
  <2>5. /\ stHandler' \in [StCpus -> StHandlerType] /\ stHandler'[c] = StIdle
        /\ \A d \in StCpus : d # c => stHandler'[d] = stHandler[d]
    BY <1>a, <1>i, <2>1, Moved
  <2>6. StTypeOK'
    BY <1>a, <1>b, <1>n, <2>1, <2>2, <2>4, <2>5 DEF StTypeOK
  <2>7. StTimes'
    BY <1>a, <1>b, <1>i, <2>1, <2>5 DEF StTimes
  <2>8. ASSUME ~stRaced' PROVE StFair'
    <3>1. StFair /\ stSummed' \in Int /\ stSummed =< stSummed'
      BY <1>a, <1>b, <2>1, <2>2, <2>8
    <3>2. stTotal'.sum =< stSummed'
      BY <1>b, <2>1, <2>2, <2>3, <2>4, <3>1 DEF StFair
    <3>3. \A d \in StCpus : stHandler[d].pc = "sum" =>
             stHandler[d].read =< stSummed' + stHandler[d].began
      BY <1>b, <3>1 DEF StFair
    <3> QED
      BY <1>a, <1>b, <1>i, <1>n, <2>1, <2>5, <3>1, <3>2, <3>3 DEF StFair, StFound
  <2>9. ASSUME ~stOverlapped' PROVE StExact'
    <3>1. /\ StExact /\ stTotal'.sum = stSpent
          /\ \A d \in StCpus : stHandler'[d].pc = "idle"
      BY <1>a, <1>i, <2>1, <2>3, <2>4, <2>5, <2>9 DEF StExact
    <3> QED
      BY <1>n, <2>1, <3>1 DEF StExact
  <2> QED
    BY <2>6, <2>7, <2>8, <2>9 DEF StInv
<1>8. CASE UNCHANGED stVars
  <2>1. StTypeOK' /\ StTimes'
    BY <1>a, <1>8 DEF stVars, StTypeOK, StTimes
  <2>2. (~stRaced => StFair') /\ (~stOverlapped => StExact')
    BY <1>a, <1>8 DEF stVars, StFair, StExact, StFound
  <2> QED
    BY <1>8, <2>1, <2>2 DEF StInv, stVars
<1> QED
  BY <1>1, <1>2, <1>3, <1>4, <1>5, <1>6, <1>7, <1>8 DEF StartTimesNext

LEMMA StInvImplies == StInv => StNeverTooLong
<1> SUFFICES ASSUME StInv PROVE StNeverTooLong
  OBVIOUS
<1>1. ASSUME ~stRaced PROVE stMeasured.taken \in 0 .. stMeasured.really /\ stTotal.sum =< stSummed
  BY <1>1 DEF StInv, StFair
<1>2. ASSUME ~stOverlapped
      PROVE  /\ stMeasured.taken = stMeasured.really
             /\ stTool \in Sums /\ (\A c \in StCpus : stHandler[c].pc \in {"idle", "in"})
                   => stTotal.sum = stSpent
  BY <1>2 DEF StInv, StExact
<1> QED
  BY <1>1, <1>2 DEF StNeverTooLong

(* CPUs that share one start time make a measured time shorter or lose it, *)
(* never longer, and a sum never exceeds what was spent - but for a start  *)
(* stored between a reading of the clock and its use; and alone they are   *)
(* exact (trace_softirq_exit, trace_irq_handler_exit, schedule_exit,       *)
(* sys_exit_execve of cpu_watcher).                                        *)
THEOREM TimesNeverTooLong == StartTimesSpec => []StNeverTooLong
<1> QED
  BY StInvInit, StInvNext, StInvImplies, PTL DEF StartTimesSpec
=============================================================================
