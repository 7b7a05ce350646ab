--------------------------- MODULE RmsQueueProofs ---------------------------
(***************************************************************************)
(* RmsQueue, for every number of slots, contexts and pids: the spin lock   *)
(* excludes, and the circular buffer implements the bounded FIFO.          *)
(***************************************************************************)
EXTENDS RmsQueue, SequenceTheorems, TLAPS

Critical == {"push_locked", "push_written", "pop_locked", "pop_read"}

(* The lock is held by the one context that is in its critical section.    *)
Exclusion == \A c \in Contexts : pc[c] \in Critical <=> lock = c

(* What a context in its critical section has found or done.               *)
Progress == \A c \in Contexts :
  /\ pc[c] \in {"push_spin", "push_locked", "push_written"} => arg[c] \in Pids
  /\ pc[c] = "push_written" => ~full_queue /\ slots[tail] = arg[c]
  /\ pc[c] = "pop_read" => ~empty_queue /\ slots[head] = arg[c]

IInv == TypeOK /\ Exclusion /\ Progress

USE SlotsAssumption, NoContextAssumption, NoPidAssumption

(* An index moves on by one slot, and from the last slot to the first.     *)
LEMMA NextIndex ==
  \A i \in Indices :
    /\ (i + 1) % MAX_TASK_NR = (IF i + 1 = MAX_TASK_NR THEN 0 ELSE i + 1)
    /\ (i + 1) % MAX_TASK_NR \in Indices
  BY DEF Indices

(* The inductive invariant holds of the empty queue.                       *)
LEMMA InitInv == Init => IInv
  BY DEF Init, IInv, TypeOK, Exclusion, Progress, States, Results, Indices, Critical

(* Every step of a push or a pop, by any context, preserves it.            *)
LEMMA StepInv == IInv /\ [Next]_vars => IInv'
<1> SUFFICES ASSUME IInv, [Next]_vars PROVE IInv'
  OBVIOUS
<1> USE DEF IInv, TypeOK, Exclusion, Progress, Critical, States, Goto
<1>1. ASSUME NEW c \in Contexts, NEW pid \in Pids, CallPush(c, pid)
      PROVE  IInv'
  BY <1>1 DEF CallPush, Return, Results, full_queue, empty_queue
<1>2. ASSUME NEW c \in Contexts, CallPop(c)
      PROVE  IInv'
  BY <1>2 DEF CallPop, Return, Results, full_queue, empty_queue
<1>3. ASSUME NEW c \in Contexts, PushLock(c)
      PROVE  IInv'
  BY <1>3 DEF PushLock, Acquire, full_queue, empty_queue
<1>4. ASSUME NEW c \in Contexts, PopLock(c)
      PROVE  IInv'
  BY <1>4 DEF PopLock, Acquire, full_queue, empty_queue
<1>5. ASSUME NEW c \in Contexts, PushFull(c)
      PROVE  IInv'
  BY <1>5 DEF PushFull, Release, Return, Results, full_queue, empty_queue
<1>6. ASSUME NEW c \in Contexts, PushWrite(c)
      PROVE  IInv'
  BY <1>6 DEF PushWrite, full_queue, empty_queue, Indices
<1>7. ASSUME NEW c \in Contexts, PushAdvance(c)
      PROVE  IInv'
  <2>1. tail' \in Indices
    BY <1>7, NextIndex DEF PushAdvance
  <2> QED
    BY <1>7, <2>1 DEF PushAdvance, Release, Return, Results
<1>8. ASSUME NEW c \in Contexts, PopEmpty(c)
      PROVE  IInv'
  BY <1>8 DEF PopEmpty, Release, Return, Results, full_queue, empty_queue
<1>9. ASSUME NEW c \in Contexts, PopRead(c)
      PROVE  IInv'
  BY <1>9 DEF PopRead, full_queue, empty_queue
<1>10. ASSUME NEW c \in Contexts, PopAdvance(c)
       PROVE  IInv'
  <2>1. head' \in Indices
    BY <1>10, NextIndex DEF PopAdvance
  <2> QED
    BY <1>10, <2>1 DEF PopAdvance, Release, Return, Results
<1>11. CASE UNCHANGED vars
  BY <1>11 DEF vars, Results, full_queue, empty_queue
<1> QED
  BY <1>1, <1>2, <1>3, <1>4, <1>5, <1>6, <1>7, <1>8, <1>9, <1>10, <1>11
     DEF Next, Finish

(* The inductive invariant holds in every reachable state.                 *)
LEMMA Invariant == Spec => []IInv
  BY InitInv, StepInv, PTL DEF Spec

(* The two indices stay inside the buffer and what a call returns is one   *)
(* of the results of cpu_queue_push and cpu_queue_pop.                     *)
THEOREM TypeCorrect == Spec => []TypeOK
<1>1. IInv => TypeOK
  BY DEF IInv
<1> QED
  BY <1>1, Invariant, PTL

(* task_queue.lock is held by exactly the context between bpf_spin_lock    *)
(* and bpf_spin_unlock.                                                    *)
THEOREM LockExcludes == Spec => []Exclusion
<1>1. IInv => Exclusion
  BY DEF IInv
<1> QED
  BY <1>1, Invariant, PTL

----------------------------------------------------------------------------

Content == Pids \cup {NoPid}

(* The pids between head and tail are a sequence of Length pids.           *)
ContentsIsSeq ==
  /\ Length \in 0 .. MAX_TASK_NR - 1
  /\ Contents \in Seq(Content)
  /\ Len(Contents) = Length
  /\ \A i \in 1 .. Length : Contents[i] = slots[Slot(i)] /\ Slot(i) \in Indices

LEMMA ContentsSeq == TypeOK => ContentsIsSeq
<1> SUFFICES ASSUME TypeOK PROVE ContentsIsSeq
  OBVIOUS
<1>1. Length \in 0 .. MAX_TASK_NR - 1
  BY DEF TypeOK, Length, Indices
<1>2. \A i \in 1 .. Length : Slot(i) \in Indices
  BY DEF TypeOK, Length, Indices, Slot
<1>3. Contents \in [1 .. Length -> Content]
  BY <1>2 DEF TypeOK, Contents, Content
<1>4. Contents \in Seq(Content)
  BY <1>1, <1>3, SeqDef
<1>5. Len(Contents) = Length
  BY <1>1, <1>3, <1>4, LenProperties
<1>6. \A i \in 1 .. Length : Contents[i] = slots[Slot(i)]
  BY DEF Contents
<1> QED
  BY <1>1, <1>2, <1>4, <1>5, <1>6 DEF ContentsIsSeq

LEMMA ContentsSeqPrime == TypeOK' => ContentsIsSeq'
  BY ContentsSeq, PTL

(* full_queue keeps one slot free; empty_queue is an empty sequence.       *)
LEMMA FullAndEmpty ==
  ASSUME TypeOK
  PROVE  /\ full_queue <=> Length = MAX_TASK_NR - 1
         /\ empty_queue <=> Length = 0
         /\ empty_queue <=> Contents = << >>
         /\ tail < MAX_TASK_NR /\ head < MAX_TASK_NR
<1>1. full_queue <=> Length = MAX_TASK_NR - 1
  BY NextIndex DEF full_queue, Length, TypeOK, Indices
<1>2. empty_queue <=> Length = 0
  BY DEF empty_queue, Length, TypeOK, Indices
<1>3. Length = 0 <=> Contents = << >>
  BY ContentsSeq, EmptySeq DEF ContentsIsSeq
<1> QED
  BY <1>1, <1>2, <1>3 DEF TypeOK, Indices

(* The slot of the next push lies outside the contents of the queue.       *)
LEMMA WriteOutside ==
  ASSUME TypeOK, ~full_queue
  PROVE  \A i \in 1 .. Length : Slot(i) # tail
  BY NextIndex DEF full_queue, TypeOK, Indices, Length, Slot

(* A step that leaves the buffer and its indices alone leaves Contents.    *)
LEMMA SameContents ==
  ASSUME UNCHANGED <<slots, head, tail>> PROVE Contents' = Contents
  BY DEF Contents, Length, Slot

(* Writing the slot at tail does not change the contents.                  *)
LEMMA WriteKeepsContents ==
  ASSUME TypeOK, NEW c \in Contexts, PushWrite(c)
  PROVE  Contents' = Contents
<1>1. Length' = Length /\ \A i \in 1 .. Length : Slot(i)' = Slot(i)
  BY DEF PushWrite, Length, Slot
<1>2. \A i \in 1 .. Length : slots'[Slot(i)] = slots[Slot(i)]
  BY WriteOutside, ContentsSeq DEF PushWrite, TypeOK, ContentsIsSeq
<1> QED
  BY <1>1, <1>2 DEF Contents

(* Moving tail on appends the pid in the slot it leaves.                   *)
LEMMA AdvanceTailAppends ==
  ASSUME TypeOK, TypeOK', ~full_queue,
         tail' = (tail + 1) % MAX_TASK_NR, UNCHANGED <<slots, head>>
  PROVE  Contents' = Append(Contents, slots[tail])
<1> DEFINE longer == Append(Contents, slots[tail])
<1>1. ContentsIsSeq /\ ContentsIsSeq'
  BY ContentsSeq, ContentsSeqPrime
<1>2. slots[tail] \in Content
  BY DEF TypeOK, Content
<1>3. /\ longer \in Seq(Content)
      /\ Len(longer) = Length + 1
      /\ \A i \in 1 .. Length : longer[i] = Contents[i]
      /\ longer[Length + 1] = slots[tail]
  BY <1>1, <1>2 DEF ContentsIsSeq
<1>4. tail' = (IF tail + 1 = MAX_TASK_NR THEN 0 ELSE tail + 1) /\ tail' # head
  BY NextIndex DEF TypeOK, full_queue
<1>5. Length' = Length + 1
  BY <1>4 DEF Length, TypeOK, Indices
<1>6. ASSUME NEW i \in 1 .. Length PROVE Slot(i)' = Slot(i)
  BY DEF Slot
<1>7. Slot(Length + 1) = tail
  BY <1>4 DEF Slot, Length, TypeOK, Indices
<1>8. \A i \in 1 .. Length' : Contents'[i] = longer[i]
  <2> SUFFICES ASSUME NEW i \in 1 .. Length' PROVE Contents'[i] = longer[i]
    OBVIOUS
  <2>1. Contents'[i] = slots[Slot(i)']
    BY <1>1 DEF ContentsIsSeq
  <2>2. CASE i \in 1 .. Length
    BY <2>1, <2>2, <1>1, <1>3, <1>6 DEF ContentsIsSeq
  <2>3. CASE i = Length + 1
    BY <2>1, <2>3, <1>3, <1>7 DEF Slot
  <2> QED
    BY <2>2, <2>3, <1>5, <1>1 DEF ContentsIsSeq
<1> QED
  BY <1>1, <1>3, <1>5, <1>8, SeqEqual DEF ContentsIsSeq

(* Moving head on removes the oldest pid, which is in the slot it leaves.  *)
LEMMA AdvanceHeadRemoves ==
  ASSUME TypeOK, TypeOK', ~empty_queue,
         head' = (head + 1) % MAX_TASK_NR, UNCHANGED <<slots, tail>>
  PROVE  /\ Contents # << >>
         /\ Contents' = Tail(Contents)
         /\ Head(Contents) = slots[head]
<1>1. ContentsIsSeq /\ ContentsIsSeq'
  BY ContentsSeq, ContentsSeqPrime
<1>2. Contents # << >>
  BY FullAndEmpty
<1>3. /\ Tail(Contents) \in Seq(Content)
      /\ Len(Tail(Contents)) = Length - 1
      /\ \A i \in 1 .. Length - 1 : Tail(Contents)[i] = Contents[i + 1]
  BY <1>1, <1>2, HeadTailProperties DEF ContentsIsSeq
<1>4. head' = (IF head + 1 = MAX_TASK_NR THEN 0 ELSE head + 1) /\ head # tail
  BY NextIndex DEF TypeOK, empty_queue
<1>5. Length' = Length - 1 /\ Length > 0
  BY <1>4 DEF Length, TypeOK, Indices
<1>6. ASSUME NEW i \in 1 .. Length - 1 PROVE Slot(i)' = Slot(i + 1)
  <2>1. /\ head \in Nat /\ head < MAX_TASK_NR /\ Length \in Nat /\ Length < MAX_TASK_NR
        /\ i \in Nat /\ 0 < i /\ i < Length
    BY <1>1 DEF TypeOK, Indices, ContentsIsSeq
  <2> QED
    BY <2>1, <1>4 DEF Slot
<1>7. \A i \in 1 .. Length' : Contents'[i] = Tail(Contents)[i]
  <2> SUFFICES ASSUME NEW i \in 1 .. Length' PROVE Contents'[i] = Tail(Contents)[i]
    OBVIOUS
  <2>1. i \in 1 .. Length - 1 /\ i + 1 \in 1 .. Length
    BY <1>1, <1>5 DEF ContentsIsSeq
  <2>2. Contents'[i] = slots[Slot(i + 1)]
    BY <2>1, <1>1, <1>6 DEF ContentsIsSeq
  <2> QED
    BY <2>1, <2>2, <1>1, <1>3 DEF ContentsIsSeq
<1>8. Contents' = Tail(Contents)
  BY <1>1, <1>3, <1>5, <1>7, SeqEqual DEF ContentsIsSeq
<1>9. Slot(1) = head
  BY DEF Slot, TypeOK, Indices
<1> QED
  BY <1>1, <1>2, <1>5, <1>8, <1>9 DEF ContentsIsSeq

----------------------------------------------------------------------------

(* Initially the buffer holds no pid.                                      *)
LEMMA RefinesInit == Init => Fifo!FifoInit
<1> SUFFICES ASSUME Init PROVE Fifo!FifoInit
  OBVIOUS
<1>1. TypeOK /\ empty_queue
  BY InitInv DEF IInv, Init, empty_queue
<1> QED
  BY <1>1, FullAndEmpty DEF Init, Fifo!FifoInit

(* A call clears the result; the write of head or tail (PushAdvance and    *)
(* PopAdvance) or the failed test is where the call takes effect; every    *)
(* other step leaves the FIFO as it is.                                    *)
LEMMA RefinesNext == IInv /\ IInv' /\ [Next]_vars => [Fifo!FifoNext]_(Fifo!fifoVars)
<1> SUFFICES ASSUME IInv, IInv', [Next]_vars
             PROVE  [Fifo!FifoNext]_(Fifo!fifoVars)
  OBVIOUS
<1> USE DEF IInv
<1>1. TypeOK /\ TypeOK' /\ ContentsIsSeq
  BY ContentsSeq
<1>2. ASSUME NEW c \in Contexts,
             (\E pid \in Pids : CallPush(c, pid)) \/ CallPop(c)
      PROVE  Fifo!Call(c)
  <2>1. UNCHANGED <<slots, head, tail>>
    BY <1>2 DEF CallPush, CallPop
  <2> QED
    BY <1>2, <2>1, SameContents DEF CallPush, CallPop, Return, Fifo!Call
<1>3. ASSUME NEW c \in Contexts, PushLock(c) \/ PopLock(c) \/ PopRead(c)
      PROVE  UNCHANGED Fifo!fifoVars
  <2>1. UNCHANGED <<slots, head, tail, result>>
    BY <1>3 DEF PushLock, PopLock, PopRead
  <2> QED
    BY <2>1, SameContents DEF Fifo!fifoVars
<1>4. ASSUME NEW c \in Contexts, PushWrite(c)
      PROVE  UNCHANGED Fifo!fifoVars
  BY <1>1, <1>4, WriteKeepsContents DEF PushWrite, Fifo!fifoVars
<1>5. ASSUME NEW c \in Contexts, PushFull(c)
      PROVE  Fifo!PushFull(c)
  <2>1. Len(Contents) = MAX_TASK_NR - 1
    BY <1>1, <1>5, FullAndEmpty DEF PushFull, ContentsIsSeq, TypeOK, Indices
  <2>2. Contents' = Contents
    BY <1>5, SameContents DEF PushFull
  <2> QED
    BY <1>5, <2>1, <2>2 DEF PushFull, Return, Fifo!PushFull
<1>6. ASSUME NEW c \in Contexts, PushAdvance(c)
      PROVE  Fifo!Push(c)
  <2>1. /\ arg[c] \in Pids
        /\ ~full_queue
        /\ slots[tail] = arg[c]
    BY <1>6 DEF PushAdvance, Goto, Progress
  <2>2. Len(Contents) < MAX_TASK_NR - 1
    BY <1>1, <2>1, FullAndEmpty DEF ContentsIsSeq
  <2>3. Contents' = Append(Contents, arg[c])
    BY <1>1, <1>6, <2>1, AdvanceTailAppends DEF PushAdvance
  <2> QED
    BY <1>6, <2>1, <2>2, <2>3 DEF PushAdvance, Return, Fifo!Push
<1>7. ASSUME NEW c \in Contexts, PopEmpty(c)
      PROVE  Fifo!PopEmpty(c)
  <2>1. Contents = << >>
    BY <1>1, <1>7, FullAndEmpty DEF PopEmpty, TypeOK, Indices
  <2>2. Contents' = Contents
    BY <1>7, SameContents DEF PopEmpty
  <2> QED
    BY <1>7, <2>1, <2>2 DEF PopEmpty, Return, Fifo!PopEmpty
<1>8. ASSUME NEW c \in Contexts, PopAdvance(c)
      PROVE  Fifo!Pop(c)
  <2>1. ~empty_queue /\ slots[head] = arg[c]
    BY <1>8 DEF PopAdvance, Goto, Progress
  <2>2. /\ Contents # << >>
        /\ Contents' = Tail(Contents)
        /\ Head(Contents) = arg[c]
    BY <1>1, <1>8, <2>1, AdvanceHeadRemoves DEF PopAdvance
  <2> QED
    BY <1>8, <2>2 DEF PopAdvance, Return, Fifo!Pop
<1>9. CASE UNCHANGED vars
  BY <1>9, SameContents DEF vars, Fifo!fifoVars
<1> QED
  BY <1>2, <1>3, <1>4, <1>5, <1>6, <1>7, <1>8, <1>9
     DEF Next, Finish, Fifo!FifoNext

(* The circular buffer of scx_rms.bpf.c implements the bounded FIFO: every *)
(* pid is popped once, in the order of the pushes, and only a full queue   *)
(* refuses one, whatever the number of contexts and slots.                 *)
THEOREM QueueImplementsFifo == Spec => ImplementsFifo
<1>1. Spec => Fifo!FifoInit /\ [][Fifo!FifoNext]_(Fifo!fifoVars)
  BY RefinesInit, RefinesNext, Invariant, PTL DEF Spec
<1> QED
  BY <1>1 DEF ImplementsFifo, Fifo!FifoSpec
=============================================================================
