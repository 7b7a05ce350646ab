---------------------------- MODULE BoundedFifo ----------------------------
(***************************************************************************)
(* What the RMS scheduler expects of a per-CPU ready queue: a FIFO of pids *)
(* that holds at most Capacity of them.  A push is atomic and fails, with  *)
(* no effect, exactly when the queue is full; a pop is atomic and fails    *)
(* exactly when it is empty.  RmsQueue, the circular buffer of             *)
(* scx_rms.bpf.c, is shown to implement this specification.                *)
(***************************************************************************)
EXTENDS Naturals, Sequences

CONSTANTS
  Contexts,   \* the execution contexts that call push and pop
  Pids,       \* the pids that are queued
  Capacity    \* the most pids the queue holds

VARIABLES
  fifo,       \* the queued pids, oldest first
  result      \* result[c]: what the last finished call of c returned

(* A push returns TRUE or FALSE; a pop returns the pid or FALSE.  A call   *)
(* that has not returned yet has no result.                                *)
NoResult == [op |-> "none"]
Pushed(ok)  == [op |-> "push", ok |-> ok]
Popped(pid) == [op |-> "pop", ok |-> TRUE, pid |-> pid]
PopFailed   == [op |-> "pop", ok |-> FALSE]

fifoVars == <<fifo, result>>

FifoInit ==
  /\ fifo = << >>
  /\ result = [c \in Contexts |-> NoResult]

(* A context calls push or pop: the result of its last call is forgotten.  *)
Call(c) ==
  /\ result' = [result EXCEPT ![c] = NoResult]
  /\ UNCHANGED fifo

Push(c) == \E pid \in Pids :
  /\ Len(fifo) < Capacity
  /\ fifo' = Append(fifo, pid)
  /\ result' = [result EXCEPT ![c] = Pushed(TRUE)]

PushFull(c) ==
  /\ Len(fifo) = Capacity
  /\ result' = [result EXCEPT ![c] = Pushed(FALSE)]
  /\ UNCHANGED fifo

Pop(c) ==
  /\ fifo # << >>
  /\ fifo' = Tail(fifo)
  /\ result' = [result EXCEPT ![c] = Popped(Head(fifo))]

PopEmpty(c) ==
  /\ fifo = << >>
  /\ result' = [result EXCEPT ![c] = PopFailed]
  /\ UNCHANGED fifo

FifoNext == \E c \in Contexts :
  Call(c) \/ Push(c) \/ PushFull(c) \/ Pop(c) \/ PopEmpty(c)

FifoSpec == FifoInit /\ [][FifoNext]_fifoVars
=============================================================================
