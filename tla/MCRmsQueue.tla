----------------------------- MODULE MCRmsQueue -----------------------------
(***************************************************************************)
(* RmsQueue for TLC: two contexts and a buffer of three slots, so that the *)
(* indices wrap, the queue fills with two pids and both contexts can push  *)
(* or pop at once.                                                         *)
(***************************************************************************)
EXTENDS RmsQueue

=============================================================================
