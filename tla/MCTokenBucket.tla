--------------------------- MODULE MCTokenBucket ---------------------------
(* Two CPUs handle packets of two flows; the map has room for the bucket of*)
(* either.  A second has 2 ns and a flow 3 bytes per second, so refills are*)
(* rounded; a bucket holds 3 bytes; a time that runs backwards wraps.      *)
EXTENDS TokenBucket, TLC

CONSTANTS c0, c1, steady, shared

MCCPUs == {c0, c1}
MCKeys == {steady, shared}

EitherCPU == Permutations(MCCPUs)
=============================================================================
