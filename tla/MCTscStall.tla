------------------------------ MODULE MCTscStall ------------------------------
(***************************************************************************)
(* TscStall for TLC: a counter of 128 ticks in place of 2^32, milliseconds  *)
(* of 5 units in place of 1000, and every position of the counter.          *)
(***************************************************************************)
EXTENDS TscStall
=============================================================================
