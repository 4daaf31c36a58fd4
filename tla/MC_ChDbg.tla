------------------------------ MODULE MC_ChDbg ------------------------------
(* ChDbg for TLC: two writers, each of whom may go round the ring alone.   *)
EXTENDS ChDbg
=============================================================================
