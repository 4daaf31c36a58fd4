---------------------------- MODULE MC_WiphyWork ----------------------------
(* Instances of WiphyWork for TLC. *)
EXTENDS WiphyWork
=============================================================================
