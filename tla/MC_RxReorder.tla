---------------------------- MODULE MC_RxReorder ----------------------------
(* Instances of RxReorder for TLC. *)
EXTENDS RxReorder
=============================================================================
