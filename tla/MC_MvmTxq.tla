----------------------------- MODULE MC_MvmTxq -----------------------------
(* An instance of MvmTxq for TLC; its constants are in the configurations. *)
EXTENDS MvmTxq
=============================================================================
