------------------------------ MODULE MC_BaTx ------------------------------
(* Instances of BaTx for TLC. *)
EXTENDS BaTx
=============================================================================
