------------------------------ MODULE MCHistory ------------------------------
(***************************************************************************)
(* The instances of MCEngine with the order of conflicts recorded.         *)
(***************************************************************************)
EXTENDS MCEngine, Serializability

=============================================================================
