------------------------------ MODULE MCPortal ------------------------------
(***************************************************************************)
(* The portal on a small instance.                                         *)
(***************************************************************************)
EXTENDS Portal, TLC

Symmetry == Permutations(ZammadOrgs) \cup Permutations(Requests)
=============================================================================
