-------------------------- MODULE MCManagerOverlap --------------------------
(***************************************************************************)
(* The constants of MCManager for requests that overlap.                   *)
(***************************************************************************)
EXTENDS MCManager, ManagerOverlap
=============================================================================
