------------------------------- MODULE MCCache ------------------------------
(***************************************************************************)
(* A tick stands for the length of the shortest poll interval.             *)
(***************************************************************************)
EXTENDS Cache

\* A fast setting with no slack between polling and staleness, a slow one.
MCTimings == {[poll |-> 1, stale |-> 1], [poll |-> 3, stale |-> 4]}
=============================================================================
