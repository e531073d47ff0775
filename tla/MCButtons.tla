----------------------------- MODULE MCButtons -----------------------------
(***************************************************************************)
(* Instance of Buttons.  A long press is longer than two ticks, a poll is  *)
(* due after five, a fetch takes up to four: long enough for a release, a  *)
(* new press and a wait longer than a long press.                          *)
(***************************************************************************)
EXTENDS Buttons
=============================================================================
