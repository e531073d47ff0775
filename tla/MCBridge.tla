------------------------------ MODULE MCBridge ------------------------------
(***************************************************************************)
(* One source that is saved, moved to another URL and deleted, and two     *)
(* poll intervals, of one tick and of two; in the second the data is stale *)
(* as soon as a poll is missed.                                            *)
(***************************************************************************)
EXTENDS Bridge

CONSTANT a

MCUrls == {"u1", "u2"}
MCTokens == {"t1"}

Save(url) == [kind |-> "save", in |-> [id |-> a, url |-> url, token |-> "t1",
                                       mode |-> "system", pin |-> Blank, ca |-> Blank]]

SaveSettings(poll, stale, display, admin) ==
  [kind |-> "settings",
   in |-> [settings |-> [DefaultSettings EXCEPT !.poll = poll, !.stale = stale],
           display |-> display, admin |-> admin]]

MCOperations ==
  {Save("u1"), Save("u2"), [kind |-> "delete", in |-> [id |-> a]],
   SaveSettings(20, 20, "p2", "p1")}

\* A bridge whose display token is set.
MCInstalled ==
  {[config |-> NewDefault, secrets |-> [NoSecrets EXCEPT !.display = "p1"]]}
=============================================================================
