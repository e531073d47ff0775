------------------------------ MODULE MCManager -----------------------------
(***************************************************************************)
(* Two sources, two URLs and two tokens: the smallest sets in which an     *)
(* operation has another source to disturb and an old entry to mix up with *)
(* a new one.                                                              *)
(***************************************************************************)
EXTENDS Manager

CONSTANTS a, b

MCUrls == {"u1", "u2"}
MCTokens == {"t1", "t2"}
MCTrust == {"fp", "torn"}

Save(id, url, token, mode, pin) ==
  [kind |-> "save", in |-> [id |-> id, url |-> url, token |-> token,
                            mode |-> mode, pin |-> pin, ca |-> Blank]]

Delete(id) == [kind |-> "delete", in |-> [id |-> id]]

SaveSettings(poll, stale, display) ==
  [kind |-> "settings",
   in |-> [settings |-> [DefaultSettings EXCEPT !.poll = poll, !.stale = stale],
           display |-> display, admin |-> Blank]]

\* A new entry, an update that replaces URL and token, one that keeps the token,
\* one that changes only how the certificate is trusted, one that is refused.
SaveOps ==
  {Save(a, "u1", "t1", "system", Blank), Save(a, "u2", "t2", "insecure", Blank),
   Save(a, "u2", Blank, Blank, Blank), Save(b, "u1", "t2", "fingerprint", "fp"),
   Save(b, "u1", "t1", "fingerprint", "torn"), Save(b, Blank, Blank, "system", Blank)}

AllOps ==
  SaveOps \cup {Delete(a), Delete(b)}
    \cup {SaveSettings(10, 45, "p1"), SaveSettings(20, 20, Blank), SaveSettings(20, 10, "p1")}

\* One source saved, another saved, the first deleted: every pair of these
\* requests conflicts when their steps interleave.
FewOps ==
  {Save(a, "u1", "t1", "system", Blank), Save(b, "u2", "t2", "system", Blank), Delete(a)}

\* An empty volume, and a config.yaml written by hand: its source takes the
\* token from the environment, its secrets.yaml only has the display token.
Fresh == [config |-> NewDefault, secrets |-> NoSecrets]

ByHand ==
  [config  |-> [NewDefault EXCEPT
                  !.settings.stale = 0,
                  !.sources = [i \in {a} |-> [NoSource EXCEPT !.url = "u1", !.env = "PVE",
                                                              !.pin = "fp"]]],
   secrets |-> [NoSecrets EXCEPT !.display = "p1"]]

MCInstalled == {Fresh, ByHand}
FreshOnly == {Fresh}
=============================================================================
