----------------------------- MODULE Diagnostics ----------------------------
(***************************************************************************)
(* The "Test Connection" and "Detect Fingerprint" buttons of the admin     *)
(* page: what is tested, when the test passes, and the form the page comes *)
(* back with.  Nothing is kept; the question is whether a source that was  *)
(* tested can be saved, and is then what was tested.                       *)
(*                                                                         *)
(* The host under test answers a handshake with the fingerprint cert, or   *)
(* not at all (Blank; also when the URL is not https), and answers the     *)
(* request for its version or not (answers).                               *)
(***************************************************************************)
EXTENDS BridgeConfig

\* The host the test talks to: without a pin to compare with, whatever
\* certificate it presents is taken for its own.
TestedHost(in, cfg, sec, cert) ==
  LET src == SourceFromUpdate(in, cfg, sec)
  IN  IF src.mode = "fingerprint" /\ src.pin = Blank THEN [src EXCEPT !.pin = cert] ELSE src

\* The handshake, the transport and the request all succeed.  Proxmox tells its
\* version to nobody who has no token.
TestOK(in, cfg, sec, cert, answers) ==
  LET host == TestedHost(in, cfg, sec, cert)
  IN  /\ UpsertSourceOK(in, cfg, sec)
      /\ host.mode = "fingerprint" => host.pin # Blank
      /\ host.mode = "ca_file" => host.ca # Blank
      /\ host.mode \in Modes
      /\ ClientBuilds(host)
      /\ answers /\ HasToken(host)

TestFingerprint(host) == IF host.mode = "fingerprint" THEN host.pin ELSE Blank

\* The form that comes back: its fields travel in the URL, and the token does not.
Draft(in, fingerprint) ==
  [id |-> in.id, url |-> in.url, token |-> Blank,
   mode |-> FirstNonEmpty(in.mode, "fingerprint"),
   pin  |-> FirstNonEmpty(fingerprint, in.pin), ca |-> in.ca]

\* What the administrator then saves, with the token typed once more.
SaveTested(in, fingerprint) ==
  [kind |-> "save", in |-> [Draft(in, fingerprint) EXCEPT !.token = in.token]]

\* What is saved when the token is left out, as for a source that has one.
SaveDraft(in, fingerprint) == [kind |-> "save", in |-> Draft(in, fingerprint)]

\* The live configuration could be collected from but for source id, which may
\* be new, or broken and about to be repaired.
UsableBut(id, cfg, sec) ==
  LET live == ApplySecrets(ApplyDefaults(cfg), sec)
  IN  /\ DisplayTokenSet(live)
      /\ \A i \in DOMAIN live.sources \ {id} :
           SourceValid(live.sources[i]) /\ ClientBuilds(live.sources[i])
=============================================================================
