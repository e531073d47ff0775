------------------------------ MODULE Manager ------------------------------
(***************************************************************************)
(* The admin side of the bridge: concurrent HTTP requests that change the  *)
(* configuration, the two files it is kept in, and the process that dies   *)
(* and starts again.                                                       *)
(*                                                                         *)
(* A request copies config and secrets under the read lock, works on its   *)
(* copy without any lock, writes config.yaml, writes secrets.yaml, hands   *)
(* the new collector to the cache, takes the write lock to publish its     *)
(* copy, refreshes the cache and answers.  No lock spans two of these      *)
(* steps, so the steps of two requests interleave.  Each file is replaced  *)
(* by a rename and is never seen half written; either write may fail, and  *)
(* the process may die between any two steps.                              *)
(***************************************************************************)
EXTENDS BridgeConfig

CONSTANTS
  Clients,     \* requests in flight at once: one HTTP handler goroutine each
  Operations,  \* the requests an administrator sends
  Installed    \* pairs of config.yaml and secrets.yaml the bridge is installed with

ASSUME ManagerAssumption ==
  /\ "settings" \notin Ids
  /\ Operations \subseteq Operation
  /\ Installed \subseteq [config : Config, secrets : Secrets]
  /\ \A i \in Installed : WipeValues(i.config) = i.config  \* yaml:"-"

VARIABLES
  up,           \* the process runs
  cfg,          \* Manager.cfg
  secrets,      \* Manager.secrets
  collector,    \* Cache.collector
  diskConfig,   \* config.yaml
  diskSecrets,  \* secrets.yaml
  req,          \* the requests in flight: where each is, its operation, its copy
  told          \* history: what the last answer about a target promised

memory == <<cfg, secrets, collector>>
disk == <<diskConfig, diskSecrets>>
vars == <<up, cfg, secrets, collector, diskConfig, diskSecrets, req, told>>

(***************************************************************************)
(* A request is idle or at one of the points between its steps.            *)
(***************************************************************************)
Steps == {"save config", "save secrets", "reconfigure", "publish", "refresh"}

Idle == [pc |-> "idle"]

InFlight == [pc : Steps, op : Operations, config : Config, secrets : Secrets]

Goto(c, pc) == req' = [req EXCEPT ![c].pc = pc]

Finish(c) == req' = [req EXCEPT ![c] = Idle]

(***************************************************************************)
(* What an answer is about: one source, or the bridge settings.            *)
(***************************************************************************)
Targets == Ids \cup {"settings"}

Target(op) == IF op.kind = "settings" THEN "settings" ELSE op.in.id

\* What the administrator can find out again about a target.
Entry(t, c, s) ==
  IF t = "settings"
  THEN [settings |-> c.settings, display |-> s.display, admin |-> s.admin]
  ELSE IF t \in DOMAIN c.sources
       THEN [source |-> [c.sources[t] EXCEPT !.value = Blank], token |-> s.proxmox[t]]
       ELSE [source |-> "none"]

\* No answer stands: a request about the target was begun and did not succeed.
NoPromise == [promise |-> "none"]

\* Snapshot: whether the admin page shows the token of a source as saved.
TokenSet(src) == src.value # Blank \/ src.env # Blank

-----------------------------------------------------------------------------
(***************************************************************************)
(* main and NewManager.                                                    *)
(***************************************************************************)
Init ==
  \E i \in Installed :
    /\ up = TRUE
    /\ diskConfig = i.config
    /\ diskSecrets = i.secrets
    /\ cfg = Load(i.config, i.secrets)
    /\ secrets = i.secrets
    /\ collector = BootCollector(cfg)
    /\ req = [c \in Clients |-> Idle]
    /\ told = [t \in Targets |-> Entry(t, cfg, secrets)]

\* Slip: clone shares the token map with the manager instead of copying it.
BeginSharedTokens(c, op) ==
  /\ up
  /\ req[c] = Idle
  /\ Accepted(op, cfg, secrets)
  /\ LET p == Prepared(op, cfg, secrets)
     IN  /\ req' = [req EXCEPT ![c] = [pc |-> "save config", op |-> op,
                                       config |-> p.config, secrets |-> p.secrets]]
         /\ secrets' = p.secrets
  /\ told' = [told EXCEPT ![Target(op)] = NoPromise]
  /\ UNCHANGED <<up, cfg, collector, disk>>

\* clone, the operation on the copy, the first half of apply.
Begin(c, op) ==
  /\ up
  /\ req[c] = Idle
  /\ Accepted(op, cfg, secrets)
  /\ LET p == Prepared(op, cfg, secrets)
     IN  req' = [req EXCEPT ![c] = [pc |-> "save config", op |-> op,
                                    config |-> p.config, secrets |-> p.secrets]]
  /\ told' = [told EXCEPT ![Target(op)] = NoPromise]
  /\ UNCHANGED <<up, memory, disk>>

\* Save, first file.  Blanking the values reaches the request's own copy.
SaveConfig(c) ==
  /\ req[c].pc = "save config"
  /\ diskConfig' = Strip(req[c].config)
  /\ req' = [req EXCEPT ![c].pc = "save secrets", ![c].config = WipeValues(@)]
  /\ UNCHANGED <<up, memory, diskSecrets, told>>

\* Slip: Save writes the manager's secrets instead of the ones it was handed.
SaveSecretsLive(c) ==
  /\ req[c].pc = "save secrets"
  /\ diskSecrets' = secrets
  /\ Goto(c, "reconfigure")
  /\ UNCHANGED <<up, memory, diskConfig, told>>

\* Slip: secrets.yaml is left alone when the request changes none of the secrets.
SaveSecretsIfChanged(c) ==
  /\ req[c].pc = "save secrets"
  /\ diskSecrets' = IF req[c].secrets = secrets THEN diskSecrets ELSE req[c].secrets
  /\ Goto(c, "reconfigure")
  /\ UNCHANGED <<up, memory, diskConfig, told>>

\* Save, second file.
SaveSecrets(c) ==
  /\ req[c].pc = "save secrets"
  /\ diskSecrets' = req[c].secrets
  /\ Goto(c, "reconfigure")
  /\ UNCHANGED <<up, memory, diskConfig, told>>

\* Slip: the error of a write is dropped and apply goes on.
SaveFailsSilently(c) ==
  /\ req[c].pc \in {"save config", "save secrets"}
  /\ Goto(c, "reconfigure")
  /\ UNCHANGED <<up, memory, disk, told>>

\* Either write fails (no space, no permission): the request ends in an error.
SaveFails(c) ==
  /\ req[c].pc \in {"save config", "save secrets"}
  /\ Finish(c)
  /\ UNCHANGED <<up, memory, disk, told>>

\* Slip: the collector is built from the copy whose tokens Save has blanked.
ReconfigureWiped(c) ==
  /\ req[c].pc = "reconfigure"
  /\ collector' = CollectorForConfig(req[c].config)
  /\ Goto(c, "publish")
  /\ UNCHANGED <<up, cfg, secrets, disk, told>>

\* Cache.Reconfigure.  The collector was built before Save blanked the values.
Reconfigure(c) ==
  /\ req[c].pc = "reconfigure"
  /\ collector' = CollectorForConfig(ApplySecrets(req[c].config, req[c].secrets))
  /\ Goto(c, "publish")
  /\ UNCHANGED <<up, cfg, secrets, disk, told>>

\* Slip: config and secrets are not published together.
PublishConfigOnly(c) ==
  /\ req[c].pc = "publish"
  /\ cfg' = req[c].config
  /\ Goto(c, "refresh")
  /\ UNCHANGED <<up, secrets, collector, disk, told>>

Publish(c) ==
  /\ req[c].pc = "publish"
  /\ cfg' = req[c].config
  /\ secrets' = req[c].secrets
  /\ Goto(c, "refresh")
  /\ UNCHANGED <<up, collector, disk, told>>

\* Cache.Refresh returned: "settings saved", "source saved", "source deleted".
Answer(c) ==
  /\ req[c].pc = "refresh"
  /\ LET t == Target(req[c].op)
     IN  told' = [told EXCEPT ![t] = Entry(t, req[c].config, req[c].secrets)]
  /\ Finish(c)
  /\ UNCHANGED <<up, memory, disk>>

Crash ==
  /\ up
  /\ up' = FALSE
  /\ req' = [c \in Clients |-> Idle]
  /\ UNCHANGED <<memory, disk, told>>

Start ==
  /\ ~up
  /\ up' = TRUE
  /\ cfg' = Load(diskConfig, diskSecrets)
  /\ secrets' = diskSecrets
  /\ collector' = BootCollector(cfg')
  /\ UNCHANGED <<disk, req, told>>

Next ==
  \/ \E c \in Clients, op \in Operations : Begin(c, op)
  \/ \E c \in Clients : SaveConfig(c)
  \/ \E c \in Clients : SaveSecrets(c)
  \/ \E c \in Clients : SaveFails(c)
  \/ \E c \in Clients : Reconfigure(c)
  \/ \E c \in Clients : Publish(c)
  \/ \E c \in Clients : Answer(c)
  \/ Crash
  \/ Start

Spec == Init /\ [][Next]_vars

\* The same as long as the process lives.
UncrashedSpec == Init /\ [][Next /\ ~Crash]_vars

-----------------------------------------------------------------------------
(***************************************************************************)
(* Properties.                                                             *)
(***************************************************************************)
\* Every variable holds what its Go counterpart may hold.
TypeOK ==
  /\ up \in BOOLEAN
  /\ cfg \in Config
  /\ secrets \in Secrets
  /\ diskConfig \in Config
  /\ diskSecrets \in Secrets
  /\ req \in [Clients -> {Idle} \cup InFlight]

\* The config with the values a restart would merge into it.
Effective(c, s) == ApplySecrets(c, s)

DiskIsMemory == Strip(diskConfig) = Strip(cfg) /\ diskSecrets = secrets

DiskAhead(op) ==
  /\ Accepted(op, cfg, secrets)
  /\ LET p == Prepared(op, cfg, secrets)
     IN  /\ Strip(diskConfig) = Strip(p.config)
         /\ diskSecrets \in {secrets, p.secrets}

\* One administrator at a time: what a restart would load is what the process
\* works with, or that with one accepted operation done, whole (both files
\* written) or without its secrets (only config.yaml written).  Store.Save and
\* apply: crashes and failed writes never pile up.
OneOperationAhead == DiskIsMemory \/ \E op \in Operations : DiskAhead(op)

\* One administrator at a time: what an answer said was saved or deleted is what
\* the bridge works with from then on, restarts and failures of later requests
\* about other targets included (server.go: "source saved", "settings saved").
AnswersKept ==
  up => \A t \in Targets : told[t] # NoPromise => Entry(t, cfg, secrets) = told[t]

\* One administrator at a time: between Reconfigure and the publication aside,
\* the cache collects from the very sources and tokens the manager holds.
CollectorInStep ==
  up /\ (\A c \in Clients : req[c].pc # "publish")
    => collector = BootCollector(Effective(cfg, secrets))

\* One administrator at a time: a restart between the two files of one save can
\* leave a configuration no collector can be built from, which puts every source
\* in setup mode and rejects every other operation; deleting one source is then
\* always enough to get out.
OneDeletionRepairs ==
  up => \/ CollectorBuilds(Effective(cfg, secrets))
        \/ \E id \in DOMAIN cfg.sources :
             CollectorBuilds(Prepared([kind |-> "delete", in |-> [id |-> id]],
                                      cfg, secrets).config)

\* However requests interleave, a change of the live configuration leaves one a
\* collector can be built from: config and secrets are published together.
LiveChangeUsable ==
  [][up /\ up' /\ <<cfg, secrets>>' # <<cfg, secrets>>
       => CollectorBuilds(Effective(cfg', secrets'))]_vars

\* One administrator at a time, whatever crashes and failed writes come: a token
\* that secrets.yaml holds for a source stays there, or gives way to another,
\* until a delete of that source was asked for.  (Two saves at once lose tokens
\* as they lose sources: each writes the secrets of its own copy.)
TokensKept ==
  [][\A i \in Ids :
       diskSecrets.proxmox[i] # Blank /\ diskSecrets'.proxmox[i] = Blank
         => \E c \in Clients : req[c] # Idle /\ req[c].op.kind = "delete"
                               /\ req[c].op.in.id = i]_vars

\* The admin page says "saved" for a source whose token is saved.
SavedTokenShown ==
  up => \A i \in DOMAIN cfg.sources :
          secrets.proxmox[i] # Blank => TokenSet(cfg.sources[i])

\* One administrator at a time: seen without its token values, the manager's
\* memory changes as AtomicConfig says, so that every request is one atomic
\* change and a restart brings back the configuration up to one operation.
Atomic == INSTANCE AtomicConfig WITH config <- Strip(cfg), secrets <- secrets

ManagerRefinement == Atomic!Spec
=============================================================================
