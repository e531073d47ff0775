---------------------------- MODULE BridgeConfig ----------------------------
(***************************************************************************)
(* The bridge's configuration as data: what a config and its secrets are,  *)
(* how secrets are merged into a config and stripped from it again, when a *)
(* config can be turned into a collector, and what each admin operation    *)
(* (settings, save source, delete source) makes of a config.  No state is  *)
(* kept here; Manager.tla runs these operators concurrently.               *)
(*                                                                         *)
(* Sources are a function from the ids in use to their entries; the Go     *)
(* slice also has an order, which nothing below depends on.  The empty Go  *)
(* string is Blank.  A display name is wording and left out.               *)
(***************************************************************************)
EXTENDS Integers

CONSTANTS
  Ids,         \* source ids, as SanitizeID leaves them
  Urls,        \* base URLs
  Tokens,      \* Proxmox API tokens
  Envs,        \* names of environment variables a source may take its token from
  EnvSet,      \* those of Envs that hold a value in the process environment
  Trust,       \* fingerprints and CA file names
  BadTrust,    \* those of Trust that do not parse or cannot be read
  Passwords,   \* display and admin tokens
  EnvDisplay,  \* whether the display token is given by the environment
  Mock         \* the -mock flag

Blank == ""

ASSUME ConfigAssumption ==
  /\ Blank \notin Ids \cup Urls \cup Tokens \cup Envs \cup Trust \cup Passwords
  /\ EnvSet \subseteq Envs
  /\ BadTrust \subseteq Trust
  /\ EnvDisplay \in BOOLEAN
  /\ Mock \in BOOLEAN

Optional(S) == S \cup {Blank}

Modes == {"fingerprint", "ca_file", "system", "insecure"}

(***************************************************************************)
(* Types.                                                                  *)
(***************************************************************************)
Settings == [poll : Int, stale : Int, memWarn : Int, memCrit : Int,
             stoWarn : Int, stoCrit : Int]

Source == [url : Optional(Urls), env : Optional(Envs), value : Optional(Tokens),
           mode : Optional(Modes), pin : Optional(Trust), ca : Optional(Trust)]

Config == [settings : Settings,
           display : Optional(Passwords), admin : Optional(Passwords),
           sources : UNION {[D -> Source] : D \in SUBSET Ids}]

Secrets == [display : Optional(Passwords), admin : Optional(Passwords),
            proxmox : [Ids -> Optional(Tokens)]]

SourceUpdate == [id : Ids, url : Optional(Urls), token : Optional(Tokens),
                 mode : Optional(Modes), pin : Optional(Trust), ca : Optional(Trust)]

ServerUpdate == [settings : Settings,
                 display : Optional(Passwords), admin : Optional(Passwords)]

\* The requests of the admin pages that change the configuration.
Operation == [kind : {"settings"}, in : ServerUpdate]
             \cup [kind : {"save"}, in : SourceUpdate]
             \cup [kind : {"delete"}, in : [id : Ids]]

(***************************************************************************)
(* Helpers.                                                                *)
(***************************************************************************)
FirstNonEmpty(a, b) == IF a # Blank THEN a ELSE b

Clamp(v, low, high) == IF v < low THEN low ELSE IF v > high THEN high ELSE v

DefaultSettings == [poll |-> 10, stale |-> 45, memWarn |-> 85, memCrit |-> 95,
                    stoWarn |-> 80, stoCrit |-> 90]

NonZero(v, default) == IF v = 0 THEN default ELSE v

WithDefaults(s) ==
  LET d == DefaultSettings
  IN  [poll    |-> NonZero(s.poll, d.poll),
       stale   |-> NonZero(s.stale, d.stale),
       memWarn |-> NonZero(s.memWarn, d.memWarn),
       memCrit |-> NonZero(s.memCrit, d.memCrit),
       stoWarn |-> NonZero(s.stoWarn, d.stoWarn),
       stoCrit |-> NonZero(s.stoCrit, d.stoCrit)]

WithMode(src) == [src EXCEPT !.mode = FirstNonEmpty(@, "fingerprint")]

ApplyDefaults(cfg) ==
  [settings |-> WithDefaults(cfg.settings), display |-> cfg.display, admin |-> cfg.admin,
   sources  |-> [i \in DOMAIN cfg.sources |-> WithMode(cfg.sources[i])]]

WithValue(src, value) == [src EXCEPT !.value = value]

\* A secret replaces the value a source carries; a missing secret leaves it.
ApplySecrets(cfg, sec) ==
  [settings |-> cfg.settings, display |-> sec.display, admin |-> sec.admin,
   sources  |-> [i \in DOMAIN cfg.sources |->
                   WithValue(cfg.sources[i],
                             FirstNonEmpty(sec.proxmox[i], cfg.sources[i].value))]]

\* Save blanks the token values through the slice it shares with its caller.
WipeValues(cfg) ==
  [settings |-> cfg.settings, display |-> cfg.display, admin |-> cfg.admin,
   sources  |-> [i \in DOMAIN cfg.sources |-> WithValue(cfg.sources[i], Blank)]]

\* What Save writes to config.yaml: no secret at all.
Strip(cfg) ==
  LET saved == WipeValues(ApplyDefaults(cfg))
  IN  [settings |-> saved.settings, display |-> Blank, admin |-> Blank,
       sources  |-> saved.sources]

(***************************************************************************)
(* From a config to a collector.                                           *)
(***************************************************************************)
DisplayTokenSet(cfg) == cfg.display # Blank \/ EnvDisplay

HasToken(src) == src.value # Blank \/ src.env \in EnvSet

SourceValid(src) ==
  /\ src.url # Blank
  /\ HasToken(src)
  /\ src.mode \in Modes
  /\ src.mode = "fingerprint" => src.pin # Blank
  /\ src.mode = "ca_file" => src.ca # Blank

Validate(cfg) ==
  /\ DisplayTokenSet(cfg)
  /\ \A i \in DOMAIN cfg.sources : SourceValid(cfg.sources[i])

\* NewClient: the TLS transport needs a fingerprint that parses, a CA file
\* that can be read.
ClientBuilds(src) ==
  /\ src.mode = "fingerprint" => src.pin \notin BadTrust
  /\ src.mode = "ca_file" => src.ca \notin BadTrust

CollectorBuilds(cfg) ==
  \/ Mock
  \/ DOMAIN cfg.sources = {}
  \/ /\ Validate(cfg)
     /\ \A i \in DOMAIN cfg.sources : ClientBuilds(cfg.sources[i])

SetupCollector == [kind |-> "setup"]

CollectorForConfig(cfg) ==
  IF Mock THEN [kind |-> "mock"]
  ELSE IF DOMAIN cfg.sources = {} THEN SetupCollector
  ELSE [kind |-> "proxmox", sources |-> cfg.sources, settings |-> cfg.settings]

(***************************************************************************)
(* The operations.  Each has a guard (the early returns) and a result, the *)
(* pair of config and secrets handed to apply.                             *)
(***************************************************************************)
UpdateServerOK(in) == in.settings.poll >= 5 /\ in.settings.stale >= in.settings.poll

UpdateServer(in, cfg, sec) ==
  LET s == in.settings
      memWarn == Clamp(s.memWarn, 1, 100)
      stoWarn == Clamp(s.stoWarn, 1, 100)
  IN  [config  |-> [cfg EXCEPT !.settings =
                      [poll |-> s.poll, stale |-> s.stale,
                       memWarn |-> memWarn, memCrit |-> Clamp(s.memCrit, memWarn, 100),
                       stoWarn |-> stoWarn, stoCrit |-> Clamp(s.stoCrit, stoWarn, 100)]],
       secrets |-> [sec EXCEPT !.display = FirstNonEmpty(in.display, @),
                               !.admin = FirstNonEmpty(in.admin, @)]]

NoSource == [url |-> Blank, env |-> Blank, value |-> Blank,
             mode |-> Blank, pin |-> Blank, ca |-> Blank]

Existing(cfg, id) == IF id \in DOMAIN cfg.sources THEN cfg.sources[id] ELSE NoSource

\* Slip: an environment token is resolved to the variable's name.
SourceFromUpdateEnvName(in, cfg, sec) ==
  LET old == Existing(cfg, in.id)
  IN  [url   |-> FirstNonEmpty(in.url, old.url),
       env   |-> old.env,
       value |-> FirstNonEmpty(in.token, FirstNonEmpty(sec.proxmox[in.id], old.env)),
       mode  |-> FirstNonEmpty(in.mode, old.mode),
       pin   |-> in.pin,
       ca    |-> in.ca]

\* Naming a TLS mode replaces the fingerprint and the CA file even by nothing.
SourceFromUpdate(in, cfg, sec) ==
  LET old   == Existing(cfg, in.id)
      token == FirstNonEmpty(in.token, sec.proxmox[in.id])
      Kept(new, was) == IF in.mode # Blank THEN new ELSE FirstNonEmpty(new, was)
  IN  [url   |-> FirstNonEmpty(in.url, old.url),
       env   |-> IF token = Blank THEN old.env ELSE Blank,
       value |-> token,
       mode  |-> FirstNonEmpty(in.mode, FirstNonEmpty(old.mode, "fingerprint")),
       pin   |-> Kept(in.pin, old.pin),
       ca    |-> Kept(in.ca, old.ca)]

UpsertSourceOK(in, cfg, sec) ==
  LET src == SourceFromUpdate(in, cfg, sec)
  IN  src.url # Blank /\ (src.value # Blank \/ src.env # Blank)

\* Slip: a blank token field overwrites the saved token.
UpsertSourceBlankToken(in, cfg, sec) ==
  LET src == SourceFromUpdate(in, cfg, sec)
  IN  [config  |-> [cfg EXCEPT !.sources =
                      [i \in DOMAIN cfg.sources \cup {in.id} |->
                         IF i = in.id THEN src ELSE cfg.sources[i]]],
       secrets |-> [sec EXCEPT !.proxmox[in.id] = in.token]]

UpsertSource(in, cfg, sec) ==
  LET src == SourceFromUpdate(in, cfg, sec)
  IN  [config  |-> [cfg EXCEPT !.sources =
                      [i \in DOMAIN cfg.sources \cup {in.id} |->
                         IF i = in.id THEN src ELSE cfg.sources[i]]],
       secrets |-> [sec EXCEPT !.proxmox[in.id] = FirstNonEmpty(in.token, @)]]

DeleteSourceOK(id, cfg) == id \in DOMAIN cfg.sources

DeleteSource(id, cfg, sec) ==
  [config  |-> [cfg EXCEPT !.sources =
                  [i \in DOMAIN cfg.sources \ {id} |-> cfg.sources[i]]],
   secrets |-> [sec EXCEPT !.proxmox[id] = Blank]]

OperationOK(op, cfg, sec) ==
  \/ op.kind = "settings" /\ UpdateServerOK(op.in)
  \/ op.kind = "save" /\ UpsertSourceOK(op.in, cfg, sec)
  \/ op.kind = "delete" /\ DeleteSourceOK(op.in.id, cfg)

Result(op, cfg, sec) ==
  CASE op.kind = "settings" -> UpdateServer(op.in, cfg, sec)
    [] op.kind = "save"     -> UpsertSource(op.in, cfg, sec)
    [] op.kind = "delete"   -> DeleteSource(op.in.id, cfg, sec)

\* The first lines of apply: the pair that is validated, saved and published.
Prepared(op, cfg, sec) ==
  LET r == Result(op, cfg, sec)
  IN  [config  |-> ApplySecrets(ApplyDefaults(r.config), r.secrets),
       secrets |-> r.secrets]

\* Slip: the new configuration is saved without building its collector first.
AcceptedUnchecked(op, cfg, sec) == OperationOK(op, cfg, sec)

\* No early return and a collector that can be built: apply goes on to Save.
Accepted(op, cfg, sec) ==
  /\ OperationOK(op, cfg, sec)
  /\ CollectorBuilds(Prepared(op, cfg, sec).config)

(***************************************************************************)
(* Start-up.                                                               *)
(***************************************************************************)
NewDefault ==
  [settings |-> DefaultSettings, display |-> Blank, admin |-> Blank,
   sources |-> [i \in {} |-> NoSource]]

NoSecrets == [display |-> Blank, admin |-> Blank, proxmox |-> [i \in Ids |-> Blank]]

\* Store.Load, and the -mock flag that replaces what it read.
Load(diskConfig, diskSecrets) ==
  IF Mock THEN NewDefault ELSE ApplySecrets(ApplyDefaults(diskConfig), diskSecrets)

\* A config no collector can be built from starts the bridge in setup mode.
BootCollector(cfg) ==
  IF CollectorBuilds(cfg) THEN CollectorForConfig(cfg) ELSE SetupCollector
=============================================================================
