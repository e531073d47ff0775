---------------------------- MODULE BridgeProofs ---------------------------
(***************************************************************************)
(* Theorems about the running bridge, for every set of sources, tokens,    *)
(* requests, installations and intervals.                                  *)
(***************************************************************************)
EXTENDS Bridge, ManagerProofs

(***************************************************************************)
(* The manager inside the bridge is the manager of Manager: what is proved *)
(* of it alone holds of it in the process.                                 *)
(***************************************************************************)
\* Every step of the bridge is a step of the manager or leaves it alone.
LEMMA ManagerStep == [BridgeNext]_bridge => [Next]_vars
<1> SUFFICES ASSUME [BridgeNext]_bridge PROVE [Next]_vars
  OBVIOUS
<1>1. CASE BridgeStart
  BY <1>1 DEF BridgeStart, Next
<1>2. CASE BridgeCrash
  BY <1>2 DEF BridgeCrash, Next
<1>3. ASSUME NEW c \in Clients, NEW op \in Operations, BridgeBegin(c, op) PROVE Next
  BY <1>3 DEF BridgeBegin, Next
<1>4. ASSUME NEW c \in Clients, BridgeSave(c) PROVE Next
  BY <1>4 DEF BridgeSave, Next
<1>5. ASSUME NEW c \in Clients, BridgeReconfigure(c) PROVE Next
  BY <1>5 DEF BridgeReconfigure, Next
<1>6. ASSUME NEW c \in Clients, BridgePublish(c) PROVE Next
  BY <1>6 DEF BridgePublish, Next
<1>7. ASSUME NEW c \in Clients, BridgeRefresh(c) PROVE UNCHANGED vars
  BY <1>7 DEF BridgeRefresh, C!ApplyRefresh, managerOnly, vars, disk
<1>8. ASSUME NEW c \in Clients, BridgeAnswer(c) PROVE Next \/ UNCHANGED vars
  BY <1>8 DEF BridgeAnswer, C!Store, managerOnly, vars, disk, Next
<1>9. ASSUME NEW c \in Clients, AdminRefresh(c) PROVE UNCHANGED vars
  BY <1>9 DEF AdminRefresh, C!RefreshNow, managerOnly, vars, disk
<1>10. CASE BridgePoll
  BY <1>10 DEF BridgePoll, C!TimerFires, C!Store, managerOnly, vars, disk
<1>11. CASE BridgeTick
  BY <1>11 DEF BridgeTick, C!Tick, managerOnly, vars, disk
<1>12. CASE UNCHANGED bridge
  BY <1>12 DEF bridge
<1>13. QED
  BY <1>1, <1>2, <1>3, <1>4, <1>5, <1>6, <1>7, <1>8, <1>9, <1>10, <1>11, <1>12 DEF BridgeNext

\* The bridge implements the manager: however polls, refreshes, time and the
\* cache's part in apply come between, the configuration behaves as in Manager.
THEOREM BridgeImplementsManager == BridgeSpec => Spec
<1>1. BridgeInit => Init
  BY DEF BridgeInit
<1>2. QED
  BY <1>1, ManagerStep, PTL DEF BridgeSpec, Spec

\* So the running bridge is never more than one operation ahead on disk.
THEOREM BridgeOneAhead ==
  ASSUME ~Mock, OneAdministrator
  PROVE  BridgeSpec => []OneOperationAhead
BY BridgeImplementsManager, OneAhead, PTL

\* And what was last answered is in force, whatever the refreshes after it do.
THEOREM BridgeKeeps ==
  ASSUME ~Mock, OneAdministrator
  PROVE  BridgeSpec => []AnswersKept
BY BridgeImplementsManager, Kept, PTL

-----------------------------------------------------------------------------
(***************************************************************************)
(* One administrator at a time: the tokens an answer promised.  The token  *)
(* the server compares with is the one in cfg; the promise is kept only    *)
(* because cfg, secrets, secrets.yaml and the copy of any request about    *)
(* something else carry the same tokens.  That is the invariant.           *)
(***************************************************************************)
PromiseRequest(r) ==
  /\ PasswordsOf(r.config) = PasswordsOf(r.secrets)
  /\ r.pc \in {"reconfigure", "publish", "refresh"} =>
       PasswordsOf(diskSecrets) = PasswordsOf(r.secrets)
  /\ r.pc = "refresh" => PasswordsOf(secrets) = PasswordsOf(r.secrets)
  /\ r.op.kind = "settings" => told["settings"] = NoPromise
  /\ told["settings"] # NoPromise => PasswordsOf(r.secrets) = PasswordsOf(secrets)

PromiseInv ==
  /\ TypeOK
  /\ told = [t \in Targets |-> told[t]]
  /\ PasswordsOf(cfg) = PasswordsOf(secrets)
  /\ told["settings"] # NoPromise =>
       /\ PasswordsOf(told["settings"]) = PasswordsOf(secrets)
       /\ PasswordsOf(diskSecrets) = PasswordsOf(secrets)
  /\ \A c \in Clients : req[c].pc \in Steps => PromiseRequest(req[c])

\* What is loaded carries the tokens of secrets.yaml.
LEMMA LoadPasswords ==
  ASSUME NEW c, NEW s, ~Mock
  PROVE  PasswordsOf(Load(c, s)) = PasswordsOf(s)
BY DEF Load, ApplySecrets, PasswordsOf

\* An operation is about the settings when its kind says so.
LEMMA SettingsTarget ==
  ASSUME NEW op \in Operation
  PROVE  Target(op) \in Targets /\ (Target(op) = "settings" <=> op.kind = "settings")
<1>1. op.kind # "settings" => op.in.id \in Ids
  BY DEF Operation, SourceUpdate
<1>2. QED
  BY <1>1, ManagerAssumption DEF Target, Targets

\* The bridge starts with every promise kept.
LEMMA InitPromise == ASSUME ~Mock PROVE Init => PromiseInv
<1> SUFFICES ASSUME Init PROVE PromiseInv
  OBVIOUS
<1>1. /\ cfg = Load(diskConfig, diskSecrets)
      /\ secrets = diskSecrets
      /\ req = [c \in Clients |-> Idle]
      /\ told = [t \in Targets |-> Entry(t, cfg, secrets)]
  BY DEF Init
<1>2. PasswordsOf(cfg) = PasswordsOf(secrets)
  BY <1>1, LoadPasswords
<1>3. PasswordsOf(told["settings"]) = PasswordsOf(secrets)
  BY <1>1 DEF Targets, Entry, PasswordsOf
<1>4. \A c \in Clients : req[c].pc \notin Steps
  BY <1>1, IdleStep
<1>5. told = [t \in Targets |-> told[t]]
  BY <1>1
<1>6. QED
  BY <1>1, <1>2, <1>3, <1>4, <1>5, InitType DEF PromiseInv

\* Every step of the only request keeps what was promised.
LEMMA NextPromise ==
  ASSUME ~Mock, OneAdministrator, PromiseInv, [Next]_vars
  PROVE  PromiseInv'
<1>1. TypeOK'
  BY NextType DEF PromiseInv
<1>2. ASSUME NEW c \in Clients, req[c].pc \in Steps
      PROVE  /\ PromiseRequest(req[c])
             /\ req[c] \in InFlight
             /\ \A d \in Clients : d = c
  BY <1>2, Working DEF PromiseInv, OneAdministrator
<1>3. ASSUME NEW c \in Clients, NEW op \in Operations, Begin(c, op) PROVE PromiseInv'
  <2> DEFINE p == Prepared(op, cfg, secrets)
             r == [pc |-> "save config", op |-> op, config |-> p.config, secrets |-> p.secrets]
  <2>1. /\ req' = [req EXCEPT ![c] = r]
        /\ told' = [told EXCEPT ![Target(op)] = NoPromise]
        /\ cfg' = cfg /\ secrets' = secrets /\ diskSecrets' = diskSecrets
    BY <1>3 DEF Begin, memory, disk
  <2>2. op \in Operation
    BY ManagerAssumption
  <2>3. /\ PasswordsOf(p.config) = PasswordsOf(p.secrets)
        /\ op.kind # "settings" => PasswordsOf(p.secrets) = PasswordsOf(secrets)
    BY <2>2, PreparedPasswords DEF PromiseInv, TypeOK
  <2>4. /\ told' = [t \in Targets |-> told'[t]]
        /\ op.kind = "settings" => told'["settings"] = NoPromise
        /\ op.kind # "settings" => told'["settings"] = told["settings"]
    BY <2>1, <2>2, SettingsTarget DEF PromiseInv, Targets
  <2>5. \A d \in Clients : req'[d] = r
    BY <2>1 DEF PromiseInv, TypeOK, OneAdministrator
  <2>6. /\ r.pc = "save config" /\ r.op = op /\ r.config = p.config /\ r.secrets = p.secrets
    OBVIOUS
  <2> HIDE DEF p, r
  <2>7. ASSUME NEW d \in Clients PROVE PromiseRequest(req[d])'
    <3>1. /\ req'[d].pc = "save config" /\ req'[d].op = op
          /\ req'[d].config = p.config /\ req'[d].secrets = p.secrets
      BY <2>5, <2>6
    <3>2. QED
      BY <2>1, <2>3, <2>4, <3>1 DEF PromiseRequest, PromiseInv
  <2>8. QED
    BY <1>1, <2>1, <2>4, <2>7 DEF PromiseInv
<1>4. ASSUME NEW c \in Clients, SaveConfig(c) PROVE PromiseInv'
  <2>1. /\ req[c].pc = "save config" /\ req[c].pc \in Steps
        /\ told' = told /\ cfg' = cfg /\ secrets' = secrets /\ diskSecrets' = diskSecrets
    BY <1>4 DEF SaveConfig, memory, Steps
  <2>2. PromiseRequest(req[c]) /\ req[c] \in InFlight /\ \A d \in Clients : d = c
    BY <1>2, <2>1
  <2>3. req'[c] = [req[c] EXCEPT !.pc = "save secrets", !.config = WipeValues(req[c].config)]
    BY <1>4, <2>2 DEF SaveConfig, InFlight, PromiseInv, TypeOK
  <2>4. /\ req'[c].pc = "save secrets" /\ req'[c].op = req[c].op
        /\ req'[c].secrets = req[c].secrets /\ req'[c].config = WipeValues(req[c].config)
    BY <2>2, <2>3 DEF InFlight
  <2>5. PasswordsOf(WipeValues(req[c].config)) = PasswordsOf(req[c].config)
    BY DEF WipeValues, PasswordsOf
  <2>6. PromiseRequest(req[c])'
    BY <2>1, <2>2, <2>4, <2>5 DEF PromiseRequest
  <2>7. QED
    BY <1>1, <2>1, <2>2, <2>6 DEF PromiseInv
<1>5. ASSUME NEW c \in Clients, SaveSecrets(c) PROVE PromiseInv'
  <2>1. /\ req[c].pc = "save secrets" /\ req[c].pc \in Steps
        /\ req' = [req EXCEPT ![c].pc = "reconfigure"]
        /\ told' = told /\ cfg' = cfg /\ secrets' = secrets /\ diskSecrets' = req[c].secrets
    BY <1>5 DEF SaveSecrets, Goto, memory, Steps
  <2>2. PromiseRequest(req[c]) /\ req[c] \in InFlight /\ \A d \in Clients : d = c
    BY <1>2, <2>1
  <2>3. /\ req'[c].pc = "reconfigure" /\ req'[c].op = req[c].op
        /\ req'[c].secrets = req[c].secrets /\ req'[c].config = req[c].config
    BY <2>1, <2>2 DEF InFlight, PromiseInv, TypeOK
  <2>4. PromiseRequest(req[c])'
    BY <2>1, <2>2, <2>3 DEF PromiseRequest
  <2>5. QED
    BY <1>1, <2>1, <2>2, <2>4 DEF PromiseInv, PromiseRequest
<1>6. ASSUME NEW c \in Clients, SaveFails(c) PROVE PromiseInv'
  <2>1. /\ req[c].pc \in Steps
        /\ req' = [req EXCEPT ![c] = Idle]
        /\ told' = told /\ cfg' = cfg /\ secrets' = secrets /\ diskSecrets' = diskSecrets
    BY <1>6 DEF SaveFails, Finish, memory, disk, Steps
  <2>2. \A d \in Clients : req'[d] = Idle
    BY <1>2, <2>1 DEF PromiseInv, TypeOK
  <2>3. QED
    BY <1>1, <2>1, <2>2, IdleStep DEF PromiseInv
<1>7. ASSUME NEW c \in Clients, Reconfigure(c) PROVE PromiseInv'
  <2>1. /\ req[c].pc = "reconfigure" /\ req[c].pc \in Steps
        /\ req' = [req EXCEPT ![c].pc = "publish"]
        /\ told' = told /\ cfg' = cfg /\ secrets' = secrets /\ diskSecrets' = diskSecrets
    BY <1>7 DEF Reconfigure, Goto, disk, Steps
  <2>2. PromiseRequest(req[c]) /\ req[c] \in InFlight /\ \A d \in Clients : d = c
    BY <1>2, <2>1
  <2>3. /\ req'[c].pc = "publish" /\ req'[c].op = req[c].op
        /\ req'[c].secrets = req[c].secrets /\ req'[c].config = req[c].config
    BY <2>1, <2>2 DEF InFlight, PromiseInv, TypeOK
  <2>4. PromiseRequest(req[c])'
    BY <2>1, <2>2, <2>3 DEF PromiseRequest
  <2>5. QED
    BY <1>1, <2>1, <2>2, <2>4 DEF PromiseInv
<1>8. ASSUME NEW c \in Clients, Publish(c) PROVE PromiseInv'
  <2>1. /\ req[c].pc = "publish" /\ req[c].pc \in Steps
        /\ req' = [req EXCEPT ![c].pc = "refresh"]
        /\ told' = told /\ cfg' = req[c].config /\ secrets' = req[c].secrets
        /\ diskSecrets' = diskSecrets
    BY <1>8 DEF Publish, Goto, disk, Steps
  <2>2. PromiseRequest(req[c]) /\ req[c] \in InFlight /\ \A d \in Clients : d = c
    BY <1>2, <2>1
  <2>3. /\ req'[c].pc = "refresh" /\ req'[c].op = req[c].op
        /\ req'[c].secrets = req[c].secrets /\ req'[c].config = req[c].config
    BY <2>1, <2>2 DEF InFlight, PromiseInv, TypeOK
  <2>4. PromiseRequest(req[c])'
    BY <2>1, <2>2, <2>3 DEF PromiseRequest
  <2>5. QED
    BY <1>1, <2>1, <2>2, <2>4 DEF PromiseInv, PromiseRequest
<1>9. ASSUME NEW c \in Clients, Answer(c) PROVE PromiseInv'
  <2> DEFINE t == Target(req[c].op)
  <2>1. /\ req[c].pc = "refresh" /\ req[c].pc \in Steps
        /\ req' = [req EXCEPT ![c] = Idle]
        /\ told' = [told EXCEPT ![t] = Entry(t, req[c].config, req[c].secrets)]
        /\ cfg' = cfg /\ secrets' = secrets /\ diskSecrets' = diskSecrets
    BY <1>9 DEF Answer, Finish, memory, disk, Steps
  <2>2. PromiseRequest(req[c]) /\ req[c] \in InFlight /\ \A d \in Clients : d = c
    BY <1>2, <2>1
  <2>3. req[c].op \in Operation
    BY <2>2, ManagerAssumption DEF InFlight
  <2>4. \A d \in Clients : req'[d] = Idle
    BY <2>1, <2>2 DEF PromiseInv, TypeOK
  <2>5. told' = [u \in Targets |-> told'[u]]
    BY <2>1 DEF PromiseInv
  <2>6. CASE t = "settings"
    <3>1. told'["settings"] = Entry("settings", req[c].config, req[c].secrets)
      BY <2>1, <2>6 DEF PromiseInv, Targets
    <3>2. PasswordsOf(told'["settings"]) = PasswordsOf(req[c].secrets)
      BY <3>1 DEF Entry, PasswordsOf
    <3>3. QED
      BY <1>1, <2>1, <2>2, <2>4, <2>5, <3>2, IdleStep DEF PromiseInv, PromiseRequest
  <2>7. CASE t # "settings"
    <3>1. told'["settings"] = told["settings"]
      BY <2>1, <2>7 DEF PromiseInv, Targets
    <3>2. QED
      BY <1>1, <2>1, <2>4, <2>5, <3>1, IdleStep DEF PromiseInv
  <2>8. QED
    BY <2>6, <2>7
<1>10. CASE Crash
  BY <1>1, <1>10, IdleStep DEF Crash, memory, disk, PromiseInv
<1>11. CASE Start
  BY <1>1, <1>11, LoadPasswords DEF Start, disk, PromiseInv, PromiseRequest
<1>12. CASE UNCHANGED vars
  BY <1>1, <1>12 DEF vars, memory, disk, PromiseInv, PromiseRequest
<1>13. QED
  BY <1>3, <1>4, <1>5, <1>6, <1>7, <1>8, <1>9, <1>10, <1>11, <1>12 DEF Next

-----------------------------------------------------------------------------
(***************************************************************************)
(* The server listens only once there is a state, and a state is never     *)
(* taken back while the process lives.                                     *)
(***************************************************************************)
ServedInv == serving => cached # C!Nothing

\* Storing leaves a state, whoever stores it.
LEMMA StoreServed ==
  ASSUME NEW a \in C!Actors, C!Store(a)
  PROVE  ServedInv'
<1>1. PICK whole : cached' = [from |-> run[a].from, whole |-> whole]
  BY DEF C!Store
<1>2. DOMAIN cached' = {"from", "whole"} /\ DOMAIN C!Nothing = {"from"}
  BY <1>1 DEF C!Nothing
<1>3. QED
  BY <1>2 DEF ServedInv

\* No step of the bridge serves nothing.
LEMMA NextServedInv == ServedInv /\ [BridgeNext]_bridge => ServedInv'
<1> SUFFICES ASSUME ServedInv, [BridgeNext]_bridge PROVE ServedInv'
  OBVIOUS
<1>1. CASE BridgeStart
  BY <1>1 DEF BridgeStart, ServedInv
<1>2. CASE BridgeCrash
  BY <1>2 DEF BridgeCrash, ServedInv
<1>3. ASSUME NEW c \in Clients, NEW op \in Operations, BridgeBegin(c, op) PROVE ServedInv'
  BY <1>3 DEF BridgeBegin, cacheOnly, ServedInv, C!Nothing
<1>4. ASSUME NEW c \in Clients, BridgeSave(c) PROVE ServedInv'
  BY <1>4 DEF BridgeSave, cacheOnly, ServedInv, C!Nothing
<1>5. ASSUME NEW c \in Clients, BridgeReconfigure(c) PROVE ServedInv'
  BY <1>5 DEF BridgeReconfigure, C!Reconfigure, ServedInv, C!Nothing
<1>6. ASSUME NEW c \in Clients, BridgePublish(c) PROVE ServedInv'
  BY <1>6 DEF BridgePublish, cacheOnly, ServedInv, C!Nothing
<1>7. ASSUME NEW c \in Clients, BridgeRefresh(c) PROVE ServedInv'
  BY <1>7 DEF BridgeRefresh, C!ApplyRefresh, ServedInv, C!Nothing
<1>8. ASSUME NEW c \in Clients, BridgeAnswer(c) PROVE ServedInv'
  BY <1>8, StoreServed DEF BridgeAnswer, C!Actors
<1>9. ASSUME NEW c \in Clients, AdminRefresh(c) PROVE ServedInv'
  BY <1>9 DEF AdminRefresh, C!RefreshNow, ServedInv, C!Nothing
<1>10. CASE BridgePoll
  <2>1. CASE C!TimerFires
    BY <2>1 DEF C!TimerFires, ServedInv, C!Nothing
  <2>2. CASE C!Store(C!Poller) \/ C!Store(C!Main)
    BY <2>2, StoreServed DEF C!Actors
  <2>3. QED
    BY <1>10, <2>1, <2>2 DEF BridgePoll
<1>11. CASE BridgeTick
  BY <1>11 DEF BridgeTick, C!Tick, ServedInv, C!Nothing
<1>12. CASE UNCHANGED bridge
  BY <1>12 DEF bridge, cacheOnly, ServedInv, C!Nothing
<1>13. QED
  BY <1>1, <1>2, <1>3, <1>4, <1>5, <1>6, <1>7, <1>8, <1>9, <1>10, <1>11, <1>12 DEF BridgeNext

\* For one administrator at a time and any configuration, crashes, failed writes
\* and overlapping refreshes: the tokens the last answer about the settings
\* promised open the bridge as soon as the server listens, and a display that
\* holds its token gets a state (server.go: auth, adminAuth, displayState).
THEOREM PromisedTokens ==
  ASSUME ~Mock, OneAdministrator
  PROVE  BridgeSpec => []PromisedTokensServed
<1>1. BridgeInit => PromiseInv /\ ServedInv
  BY InitPromise DEF BridgeInit, ServedInv
<1>2. PromiseInv /\ ServedInv /\ [BridgeNext]_bridge => (PromiseInv /\ ServedInv)'
  BY ManagerStep, NextPromise, NextServedInv
<1>3. PromiseInv /\ ServedInv => PromisedTokensServed
  <2> SUFFICES ASSUME PromiseInv, ServedInv, serving, told["settings"] # NoPromise
               PROVE  LET token == DisplayToken(told["settings"].display)
                          admin == AdminToken(told["settings"].admin, told["settings"].display)
                      IN  /\ token # Blank => DisplayState(token) = "state"
                          /\ AdminAuth(admin)
    BY DEF PromisedTokensServed
  <2>1. /\ told["settings"].display = cfg.display
        /\ told["settings"].admin = cfg.admin
    BY DEF PromiseInv, PasswordsOf
  <2>2. C!hasState
    BY DEF ServedInv, C!hasState
  <2>3. QED
    BY <2>1, <2>2 DEF DisplayState, Auth, AdminAuth
<1>4. QED
  BY <1>1, <1>2, <1>3, PTL DEF BridgeSpec
-----------------------------------------------------------------------------
(***************************************************************************)
(* The cache inside the bridge: what is proved of Cache alone is used for  *)
(* the life of one process, from BridgeStart to BridgeCrash.  What has to  *)
(* be known for that is where intervals come from: an installation or an   *)
(* accepted request.                                                       *)
(***************************************************************************)
P == INSTANCE CacheProofs WITH
       Collectors <- AnyCollector, Unreliable <- {}, Timings <- PossibleTimings,
       Requests <- Clients

\* The two names of the cache's definitions.
LEMMA SameCache ==
  /\ C!Nothing = P!Nothing /\ C!Idle = P!Idle /\ C!Reconfigured = P!Reconfigured
  /\ C!Poller = P!Poller /\ C!Main = P!Main /\ C!Actors = P!Actors
BY DEF C!Nothing, P!Nothing, C!Idle, P!Idle, C!Reconfigured, P!Reconfigured,
       C!Poller, P!Poller, C!Main, P!Main, C!Actors, P!Actors

\* In ticks, an installation's intervals and those of an accepted request.
LEMMA TimingType ==
  ASSUME NEW t \in PossibleTimings
  PROVE  t \in [poll : Nat \ {0}, stale : Nat \ {0}] /\ t.poll \in Nat /\ t.poll <= SlowestPoll
<1>1. t.poll \in 1 .. SlowestPoll /\ t.stale \in Nat \ {0} /\ SlowestPoll \in Nat
  BY BridgeAssumption
<1>2. t = [poll |-> t.poll, stale |-> t.stale]
  BY DEF PossibleTimings, InTicks
<1>3. QED
  BY <1>1, <1>2

\* The constants are what Cache assumes them to be.
LEMMA CacheAssumed == P!CacheAssumption
<1>1. PossibleTimings \subseteq [poll : Nat \ {0}, stale : Nat \ {0}]
  BY TimingType
<1>2. Clients \cap {P!Poller, P!Main} = {}
  BY BridgeAssumption, SameCache
<1>3. QED
  BY <1>1, <1>2, BridgeAssumption DEF P!CacheAssumption

\* A configuration makes one of the collectors.
LEMMA CollectorType ==
  ASSUME NEW c \in Config
  PROVE  CollectorForConfig(c) \in AnyCollector /\ BootCollector(c) \in AnyCollector
<1>1. c.settings \in Settings /\ c.sources \in UNION {[D -> Source] : D \in SUBSET Ids}
  BY ConfigFields
<1>2. [kind |-> "proxmox", sources |-> c.sources, settings |-> c.settings] \in AnyCollector
  BY <1>1 DEF AnyCollector
<1>3. QED
  BY <1>2 DEF CollectorForConfig, BootCollector, AnyCollector

\* The settings a config has, its defaults filled in, are possible ones.
KnownSettings(s) == WithDefaults(s) = s /\ InTicks(s) \in PossibleTimings

\* What a restart would work with, what the process works with, and every copy.
KnownTimings ==
  /\ KnownSettings(Load(diskConfig, diskSecrets).settings)
  /\ KnownSettings(cfg.settings)
  /\ \A c \in Clients : req[c].pc \in Steps => KnownSettings(req[c].config.settings)

\* The settings Load returns.
LEMMA LoadSettings ==
  ASSUME NEW c \in Config, NEW s \in Secrets
  PROVE  /\ Load(c, s).settings = IF Mock THEN DefaultSettings ELSE WithDefaults(c.settings)
         /\ WithDefaults(Load(c, s).settings) = Load(c, s).settings
<1>1. Load(c, s).settings = IF Mock THEN DefaultSettings ELSE WithDefaults(c.settings)
  BY DEF Load, NewDefault, ApplySecrets, ApplyDefaults
<1>2. WithDefaults(DefaultSettings) = DefaultSettings
  BY DEF WithDefaults, DefaultSettings, NonZero
<1>3. WithDefaults(WithDefaults(c.settings)) = WithDefaults(c.settings)
  BY ConfigFields, DefaultsTwice
<1>4. QED
  BY <1>1, <1>2, <1>3

\* A request makes no other settings than the ones it was sent, or the old ones.
LEMMA RequestSettings ==
  ASSUME NEW op \in Operations, NEW c \in Config, NEW s \in Secrets,
         KnownSettings(c.settings), OperationOK(op, c, s)
  PROVE  KnownSettings(Prepared(op, c, s).config.settings)
<1> DEFINE r == Result(op, c, s)
<1>1. op \in Operation
  BY ManagerAssumption
<1>2. Prepared(op, c, s).config.settings = WithDefaults(r.config.settings)
  BY DEF Prepared, ApplySecrets, ApplyDefaults
<1>3. /\ op.kind = "settings" => r = UpdateServer(op.in, c, s)
      /\ op.kind # "settings" => r.config.settings = c.settings
  <2>1. op.kind \in {"settings", "save", "delete"}
    BY <1>1 DEF Operation
  <2>2. QED
    BY <2>1 DEF Result, UpsertSource, DeleteSource, Config
<1> HIDE DEF r
<1>4. CASE op.kind = "settings"
  <2> DEFINE n == r.config.settings
             i == op.in.settings
  <2>1. /\ op.in \in ServerUpdate /\ i \in Settings
        /\ i.poll >= 5 /\ i.stale >= i.poll
    BY <1>1, <1>4 DEF Operation, ServerUpdate, OperationOK, UpdateServerOK
  <2>2. r = UpdateServer(op.in, c, s)
    BY <1>3, <1>4
  <2>3. n \in Settings /\ n.poll = i.poll /\ n.stale = i.stale
    <3>1. UpdateServer(op.in, c, s).config \in Config
      BY <2>1, UpdateServerType
    <3>2. n \in Settings
      BY <2>2, <3>1, ConfigFields
    <3>3. c \in [settings : Settings,
                 display : Optional(Passwords), admin : Optional(Passwords),
                 sources : UNION {[D -> Source] : D \in SUBSET Ids}]
      BY DEF Config
    <3>4. n.poll = i.poll /\ n.stale = i.stale
      BY <2>2, <3>3 DEF UpdateServer
    <3>5. QED
      BY <3>2, <3>4
  <2>4. WithDefaults(n).poll = i.poll /\ WithDefaults(n).stale = i.stale
    BY <2>1, <2>3 DEF WithDefaults, NonZero, Settings
  <2>5. InTicks(WithDefaults(n)) = InTicks(i)
    BY <2>4 DEF InTicks
  <2>6. InTicks(i) \in PossibleTimings
    BY <1>4, <2>1 DEF PossibleTimings, UpdateServerOK
  <2>7. WithDefaults(WithDefaults(n)) = WithDefaults(n)
    BY <2>3, DefaultsTwice
  <2>8. QED
    BY <1>2, <2>5, <2>6, <2>7 DEF KnownSettings
<1>5. CASE op.kind # "settings"
  BY <1>2, <1>3, <1>5 DEF KnownSettings
<1>6. QED
  BY <1>4, <1>5
\* Only the settings of config.yaml count.
LEMMA KnownOnDisk ==
  ASSUME NEW c \in Config, NEW s \in Secrets, NEW k \in Config, NEW t \in Secrets,
         KnownSettings(Load(c, s).settings),
         k.settings = c.settings \/ KnownSettings(k.settings)
  PROVE  KnownSettings(Load(k, t).settings)
<1>1. /\ Load(c, s).settings = IF Mock THEN DefaultSettings ELSE WithDefaults(c.settings)
      /\ Load(k, t).settings = IF Mock THEN DefaultSettings ELSE WithDefaults(k.settings)
  BY LoadSettings
<1>2. CASE Mock \/ k.settings = c.settings
  <2>1. Load(k, t).settings = Load(c, s).settings
    BY <1>1, <1>2
  <2>2. QED
    BY <2>1
<1>3. CASE ~Mock /\ KnownSettings(k.settings)
  <2>1. Load(k, t).settings = k.settings
    BY <1>1, <1>3 DEF KnownSettings
  <2>2. QED
    BY <1>3, <2>1
<1>4. QED
  BY <1>2, <1>3

\* main loads possible settings.
LEMMA InitKnown == Init => KnownTimings
<1> SUFFICES ASSUME Init PROVE KnownTimings
  OBVIOUS
<1>1. PICK i \in Installed :
        /\ diskConfig = i.config /\ diskSecrets = i.secrets
        /\ cfg = Load(i.config, i.secrets)
        /\ req = [c \in Clients |-> Idle]
  BY DEF Init
<1>2. i.config \in Config /\ i.secrets \in Secrets
  BY ManagerAssumption
<1>3. KnownSettings(Load(i.config, i.secrets).settings)
  BY <1>2, LoadSettings DEF KnownSettings, PossibleTimings
<1>4. \A c \in Clients : req[c].pc \notin Steps
  BY <1>1, IdleStep
<1>5. QED
  BY <1>1, <1>3, <1>4 DEF KnownTimings

\* A request that goes on keeps the settings of its copy.
LEMMA CopyGoesOn ==
  ASSUME TypeOK, KnownTimings, NEW c \in Clients, req[c].pc \in Steps, NEW pc,
         req' = [req EXCEPT ![c].pc = pc]
  PROVE  \A d \in Clients : req'[d].pc \in Steps => KnownSettings(req'[d].config.settings)
<1>1. req[c] \in InFlight
  BY Working
<1>2. req'[c].config = req[c].config /\ \A d \in Clients \ {c} : req'[d] = req[d]
  BY <1>1 DEF InFlight, TypeOK
<1>3. QED
  BY <1>2 DEF KnownTimings

\* The manager comes by no other settings.
LEMMA NextKnown ==
  ASSUME TypeOK, KnownTimings, [Next]_vars
  PROVE  KnownTimings'
<1>1. ASSUME NEW c \in Clients, NEW op \in Operations, Begin(c, op) PROVE KnownTimings'
  <2> DEFINE p == Prepared(op, cfg, secrets)
             r == [pc |-> "save config", op |-> op, config |-> p.config, secrets |-> p.secrets]
  <2>1. req' = [req EXCEPT ![c] = r] /\ Accepted(op, cfg, secrets)
    BY <1>1 DEF Begin
  <2>2. KnownSettings(p.config.settings)
    BY <2>1, RequestSettings DEF Accepted, KnownTimings, TypeOK
  <2>3. KnownSettings(r.config.settings)
    BY <2>2
  <2> HIDE DEF p, r
  <2>4. \A d \in Clients : req'[d] \in {r, req[d]}
    BY <2>1 DEF TypeOK
  <2>5. \A d \in Clients : req'[d].pc \in Steps => KnownSettings(req'[d].config.settings)
    BY <2>3, <2>4 DEF KnownTimings
  <2>6. UNCHANGED <<cfg, diskConfig, diskSecrets>>
    BY <1>1 DEF Begin, memory, disk
  <2>7. QED
    BY <2>5, <2>6 DEF KnownTimings
<1>2. ASSUME NEW c \in Clients, SaveConfig(c) PROVE KnownTimings'
  <2>1. req[c].pc \in Steps /\ diskConfig' = Strip(req[c].config)
        /\ UNCHANGED <<cfg, diskSecrets>>
    BY <1>2 DEF SaveConfig, memory, Steps
  <2>2. req[c] \in InFlight /\ req[c].config \in Config /\ KnownSettings(req[c].config.settings)
    BY <2>1, Working DEF KnownTimings
  <2>3. /\ req'[c].config.settings = req[c].config.settings
        /\ \A d \in Clients \ {c} : req'[d] = req[d]
    BY <1>2, <2>2 DEF SaveConfig, InFlight, WipeValues, TypeOK
  <2>4. diskConfig' \in Config /\ diskConfig'.settings = req[c].config.settings
    BY <2>1, <2>2, StripType DEF Strip, WipeValues, ApplyDefaults, KnownSettings
  <2>5. KnownSettings(Load(diskConfig', diskSecrets').settings)
    BY <2>1, <2>2, <2>4, KnownOnDisk DEF KnownTimings, TypeOK
  <2>6. \A d \in Clients : req'[d].pc \in Steps => KnownSettings(req'[d].config.settings)
    BY <2>2, <2>3 DEF KnownTimings
  <2>7. QED
    BY <2>1, <2>5, <2>6 DEF KnownTimings
<1>3. ASSUME NEW c \in Clients, SaveSecrets(c) PROVE KnownTimings'
  <2>1. /\ req[c].pc \in Steps /\ diskSecrets' = req[c].secrets
        /\ req' = [req EXCEPT ![c].pc = "reconfigure"] /\ UNCHANGED <<cfg, diskConfig>>
    BY <1>3 DEF SaveSecrets, Goto, memory, Steps
  <2>2. req[c].secrets \in Secrets
    BY <2>1, Working
  <2>3. KnownSettings(Load(diskConfig', diskSecrets').settings)
    BY <2>1, <2>2, KnownOnDisk DEF KnownTimings, TypeOK
  <2>4. QED
    BY <2>1, <2>3, CopyGoesOn DEF KnownTimings
<1>4. ASSUME NEW c \in Clients, SaveFails(c) \/ Answer(c) PROVE KnownTimings'
  <2>1. req' = [req EXCEPT ![c] = Idle] /\ UNCHANGED <<cfg, diskConfig, diskSecrets>>
    BY <1>4 DEF SaveFails, Answer, Finish, memory, disk
  <2>2. \A d \in Clients : req'[d] \in {Idle, req[d]}
    BY <2>1 DEF TypeOK
  <2>3. QED
    BY <2>1, <2>2, IdleStep DEF KnownTimings
<1>5. ASSUME NEW c \in Clients, Reconfigure(c) PROVE KnownTimings'
  <2>1. /\ req[c].pc \in Steps
        /\ req' = [req EXCEPT ![c].pc = "publish"] /\ UNCHANGED <<cfg, diskConfig, diskSecrets>>
    BY <1>5 DEF Reconfigure, Goto, disk, Steps
  <2>2. QED
    BY <2>1, CopyGoesOn DEF KnownTimings
<1>6. ASSUME NEW c \in Clients, Publish(c) PROVE KnownTimings'
  <2>1. /\ req[c].pc \in Steps /\ cfg' = req[c].config
        /\ req' = [req EXCEPT ![c].pc = "refresh"] /\ UNCHANGED <<diskConfig, diskSecrets>>
    BY <1>6 DEF Publish, Goto, disk, Steps
  <2>2. QED
    BY <2>1, CopyGoesOn DEF KnownTimings
<1>7. CASE Crash
  BY <1>7, IdleStep DEF Crash, memory, disk, KnownTimings
<1>8. CASE Start
  BY <1>8 DEF Start, disk, KnownTimings
<1>9. CASE UNCHANGED vars
  BY <1>9 DEF vars, disk, memory, KnownTimings
<1>10. QED
  BY <1>1, <1>2, <1>3, <1>4, <1>5, <1>6, <1>7, <1>8, <1>9 DEF Next
\* While the process lives, a step of the bridge is one of the cache or leaves it
\* alone: Cache is all there is between two starts.
LEMMA CacheStep ==
  ASSUME TypeOK, KnownTimings, [BridgeNext]_bridge
  PROVE  BridgeStart \/ BridgeCrash \/ (up' = up /\ [P!Next]_(P!vars))
<1>1. ASSUME cacheOnly' = cacheOnly, collector' = collector PROVE UNCHANGED P!vars
  BY <1>1 DEF cacheOnly, P!vars
<1>2. ASSUME NEW c \in Clients, NEW op \in Operations, BridgeBegin(c, op)
      PROVE  up' = up /\ UNCHANGED P!vars
  BY <1>1, <1>2 DEF BridgeBegin, Begin, memory
<1>3. ASSUME NEW c \in Clients, BridgeSave(c) PROVE up' = up /\ UNCHANGED P!vars
  BY <1>1, <1>3 DEF BridgeSave, SaveConfig, SaveSecrets, SaveFails, memory
<1>4. ASSUME NEW c \in Clients, BridgeReconfigure(c) PROVE up' = up /\ P!Next
  <2> DEFINE t == InTicks(req[c].config.settings)
  <2>1. /\ req[c].pc \in Steps /\ up' = up
        /\ collector' = CollectorForConfig(ApplySecrets(req[c].config, req[c].secrets))
        /\ C!Reconfigure(c, collector', t)
    BY <1>4 DEF BridgeReconfigure, Reconfigure, Steps
  <2>2. req[c].config \in Config /\ req[c].secrets \in Secrets
    BY <2>1, Working
  <2>3. collector' \in AnyCollector
    BY <2>1, <2>2, ApplySecretsType, CollectorType
  <2>4. t \in PossibleTimings
    BY <2>1 DEF KnownTimings, KnownSettings
  <2> HIDE DEF t
  <2>5. P!Reconfigure(c, collector', t)
    BY <2>1 DEF C!Reconfigure, P!Reconfigure, C!Idle, P!Idle, C!Reconfigured, P!Reconfigured
  <2>6. QED
    BY <2>1, <2>3, <2>4, <2>5 DEF P!Next
<1>5. ASSUME NEW c \in Clients, BridgePublish(c) PROVE up' = up /\ UNCHANGED P!vars
  BY <1>1, <1>5 DEF BridgePublish, Publish
<1>6. ASSUME NEW c \in Clients, BridgeRefresh(c) PROVE up' = up /\ P!Next
  <2>1. P!ApplyRefresh(c) /\ up' = up
    BY <1>6 DEF BridgeRefresh, managerOnly, C!ApplyRefresh, P!ApplyRefresh, C!BeginRefresh,
           P!BeginRefresh, C!Collecting, P!Collecting, C!Reconfigured, P!Reconfigured
  <2>2. QED
    BY <2>1 DEF P!Next
<1>7. ASSUME NEW a, C!Store(a) PROVE P!Store(a)
  BY <1>7 DEF C!Store, P!Store, C!AfterRefresh, P!AfterRefresh, C!Sleeping, P!Sleeping,
         C!Idle, P!Idle, C!Poller, P!Poller, C!Main, P!Main
<1>8. ASSUME NEW c \in Clients, BridgeAnswer(c) PROVE up' = up /\ P!Next
  BY <1>7, <1>8 DEF BridgeAnswer, managerOnly, Answer, P!Next, P!Actors
<1>9. ASSUME NEW c \in Clients, AdminRefresh(c) PROVE up' = up /\ P!Next
  <2>1. P!RefreshNow(c) /\ up' = up
    BY <1>9 DEF AdminRefresh, managerOnly, C!RefreshNow, P!RefreshNow, C!BeginRefresh,
           P!BeginRefresh, C!Collecting, P!Collecting, C!Idle, P!Idle
  <2>2. QED
    BY <2>1 DEF P!Next
<1>10. CASE BridgePoll
  <2>1. CASE C!TimerFires
    <3>1. P!TimerFires
      BY <2>1 DEF C!TimerFires, P!TimerFires, C!BeginRefresh, P!BeginRefresh, C!Collecting,
             P!Collecting, C!Poller, P!Poller
    <3>2. QED
      BY <1>10, <3>1 DEF BridgePoll, managerOnly, P!Next
  <2>2. CASE C!Store(C!Poller) \/ C!Store(C!Main)
    <3>1. P!Store(P!Poller) \/ P!Store(P!Main)
      BY <1>7, <2>2, SameCache
    <3>2. QED
      BY <1>10, <3>1 DEF BridgePoll, managerOnly, P!Next, P!Actors
  <2>3. QED
    BY <1>10, <2>1, <2>2 DEF BridgePoll
<1>11. CASE BridgeTick
  <2>1. P!Tick
    BY <1>11 DEF BridgeTick, C!Tick, P!Tick, C!Waits, P!Waits, C!Later, P!Later,
           C!Actors, P!Actors, C!Poller, P!Poller, C!Main, P!Main
  <2>2. QED
    BY <1>11, <2>1 DEF BridgeTick, managerOnly, P!Next
<1>12. CASE UNCHANGED bridge
  BY <1>1, <1>12 DEF bridge, vars
<1>13. QED
  BY <1>2, <1>3, <1>4, <1>5, <1>6, <1>8, <1>9, <1>10, <1>11, <1>12 DEF BridgeNext
\* The cache starts with the process.
LEMMA CacheStarts ==
  /\ TypeOK /\ KnownTimings /\ BridgeInit => P!Init
  /\ TypeOK' /\ KnownTimings' /\ BridgeStart => P!Init'
<1>1. ASSUME TypeOK, KnownTimings, BridgeInit PROVE P!Init
  <2>1. collector = BootCollector(cfg) /\ cfg \in Config
    BY <1>1 DEF BridgeInit, Init, TypeOK
  <2>2. collector \in AnyCollector /\ timing \in PossibleTimings
    BY <1>1, <2>1, CollectorType DEF BridgeInit, KnownTimings, KnownSettings
  <2>3. QED
    BY <1>1, <2>2 DEF BridgeInit, FirstRun, P!Init, C!Nothing, P!Nothing, C!Actors, P!Actors,
           C!Main, P!Main, C!Poller, P!Poller, C!Collecting, P!Collecting, C!Sleeping,
           P!Sleeping, C!Idle, P!Idle
<1>2. ASSUME TypeOK', KnownTimings', BridgeStart PROVE P!Init'
  <2>1. collector' = BootCollector(cfg') /\ cfg' \in Config
    BY <1>2 DEF BridgeStart, Start, TypeOK
  <2>2. collector' \in AnyCollector /\ timing' \in PossibleTimings
    BY <1>2, <2>1, CollectorType DEF BridgeStart, KnownTimings, KnownSettings
  <2>3. QED
    BY <1>2, <2>2 DEF BridgeStart, FirstRun, P!Init, C!Nothing, P!Nothing, C!Actors, P!Actors,
           C!Main, P!Main, C!Poller, P!Poller, C!Collecting, P!Collecting, C!Sleeping,
           P!Sleeping, C!Idle, P!Idle
<1>3. QED
  BY <1>1, <1>2

-----------------------------------------------------------------------------
(***************************************************************************)
(* The two halves of one process.  A goroutine is in the cache exactly     *)
(* when the manager's half says so.                                        *)
(***************************************************************************)
Together(pc, at) ==
  /\ pc \in {"save config", "save secrets", "reconfigure"} => at = "idle"
  /\ pc = "publish" => at = "reconfigured"
  /\ pc = "refresh" => at \in {"reconfigured", "collect"}
  /\ at = "reconfigured" => pc \in {"publish", "refresh"}

HalvesInv ==
  /\ serving => up
  /\ ~up => \A c \in Clients : req[c].pc = "idle"
  /\ \A c \in Clients : Together(req[c].pc, run[c].at)

BridgeInv == TypeOK /\ KnownTimings /\ P!TypeOK /\ HalvesInv

\* A step of one goroutine leaves the others together.
LEMMA OneGoroutine ==
  ASSUME HalvesInv, NEW c \in Clients,
         \A d \in Clients \ {c} : req'[d] = req[d] /\ run'[d] = run[d],
         Together(req'[c].pc, run'[c].at)
  PROVE  \A d \in Clients : Together(req'[d].pc, run'[d].at)
BY DEF HalvesInv

\* What the manager and the cache each know of a goroutine.
LEMMA GoroutineIs ==
  ASSUME TypeOK, P!TypeOK, NEW c \in Clients
  PROVE  /\ c \in C!Actors /\ c # C!Poller /\ c # C!Main
         /\ \A g : [run EXCEPT ![c] = g][c] = g
         /\ \A g : \A d \in Clients \ {c} : [run EXCEPT ![c] = g][d] = run[d]
         /\ \A r : [req EXCEPT ![c] = r][c] = r
         /\ \A r : \A d \in Clients \ {c} : [req EXCEPT ![c] = r][d] = req[d]
<1>1. c \in C!Actors /\ c # C!Poller /\ c # C!Main
  BY BridgeAssumption DEF C!Actors
<1>2. run \in [C!Actors -> P!Goroutine]
  BY SameCache DEF P!TypeOK
<1>3. Clients \subseteq C!Actors
  BY DEF C!Actors
<1>4. QED
  BY <1>1, <1>2, <1>3 DEF TypeOK

\* A request that has just been read is about to write config.yaml.
LEMMA BeginsAt ==
  ASSUME TypeOK, NEW c \in Clients, NEW op \in Operations, Begin(c, op)
  PROVE  req'[c].pc = "save config" /\ \A d \in Clients \ {c} : req'[d] = req[d]
<1> DEFINE p == Prepared(op, cfg, secrets)
           r == [pc |-> "save config", op |-> op, config |-> p.config, secrets |-> p.secrets]
<1>1. req' = [req EXCEPT ![c] = r]
  BY DEF Begin
<1>2. r.pc = "save config"
  OBVIOUS
<1> HIDE DEF r, p
<1>3. req'[c] = r /\ \A d \in Clients \ {c} : req'[d] = req[d]
  BY <1>1 DEF TypeOK
<1>4. QED
  BY <1>2, <1>3

\* The two halves stay together: one step per action.
LEMMA NextHalves ==
  ASSUME TypeOK, P!TypeOK, HalvesInv, [BridgeNext]_bridge
  PROVE  HalvesInv'
<1>1. CASE BridgeStart
  <2>1. ~up /\ up' /\ ~serving' /\ req' = req
    BY <1>1 DEF BridgeStart, Start
  <2>2. \A c \in Clients : run'[c].at = "idle"
    <3> TAKE c \in Clients
    <3>1. c \in C!Actors /\ c # C!Poller /\ c # C!Main
      BY GoroutineIs
    <3>2. QED
      BY <1>1, <3>1 DEF BridgeStart, FirstRun, C!Idle
  <2>3. QED
    BY <2>1, <2>2 DEF HalvesInv, Together
<1>2. CASE BridgeCrash
  <2>1. ~up' /\ ~serving' /\ \A c \in Clients : req'[c].pc = "idle"
    BY <1>2, IdleStep DEF BridgeCrash, Crash
  <2>2. \A c \in Clients : run'[c].at = "idle"
    BY <1>2, GoroutineIs DEF BridgeCrash, C!Idle
  <2>3. QED
    BY <2>1, <2>2 DEF HalvesInv, Together
<1>3. ASSUME NEW c \in Clients, NEW op \in Operations, BridgeBegin(c, op) PROVE HalvesInv'
  <2>1. up /\ up' = up /\ run' = run /\ serving' = serving /\ run[c] = C!Idle
    BY <1>3 DEF BridgeBegin, Begin, cacheOnly
  <2>2. run[c].at = "idle"
    BY <2>1 DEF C!Idle
  <2>3. req'[c].pc = "save config" /\ \A d \in Clients \ {c} : req'[d] = req[d]
    BY <1>3, BeginsAt DEF BridgeBegin
  <2>4. Together(req'[c].pc, run'[c].at)
    BY <2>1, <2>2, <2>3 DEF Together
  <2>5. QED
    BY <2>1, <2>3, <2>4, OneGoroutine DEF HalvesInv
<1>4. ASSUME NEW c \in Clients, BridgeSave(c) PROVE HalvesInv'
  <2>1. /\ run' = run /\ up' = up /\ serving' = serving
        /\ req[c].pc \in {"save config", "save secrets"} /\ req[c].pc \in Steps
    BY <1>4 DEF BridgeSave, SaveConfig, SaveSecrets, SaveFails, cacheOnly, Steps
  <2>2. req[c] \in InFlight
    BY <2>1, Working
  <2>3. /\ req'[c].pc \in {"save secrets", "reconfigure", "idle"}
        /\ \A d \in Clients \ {c} : req'[d] = req[d]
    BY <1>4, <2>2, IdleStep
       DEF BridgeSave, SaveConfig, SaveSecrets, SaveFails, Goto, Finish, TypeOK, InFlight
  <2>4. run[c].at = "idle" /\ up
    BY <2>1 DEF HalvesInv, Together
  <2>5. Together(req'[c].pc, run'[c].at)
    BY <2>1, <2>3, <2>4 DEF Together
  <2>6. QED
    BY <2>1, <2>3, <2>4, <2>5, OneGoroutine DEF HalvesInv
<1>5. ASSUME NEW c \in Clients, BridgeReconfigure(c) PROVE HalvesInv'
  <2>1. /\ run' = [run EXCEPT ![c] = C!Reconfigured] /\ up' = up /\ serving' = serving
        /\ req[c].pc = "reconfigure" /\ req' = [req EXCEPT ![c].pc = "publish"]
    BY <1>5 DEF BridgeReconfigure, Reconfigure, Goto, C!Reconfigure
  <2>2. req[c] \in InFlight
    BY <2>1, Working DEF Steps
  <2>3. req'[c].pc = "publish" /\ \A d \in Clients \ {c} : req'[d] = req[d]
    BY <2>1, <2>2 DEF TypeOK, InFlight
  <2>4. run'[c].at = "reconfigured" /\ \A d \in Clients \ {c} : run'[d] = run[d]
    BY <2>1, GoroutineIs DEF C!Reconfigured
  <2>5. up
    BY <2>1 DEF HalvesInv
  <2>6. Together(req'[c].pc, run'[c].at)
    BY <2>3, <2>4 DEF Together
  <2>7. QED
    BY <2>1, <2>3, <2>4, <2>5, <2>6, OneGoroutine DEF HalvesInv
<1>6. ASSUME NEW c \in Clients, BridgePublish(c) PROVE HalvesInv'
  <2>1. /\ run' = run /\ up' = up /\ serving' = serving
        /\ req[c].pc = "publish" /\ req' = [req EXCEPT ![c].pc = "refresh"]
    BY <1>6 DEF BridgePublish, Publish, Goto, cacheOnly
  <2>2. req[c] \in InFlight
    BY <2>1, Working DEF Steps
  <2>3. req'[c].pc = "refresh" /\ \A d \in Clients \ {c} : req'[d] = req[d]
    BY <2>1, <2>2 DEF TypeOK, InFlight
  <2>4. run[c].at = "reconfigured" /\ up
    BY <2>1 DEF HalvesInv, Together
  <2>5. Together(req'[c].pc, run'[c].at)
    BY <2>1, <2>3, <2>4 DEF Together
  <2>6. QED
    BY <2>1, <2>3, <2>4, <2>5, OneGoroutine DEF HalvesInv
<1>7. ASSUME NEW c \in Clients, BridgeRefresh(c) \/ AdminRefresh(c) PROVE HalvesInv'
  <2>1. /\ run' = [run EXCEPT ![c] = C!Collecting(collector)]
        /\ up' = up /\ serving' = serving /\ req' = req
        /\ req[c].pc \in {"refresh", "idle"}
    BY <1>7, IdleStep DEF BridgeRefresh, AdminRefresh, C!ApplyRefresh, C!RefreshNow,
           C!BeginRefresh, managerOnly
  <2>2. run'[c].at = "collect" /\ \A d \in Clients \ {c} : run'[d] = run[d]
    BY <2>1, GoroutineIs DEF C!Collecting
  <2>3. Together(req'[c].pc, run'[c].at)
    BY <2>1, <2>2 DEF Together
  <2>4. QED
    BY <2>1, <2>2, <2>3, OneGoroutine DEF HalvesInv
<1>8. ASSUME NEW c \in Clients, BridgeAnswer(c) PROVE HalvesInv'
  <2>1. /\ C!AfterRefresh(c) /\ up' = up
        /\ (req' = req /\ req[c] = Idle) \/ req' = [req EXCEPT ![c] = Idle]
    <3>1. C!AfterRefresh(c)
      BY <1>8 DEF BridgeAnswer, C!Store
    <3>2. CASE req[c] = Idle
      BY <1>8, <3>1, <3>2 DEF BridgeAnswer, managerOnly
    <3>3. CASE req[c] # Idle
      BY <1>8, <3>1, <3>3 DEF BridgeAnswer, Answer, Finish
    <3>4. QED
      BY <3>2, <3>3
  <2>2. c # C!Poller /\ c # C!Main
    BY GoroutineIs
  <2>3. run' = [run EXCEPT ![c] = C!Idle] /\ serving' = (serving \/ FALSE)
    BY <2>1, <2>2 DEF C!AfterRefresh
  <2>4. run'[c] = C!Idle /\ \A d \in Clients \ {c} : run'[d] = run[d]
    BY <2>3, GoroutineIs DEF C!Idle
  <2>5. serving' <=> serving
    BY <2>3
  <2>6. /\ run'[c].at = "idle" /\ (\A d \in Clients \ {c} : run'[d] = run[d])
        /\ (serving' <=> serving)
    BY <2>4, <2>5 DEF C!Idle
  <2>7. req'[c].pc = "idle" /\ \A d \in Clients \ {c} : req'[d] = req[d]
    BY <2>1, GoroutineIs, IdleStep
  <2>8. Together(req'[c].pc, run'[c].at)
    BY <2>6, <2>7 DEF Together
  <2>9. QED
    BY <2>1, <2>6, <2>7, <2>8, OneGoroutine DEF HalvesInv
<1>9. CASE BridgePoll
  <2>1. /\ up /\ up' = up /\ req' = req
        /\ \E a \in {C!Poller, C!Main} : \E g : run' = [run EXCEPT ![a] = g]
    BY <1>9 DEF BridgePoll, managerOnly, C!TimerFires, C!BeginRefresh, C!Store, C!AfterRefresh
  <2>2. \A c \in Clients : run'[c] = run[c]
    <3> TAKE c \in Clients
    <3>1. c \in C!Actors /\ c # C!Poller /\ c # C!Main
      BY GoroutineIs
    <3>2. run \in [C!Actors -> P!Goroutine]
      BY SameCache DEF P!TypeOK
    <3>3. QED
      BY <2>1, <3>1, <3>2
  <2>3. QED
    BY <2>1, <2>2 DEF HalvesInv
<1>10. CASE BridgeTick
  <2>1. up /\ up' = up /\ req' = req /\ serving' = serving
    BY <1>10 DEF BridgeTick, managerOnly, C!Tick
  <2>2. \A c \in Clients : run'[c].at = run[c].at
    <3> TAKE c \in Clients
    <3>1. c \in C!Actors /\ run[c] \in P!Goroutine
      BY GoroutineIs, SameCache DEF P!TypeOK
    <3>2. /\ run[c].at = "collect" => run[c] \in [at : {"collect"}, from : AnyCollector,
                                                  elapsed : 0..MaxCollect]
          /\ run[c].at = "sleep" => run[c] \in [at : {"sleep"}, left : Nat]
      BY <3>1, CacheAssumed, P!GoroutineFields
    <3>3. QED
      BY <1>10, <3>1, <3>2 DEF BridgeTick, C!Tick
  <2>3. QED
    BY <2>1, <2>2 DEF HalvesInv
<1>11. CASE UNCHANGED bridge
  BY <1>11 DEF bridge, vars, cacheOnly, HalvesInv
<1>12. QED
  BY <1>1, <1>2, <1>3, <1>4, <1>5, <1>6, <1>7, <1>8, <1>9, <1>10, <1>11 DEF BridgeNext
\* main starts with both halves at rest.
LEMMA InitBridgeInv == BridgeInit => BridgeInv
<1> SUFFICES ASSUME BridgeInit PROVE BridgeInv
  OBVIOUS
<1>1. TypeOK /\ KnownTimings
  BY InitType, InitKnown DEF BridgeInit
<1>2. P!TypeOK
  BY <1>1, CacheStarts, P!InitType, CacheAssumed
<1>3. ~serving /\ up /\ req = [c \in Clients |-> Idle]
  BY DEF BridgeInit, Init
<1>4. ASSUME NEW c \in Clients PROVE req[c].pc = "idle" /\ run[c].at = "idle"
  <2>1. c \in C!Actors /\ c # C!Poller /\ c # C!Main
    BY <1>1, <1>2, <1>4, GoroutineIs
  <2>2. run[c] = C!Idle
    BY <2>1 DEF BridgeInit, FirstRun
  <2>3. QED
    BY <1>3, <2>2, IdleStep DEF C!Idle
<1>5. HalvesInv
  BY <1>3, <1>4 DEF HalvesInv, Together
<1>6. QED
  BY <1>1, <1>2, <1>5 DEF BridgeInv

\* What holds when the cache starts, holds when it starts again.
LEMMA StartsTyped == P!Init' => P!TypeOK'
<1>1. P!Init => P!TypeOK
  BY P!InitType, CacheAssumed
<1>2. QED
  BY <1>1, PTL

\* Every step keeps what is known of both halves.
LEMMA NextBridgeInv == BridgeInv /\ [BridgeNext]_bridge => BridgeInv'
<1> SUFFICES ASSUME BridgeInv, [BridgeNext]_bridge PROVE BridgeInv'
  OBVIOUS
<1>1. TypeOK /\ KnownTimings /\ P!TypeOK /\ HalvesInv
  BY DEF BridgeInv
<1>2. TypeOK' /\ KnownTimings'
  BY <1>1, ManagerStep, NextType, NextKnown
<1>3. CASE BridgeStart
  <2>1. P!TypeOK'
    BY <1>2, <1>3, CacheStarts, StartsTyped
  <2>2. QED
    BY <1>1, <1>2, <2>1, NextHalves DEF BridgeInv
<1>4. CASE BridgeCrash
  <2>1. /\ UNCHANGED <<collector, timing, cached, sinceOK, dataAge, lastErr, interval, sinceReconf>>
        /\ serving' = FALSE /\ run' = [a \in P!Actors |-> P!Idle]
    BY <1>4, SameCache DEF BridgeCrash, Crash, memory
  <2>2. P!Idle \in P!Goroutine
    BY CacheAssumed, P!GoroutineForms
  <2>3. P!TypeOK'
    BY <1>1, <2>1, <2>2 DEF P!TypeOK
  <2>4. QED
    BY <1>1, <1>2, <2>3, NextHalves DEF BridgeInv
<1>5. CASE [P!Next]_(P!vars)
  <2>1. P!TypeOK'
    BY <1>1, <1>5, P!NextType, CacheAssumed
  <2>2. QED
    BY <1>1, <1>2, <2>1, NextHalves DEF BridgeInv
<1>6. QED
  BY <1>1, <1>3, <1>4, <1>5, CacheStep

\* For any number of administrators at once, and whatever is installed: manager
\* and cache stay well-formed, intervals come from an installation or an accepted
\* request, the server listens only while the process lives, and a goroutine is
\* inside the cache exactly when its request says so (Manager.apply, main).
THEOREM BridgeTypeCorrect == BridgeSpec => []BridgeTypeOK
<1>1. BridgeInv => BridgeTypeOK
  <2> SUFFICES ASSUME BridgeInv PROVE BridgeTypeOK
    OBVIOUS
  <2>1. TypeOK /\ P!TypeOK /\ HalvesInv
    BY DEF BridgeInv
  <2>2. timing \in PossibleTimings /\ (cached = C!Nothing \/ cached.from \in AnyCollector)
    BY <2>1, SameCache DEF P!TypeOK, P!CachedState
  <2>3. ASSUME NEW c \in Clients
        PROVE  /\ run[c] = C!Reconfigured => req[c].pc \in {"publish", "refresh"}
               /\ req[c].pc = "refresh" => run[c].at \in {"reconfigured", "collect"}
    <3>1. Together(req[c].pc, run[c].at)
      BY <2>1, <2>3 DEF HalvesInv
    <3>2. C!Reconfigured.at = "reconfigured"
      BY DEF C!Reconfigured
    <3>3. QED
      BY <3>1, <3>2 DEF Together
  <2>4. serving => up
    BY <2>1 DEF HalvesInv
  <2>5. QED
    BY <2>1, <2>2, <2>3, <2>4 DEF BridgeTypeOK
<1>2. QED
  BY <1>1, InitBridgeInv, NextBridgeInv, PTL DEF BridgeSpec
-----------------------------------------------------------------------------
(***************************************************************************)
(* One administrator at a time: what displays are shown.  The intervals    *)
(* follow the settings the manager holds as the collector follows its      *)
(* sources, but for the moment between Reconfigure and the publication;    *)
(* and in each life of the process the poller replaces what an old         *)
(* collector stored, as it does in Cache.                                  *)
(***************************************************************************)
TimingInv ==
  /\ up /\ (\A c \in Clients : req[c].pc # "publish") => timing = InTicks(cfg.settings)
  /\ \A c \in Clients :
       req[c].pc = "publish" => timing = InTicks(req[c].config.settings)

ReplacedInLife == up => P!ReplacedInv(SlowestPoll)

ShownInv == BridgeInv /\ CollectorInv /\ ServedInv /\ TimingInv /\ ReplacedInLife

\* Every step of the only request keeps the intervals in step.
LEMMA NextTiming ==
  ASSUME OneAdministrator, BridgeInv, TimingInv, [BridgeNext]_bridge
  PROVE  TimingInv'
<1>1. TypeOK /\ TypeOK' /\ HalvesInv
  BY ManagerStep, NextType DEF BridgeInv
<1>2. CASE BridgeStart
  <2>1. timing' = InTicks(cfg'.settings) /\ ~up /\ req' = req
    BY <1>2 DEF BridgeStart, Start
  <2>2. \A c \in Clients : req'[c].pc = "idle"
    BY <1>1, <2>1 DEF HalvesInv
  <2>3. QED
    BY <2>1, <2>2 DEF TimingInv
<1>3. CASE BridgeCrash
  <2>1. ~up' /\ \A c \in Clients : req'[c].pc = "idle"
    BY <1>3, IdleStep DEF BridgeCrash, Crash
  <2>2. QED
    BY <2>1 DEF TimingInv
<1>4. ASSUME NEW c \in Clients, NEW op \in Operations, BridgeBegin(c, op) PROVE TimingInv'
  <2>1. timing' = timing /\ cfg' = cfg /\ up' = up /\ req[c].pc = "idle" /\ Begin(c, op)
    BY <1>4, IdleStep DEF BridgeBegin, Begin, memory, cacheOnly
  <2>2. req'[c].pc = "save config" /\ \A d \in Clients : d = c
    BY <1>1, <2>1, BeginsAt DEF OneAdministrator
  <2>3. QED
    BY <2>1, <2>2 DEF TimingInv
<1>5. ASSUME NEW c \in Clients, BridgeSave(c) PROVE TimingInv'
  <2>1. /\ timing' = timing /\ cfg' = cfg /\ up' = up
        /\ req[c].pc \in {"save config", "save secrets"} /\ req[c].pc \in Steps
    BY <1>5 DEF BridgeSave, SaveConfig, SaveSecrets, SaveFails, cacheOnly, memory, Steps
  <2>2. req'[c].pc \in {"save secrets", "reconfigure", "idle"}
    <3>1. CASE SaveConfig(c)
      BY <1>1, <3>1, Wiped
    <3>2. CASE SaveSecrets(c)
      <4>1. req' = [req EXCEPT ![c].pc = "reconfigure"] /\ "reconfigure" \in Steps
        BY <3>2 DEF SaveSecrets, Goto, Steps
      <4>2. QED
        BY <1>1, <2>1, <4>1, MovesOn
    <3>3. CASE SaveFails(c)
      <4>1. req'[c] = Idle
        BY <1>1, <3>3 DEF SaveFails, Finish, TypeOK
      <4>2. QED
        BY <4>1, IdleStep
    <3>4. QED
      BY <1>5, <3>1, <3>2, <3>3 DEF BridgeSave
  <2>3. \A d \in Clients : d = c
    BY DEF OneAdministrator
  <2>4. QED
    BY <2>1, <2>2, <2>3 DEF TimingInv
<1>6. ASSUME NEW c \in Clients, BridgeReconfigure(c) PROVE TimingInv'
  <2>1. /\ timing' = InTicks(req[c].config.settings)
        /\ req[c].pc \in Steps /\ req' = [req EXCEPT ![c].pc = "publish"]
    BY <1>6 DEF BridgeReconfigure, Reconfigure, Goto, C!Reconfigure, Steps
  <2>2. /\ req'[c].pc = "publish" /\ req'[c].config = req[c].config
        /\ \A d \in Clients : d = c
    BY <1>1, <2>1, MovesOn DEF OneAdministrator, Steps
  <2>3. QED
    BY <2>1, <2>2 DEF TimingInv
<1>7. ASSUME NEW c \in Clients, BridgePublish(c) PROVE TimingInv'
  <2>1. /\ timing' = timing /\ cfg' = req[c].config /\ req[c].pc = "publish"
        /\ req[c].pc \in Steps /\ req' = [req EXCEPT ![c].pc = "refresh"]
    BY <1>7 DEF BridgePublish, Publish, Goto, cacheOnly, Steps
  <2>2. req'[c].pc = "refresh" /\ \A d \in Clients : d = c
    BY <1>1, <2>1, MovesOn DEF OneAdministrator, Steps
  <2>3. QED
    BY <2>1, <2>2 DEF TimingInv
<1>8. ASSUME UNCHANGED <<timing, cfg, up, req>> PROVE TimingInv'
  BY <1>8 DEF TimingInv
<1>9. ASSUME NEW c \in Clients, BridgeRefresh(c) \/ AdminRefresh(c) PROVE TimingInv'
  BY <1>8, <1>9 DEF BridgeRefresh, AdminRefresh, C!ApplyRefresh, C!RefreshNow, managerOnly
<1>10. ASSUME NEW c \in Clients, BridgeAnswer(c) PROVE TimingInv'
  <2>1. timing' = timing
    BY <1>10 DEF BridgeAnswer, C!Store
  <2>2. CASE req[c] = Idle
    BY <1>8, <1>10, <2>1, <2>2 DEF BridgeAnswer, managerOnly
  <2>3. CASE req[c] # Idle
    <3>1. /\ cfg' = cfg /\ up' = up /\ req[c].pc = "refresh"
          /\ req' = [req EXCEPT ![c] = Idle]
      BY <1>10, <2>3 DEF BridgeAnswer, Answer, Finish, memory
    <3>2. req'[c].pc = "idle" /\ \A d \in Clients : d = c
      BY <1>1, <3>1, IdleStep DEF OneAdministrator, TypeOK
    <3>3. QED
      BY <2>1, <3>1, <3>2 DEF TimingInv
  <2>4. QED
    BY <2>2, <2>3
<1>11. CASE BridgePoll
  BY <1>8, <1>11 DEF BridgePoll, managerOnly, C!TimerFires, C!Store
<1>12. CASE BridgeTick
  BY <1>8, <1>12 DEF BridgeTick, managerOnly, C!Tick
<1>13. CASE UNCHANGED bridge
  BY <1>8, <1>13 DEF bridge, vars, cacheOnly, memory
<1>14. QED
  BY <1>2, <1>3, <1>4, <1>5, <1>6, <1>7, <1>9, <1>10, <1>11, <1>12, <1>13 DEF BridgeNext

\* No interval is longer than the slowest.
LEMMA SlowestIsLongest == SlowestPoll \in Nat /\ \A t \in PossibleTimings : t.poll <= SlowestPoll
BY BridgeAssumption, TimingType

\* A poller that has just started replaces what it finds.
LEMMA StartsReplaced == P!Init' => P!ReplacedInv(SlowestPoll)'
<1>1. P!Init => P!ReplacedInv(SlowestPoll)
  BY P!InitReplaced, CacheAssumed, SlowestIsLongest
<1>2. QED
  BY <1>1, PTL

\* And goes on doing so until the process dies.
LEMMA NextReplacedInLife ==
  ASSUME BridgeInv, ReplacedInLife, [BridgeNext]_bridge
  PROVE  ReplacedInLife'
<1>1. TypeOK /\ KnownTimings /\ P!TypeOK /\ BridgeInv'
  BY NextBridgeInv DEF BridgeInv
<1>2. CASE BridgeStart
  BY <1>1, <1>2, CacheStarts, StartsReplaced DEF BridgeInv, ReplacedInLife
<1>3. CASE BridgeCrash
  BY <1>3 DEF BridgeCrash, Crash, ReplacedInLife
<1>4. CASE up' = up /\ [P!Next]_(P!vars)
  BY <1>1, <1>4, P!NextReplaced, CacheAssumed, SlowestIsLongest DEF ReplacedInLife
<1>5. QED
  BY <1>1, <1>2, <1>3, <1>4, CacheStep

\* For one administrator at a time, any installation and any intervals, through
\* crashes, failed writes and overlapping refreshes: once no request is in flight
\* and the slowest poll interval and two collections have passed since the last
\* change, displays are shown what the sources, tokens and intervals the manager
\* holds say (Manager.apply, Cache.Reconfigure, Cache.Refresh).
THEOREM Shows ==
  ASSUME ~Mock, OneAdministrator
  PROVE  BridgeSpec => []ShowsConfigured
<1>1. BridgeInit => ShownInv
  <2> SUFFICES ASSUME BridgeInit PROVE ShownInv
    OBVIOUS
  <2>1. BridgeInv /\ TypeOK /\ KnownTimings
    BY InitBridgeInv DEF BridgeInv
  <2>2. CollectorInv
    BY InitCollector DEF BridgeInit
  <2>3. ServedInv
    BY DEF BridgeInit, ServedInv
  <2>4. TimingInv
    <3>1. \A c \in Clients : req[c].pc = "idle"
      BY IdleStep DEF BridgeInit, Init
    <3>2. QED
      BY <3>1 DEF TimingInv, BridgeInit
  <2>5. ReplacedInLife
    BY <2>1, CacheStarts, P!InitReplaced, CacheAssumed, SlowestIsLongest DEF ReplacedInLife
  <2>6. QED
    BY <2>1, <2>2, <2>3, <2>4, <2>5 DEF ShownInv
<1>2. ShownInv /\ [BridgeNext]_bridge => ShownInv'
  BY NextBridgeInv, ManagerStep, NextCollector, NextServedInv, NextTiming, NextReplacedInLife
     DEF ShownInv
<1>3. ShownInv => ShowsConfigured
  <2> SUFFICES ASSUME ShownInv, serving, \A c \in Clients : req[c] = Idle,
                      sinceReconf > SlowestPoll + 2 * MaxCollect
               PROVE  /\ cached.from = BootCollector(Effective(cfg, secrets))
                      /\ timing = InTicks(cfg.settings)
    BY DEF ShowsConfigured
  <2>1. /\ BridgeInv /\ CollectorInv /\ ServedInv /\ TimingInv /\ ReplacedInLife
        /\ P!TypeOK
    BY DEF ShownInv, BridgeInv
  <2>2. up /\ \A c \in Clients : req[c].pc # "publish"
    <3>1. up
      BY <2>1 DEF BridgeInv, HalvesInv
    <3>2. QED
      BY <3>1, IdleStep
  <2>3. timing = InTicks(cfg.settings) /\ collector = BootCollector(Effective(cfg, secrets))
    BY <2>1, <2>2 DEF TimingInv, CollectorInv
  <2>4. cached # P!Nothing
    BY <2>1, SameCache DEF ServedInv
  <2>5. ~P!Behind
    <3>1. /\ SlowestPoll \in Nat /\ MaxCollect \in Nat /\ sinceReconf \in Nat
          /\ P!ReplacedInv(SlowestPoll)
      BY <2>1, <2>2, BridgeAssumption DEF P!TypeOK, ReplacedInLife
    <3>2. P!Behind => sinceReconf <= SlowestPoll + 2 * MaxCollect
      BY <2>1, <3>1, P!ReplacedSoon, CacheAssumed
    <3>3. QED
      BY <3>1, <3>2
  <2>6. cached.from = collector
    BY <2>4, <2>5 DEF P!Behind, P!hasState
  <2>7. QED
    BY <2>3, <2>6
<1>4. QED
  BY <1>1, <1>2, <1>3, PTL DEF BridgeSpec
=============================================================================
