------------------------------- MODULE Bridge -------------------------------
(***************************************************************************)
(* The running bridge: the manager of Manager and the cache of Cache in    *)
(* one process, and the answers its HTTP server gives to a display.        *)
(*                                                                         *)
(* The two meet in the cache's collector, which the manager's apply        *)
(* replaces, and in the goroutine of a request, which is first the         *)
(* manager's, then the cache's while it refreshes, then the manager's      *)
(* again.  A step of this module is a step of one of them while the other  *)
(* stands still, or a step both take together.  The process dies with      *)
(* everything the cache holds.                                             *)
(*                                                                         *)
(* No collector of this repository returns an error from Collect: what     *)
(* goes wrong with a source is part of the state it returns.               *)
(***************************************************************************)
EXTENDS Manager

CONSTANTS
  TickSeconds,  \* length of a tick of the cache
  MaxCollect,   \* longest collection, in ticks
  SlowestPoll,  \* longest poll interval, in ticks
  Horizon,      \* ages at or above it are not told apart
  EnvAdmin      \* whether the admin token is given by the environment

VARIABLES
  timing, cached, sinceOK, dataAge, lastErr, run, interval, serving, sinceReconf

cacheOnly == <<timing, cached, sinceOK, dataAge, lastErr, run, interval, serving, sinceReconf>>
managerOnly == <<up, cfg, secrets, disk, req, told>>
bridge == <<vars, cacheOnly>>

InTicks(s) == [poll |-> s.poll \div TickSeconds, stale |-> s.stale \div TickSeconds]

PossibleTimings ==
  {InTicks(Load(i.config, i.secrets).settings) : i \in Installed}
    \cup {InTicks(op.in.settings) :
            op \in {o \in Operations : o.kind = "settings" /\ UpdateServerOK(o.in)}}

AnyCollector ==
  {SetupCollector, [kind |-> "mock"]}
    \cup [kind : {"proxmox"}, sources : UNION {[D -> Source] : D \in SUBSET Ids},
          settings : Settings]

C == INSTANCE Cache WITH
       Collectors <- AnyCollector, Unreliable <- {}, Timings <- PossibleTimings,
       Requests <- Clients

\* A poll interval is at least a tick, and some interval is the slowest.
ASSUME BridgeAssumption ==
  /\ TickSeconds \in Nat \ {0} /\ {MaxCollect, SlowestPoll, Horizon} \subseteq Nat
  /\ \A t \in PossibleTimings : t.poll \in 1 .. SlowestPoll /\ t.stale \in Nat \ {0}
  /\ Clients \cap {C!Poller, C!Main} = {}

-----------------------------------------------------------------------------
(***************************************************************************)
(* main: a cache for the collector of the loaded configuration, its        *)
(* poller, the first refresh.                                              *)
(***************************************************************************)
FirstRun(k, t) ==
  [a \in C!Actors |-> IF a = C!Main THEN C!Collecting(k)
                      ELSE IF a = C!Poller THEN C!Sleeping(t.poll) ELSE C!Idle]

BridgeInit ==
  /\ Init
  /\ timing = InTicks(cfg.settings)
  /\ cached = C!Nothing
  /\ sinceOK = 0
  /\ dataAge = 0
  /\ lastErr = FALSE
  /\ run = FirstRun(collector, timing)
  /\ interval = timing.poll
  /\ serving = FALSE
  /\ sinceReconf = 0

\* Slip: the server listens before the first refresh.
BridgeStartServing ==
  /\ Start
  /\ timing' = InTicks(cfg'.settings)
  /\ cached' = C!Nothing
  /\ sinceOK' = 0
  /\ dataAge' = 0
  /\ lastErr' = FALSE
  /\ run' = FirstRun(collector', timing')
  /\ interval' = timing'.poll
  /\ serving' = TRUE
  /\ sinceReconf' = 0

BridgeStart ==
  /\ Start
  /\ timing' = InTicks(cfg'.settings)
  /\ cached' = C!Nothing
  /\ sinceOK' = 0
  /\ dataAge' = 0
  /\ lastErr' = FALSE
  /\ run' = FirstRun(collector', timing')
  /\ interval' = timing'.poll
  /\ serving' = FALSE
  /\ sinceReconf' = 0

(***************************************************************************)
(* The process dies; a display reaches nobody.                             *)
(***************************************************************************)
BridgeCrash ==
  /\ Crash
  /\ run' = [a \in C!Actors |-> C!Idle]
  /\ serving' = FALSE
  /\ UNCHANGED <<timing, cached, sinceOK, dataAge, lastErr, interval, sinceReconf>>

-----------------------------------------------------------------------------
(***************************************************************************)
(* The admin requests.                                                     *)
(***************************************************************************)
\* A request reaches its handler, and its goroutine has nothing else to do.
BridgeBegin(c, op) ==
  /\ serving
  /\ run[c] = C!Idle
  /\ Begin(c, op)
  /\ UNCHANGED cacheOnly

\* apply before the cache is told, and the end of a request that fails there.
BridgeSave(c) ==
  /\ SaveConfig(c) \/ SaveSecrets(c) \/ SaveFails(c)
  /\ UNCHANGED cacheOnly

\* Slip: apply hands over the collector only, and the intervals stay.
BridgeReconfigureCollector(c) ==
  /\ Reconfigure(c)
  /\ C!Reconfigure(c, collector', timing)

\* Slip: the two durations are handed over in the other order.
BridgeReconfigureSwapped(c) ==
  /\ Reconfigure(c)
  /\ LET t == InTicks(req[c].config.settings)
     IN  C!Reconfigure(c, collector', [poll |-> t.stale, stale |-> t.poll])

BridgeReconfigure(c) ==
  /\ Reconfigure(c)
  /\ C!Reconfigure(c, collector', InTicks(req[c].config.settings))

BridgePublish(c) ==
  /\ Publish(c)
  /\ UNCHANGED cacheOnly

\* The refresh apply ends with.
BridgeRefresh(c) ==
  /\ req[c].pc = "refresh"
  /\ C!ApplyRefresh(c)
  /\ UNCHANGED managerOnly

\* Refresh has stored its state and the request is answered.
BridgeAnswer(c) ==
  /\ C!Store(c)
  /\ IF req[c] = Idle THEN UNCHANGED managerOnly ELSE Answer(c)

\* The "Refresh" button of the admin page.
AdminRefresh(c) ==
  /\ req[c] = Idle
  /\ C!RefreshNow(c)
  /\ UNCHANGED managerOnly

-----------------------------------------------------------------------------
(***************************************************************************)
(* The poller, the first refresh, and time.                                *)
(***************************************************************************)
\* Slip: the poller ends with the first refresh it finishes.
BridgePollOnce ==
  /\ up
  /\ \/ C!TimerFires
     \/ C!Store(C!Main)
     \/ C!Store(C!Poller) /\ run' = [run EXCEPT ![C!Poller] = C!Idle]
  /\ UNCHANGED managerOnly

BridgePoll ==
  /\ up
  /\ C!TimerFires \/ C!Store(C!Poller) \/ C!Store(C!Main)
  /\ UNCHANGED managerOnly

BridgeTick ==
  /\ up
  /\ C!Tick
  /\ UNCHANGED managerOnly

BridgeNext ==
  \/ BridgeStart
  \/ BridgeCrash
  \/ \E c \in Clients, op \in Operations : BridgeBegin(c, op)
  \/ \E c \in Clients : BridgeSave(c)
  \/ \E c \in Clients : BridgeReconfigure(c)
  \/ \E c \in Clients : BridgePublish(c)
  \/ \E c \in Clients : BridgeRefresh(c)
  \/ \E c \in Clients : BridgeAnswer(c)
  \/ \E c \in Clients : AdminRefresh(c)
  \/ BridgePoll
  \/ BridgeTick

BridgeSpec == BridgeInit /\ [][BridgeNext]_bridge

\* A goroutine that can run does run, a collection ends by its timeouts, time
\* passes.  Nothing is assumed of administrators, crashes and restarts.
BridgeFairSpec ==
  /\ BridgeSpec
  /\ SF_bridge(BridgeTick)
  /\ WF_bridge(BridgePoll)
  /\ \A c \in Clients :
       WF_bridge(BridgeSave(c) \/ BridgeReconfigure(c) \/ BridgePublish(c)
                   \/ BridgeRefresh(c) \/ BridgeAnswer(c))

-----------------------------------------------------------------------------
(***************************************************************************)
(* The HTTP server, as a display and an administrator see it.              *)
(***************************************************************************)
\* DisplayToken: the saved one, or the one of the environment.
DisplayToken(value) == IF value = Blank /\ EnvDisplay THEN "environment" ELSE value

\* AdminToken: the display token opens the admin pages where there is no other.
AdminToken(admin, display) ==
  IF admin # Blank THEN admin
  ELSE IF EnvAdmin THEN "environment"
  ELSE DisplayToken(display)

\* adminAuth: without any token the pages are open, which is how they are set up.
AdminAuth(token) ==
  LET want == AdminToken(cfg.admin, cfg.display)
  IN  want = Blank \/ token = want

\* auth: only -mock serves displays without a token.
Auth(token) ==
  LET want == DisplayToken(cfg.display)
  IN  \/ Mock /\ want = Blank
      \/ token # Blank /\ token = want

\* displayState and detailState.
DisplayState(token) ==
  IF ~serving THEN "unreachable"
  ELSE IF ~Auth(token) THEN "unauthorized"
  ELSE IF ~C!hasState THEN "unavailable"
  ELSE "state"

-----------------------------------------------------------------------------
(***************************************************************************)
(* Properties.                                                             *)
(***************************************************************************)
\* Both halves hold what their Go counterparts may hold, and a goroutine is in
\* the cache when the manager's half says it is.
BridgeTypeOK ==
  /\ TypeOK
  /\ cached = C!Nothing \/ cached.from \in AnyCollector
  /\ timing \in PossibleTimings
  /\ serving => up
  /\ \A c \in Clients :
       /\ run[c] = C!Reconfigured => req[c].pc \in {"publish", "refresh"}
       /\ req[c].pc = "refresh" => run[c].at \in {"reconfigured", "collect"}

(***************************************************************************)
(* One administrator at a time: the tokens the last answer about the       *)
(* settings promised open the bridge from the first moment the server      *)
(* listens, after any restart and while any other request is going on.     *)
(* A display that holds its token gets a state and is never told that      *)
(* nothing was collected yet; an administrator gets the pages.             *)
(***************************************************************************)
PromisedTokensServed ==
  serving /\ told["settings"] # NoPromise
    => LET token == DisplayToken(told["settings"].display)
           admin == AdminToken(told["settings"].admin, told["settings"].display)
       IN  /\ token # Blank => DisplayState(token) = "state"
           /\ AdminAuth(admin)

(***************************************************************************)
(* One administrator at a time: once no request is in flight and a poll    *)
(* interval and two collections have passed since the last one changed the *)
(* sources, what displays are shown comes from the sources, tokens and     *)
(* thresholds the manager holds: a deleted source is gone, although late   *)
(* refreshes of the old collector may have brought it back.  Collections   *)
(* cut short by a browser that went away are the same collector's.         *)
(***************************************************************************)
ShowsConfigured ==
  /\ serving
  /\ \A c \in Clients : req[c] = Idle
  /\ sinceReconf > SlowestPoll + 2 * MaxCollect
  => /\ cached.from = BootCollector(Effective(cfg, secrets))
     /\ timing = InTicks(cfg.settings)

(***************************************************************************)
(* What is configured is shown again and again by a collection nobody cut  *)
(* short, unless administrators never stop to change it or the process to  *)
(* die.                                                                    *)
(***************************************************************************)
ConfiguredShown ==
  []<>(\/ ~up
       \/ \E c \in Clients : req[c] # Idle
       \/ cached = [from |-> BootCollector(Effective(cfg, secrets)), whole |-> TRUE])
=============================================================================
