------------------------------- MODULE Cache -------------------------------
(***************************************************************************)
(* The state cache between the collectors and the displays.  main, the     *)
(* poller goroutine and the admin requests all call Refresh, which reads   *)
(* the collector under the lock, collects from Proxmox without it, and     *)
(* stores the outcome under the lock again: refreshes overlap, finish in   *)
(* any order, and may finish after the collector they read was replaced.   *)
(*                                                                         *)
(* Time passes in ticks and only while every goroutine waits, for the      *)
(* network or for its timer: the Go scheduler is prompt at this scale.  A  *)
(* collection takes at most MaxCollect ticks, because each of its requests *)
(* has a client timeout.  Ages are counted up to Horizon.                  *)
(***************************************************************************)
EXTENDS Integers

CONSTANTS
  Collectors,   \* collectors the configuration can be made into
  Unreliable,   \* those of them whose Collect may return an error
  Timings,      \* settings [poll, stale] in ticks
  Requests,     \* admin requests at once
  MaxCollect,   \* longest collection, in ticks
  Horizon       \* ages at or above it are not told apart

Poller == "poller"
Main == "main"

ASSUME CacheAssumption ==
  /\ Requests \cap {Poller, Main} = {}
  /\ Unreliable \subseteq Collectors
  /\ Timings \subseteq [poll : Nat \ {0}, stale : Nat \ {0}]
  /\ MaxCollect \in Nat
  /\ Horizon \in Nat

Actors == Requests \cup {Poller, Main}

VARIABLES
  collector,    \* Cache.collector
  timing,       \* Cache.pollInterval and Cache.staleAfter
  cached,       \* Cache.state: which collector made it, whether it was cut short
  sinceOK,      \* ticks since Cache.lastOK
  dataAge,      \* ticks since the cached state's collection began (GeneratedAt)
  lastErr,      \* Cache.lastErr is not nil
  run,          \* what each goroutine is doing
  interval,     \* the poll interval the poller read for its current cycle
  serving,      \* the HTTP server listens
  sinceReconf   \* history: ticks since the last Reconfigure

vars == <<collector, timing, cached, sinceOK, dataAge, lastErr, run, interval,
          serving, sinceReconf>>

Nothing == [from |-> "nothing"]
hasState == cached # Nothing

Idle == [at |-> "idle"]
Collecting(k) == [at |-> "collect", from |-> k, elapsed |-> 0]
Sleeping(n) == [at |-> "sleep", left |-> n]
Reconfigured == [at |-> "reconfigured"]

\* Cache.State: what a display is told beside the state itself.
Stale == sinceOK > timing.stale

-----------------------------------------------------------------------------
\* Slip: the server listens before the first refresh has ended.
InitServing ==
  /\ collector \in Collectors
  /\ timing \in Timings
  /\ cached = Nothing
  /\ sinceOK = 0
  /\ dataAge = 0
  /\ lastErr = FALSE
  /\ run = [a \in Actors |-> IF a = Main THEN Collecting(collector)
                             ELSE IF a = Poller THEN Sleeping(timing.poll) ELSE Idle]
  /\ interval = timing.poll
  /\ serving = TRUE
  /\ sinceReconf = 0

\* NewCache, Start, and main's first Refresh, which may overlap the poller's.
Init ==
  /\ collector \in Collectors
  /\ timing \in Timings
  /\ cached = Nothing
  /\ sinceOK = 0
  /\ dataAge = 0
  /\ lastErr = FALSE
  /\ run = [a \in Actors |-> IF a = Main THEN Collecting(collector)
                             ELSE IF a = Poller THEN Sleeping(timing.poll) ELSE Idle]
  /\ interval = timing.poll
  /\ serving = FALSE
  /\ sinceReconf = 0

(***************************************************************************)
(* Refresh.                                                                *)
(***************************************************************************)
BeginRefresh(a) == run' = [run EXCEPT ![a] = Collecting(collector)]

\* Slip: the poller sleeps for the freshness window.
AfterRefreshSleepsStale(a) ==
  /\ run' = [run EXCEPT ![a] = IF a = Poller THEN Sleeping(timing.stale) ELSE Idle]
  /\ interval' = IF a = Poller THEN timing.poll ELSE interval
  /\ serving' = (serving \/ a = Main)

\* What a goroutine does when its Refresh has returned.
AfterRefresh(a) ==
  /\ run' = [run EXCEPT ![a] = IF a = Poller THEN Sleeping(timing.poll) ELSE Idle]
  /\ interval' = IF a = Poller THEN timing.poll ELSE interval
  /\ serving' = (serving \/ a = Main)

\* Collect returns a state.  A request whose HTTP client has gone away has its
\* context cancelled: the sources it did not reach are reported as offline, and
\* the result is stored like any other.
Store(a) ==
  /\ run[a].at = "collect"
  /\ \E whole \in IF a \in Requests THEN BOOLEAN ELSE {TRUE} :
       cached' = [from |-> run[a].from, whole |-> whole]
  /\ sinceOK' = 0
  /\ dataAge' = run[a].elapsed
  /\ lastErr' = FALSE
  /\ AfterRefresh(a)
  /\ UNCHANGED <<collector, timing, sinceReconf>>

\* Slip: a failed collection counts as a successful one.
FailResetsAge(a) ==
  /\ run[a].at = "collect"
  /\ run[a].from \in Unreliable
  /\ lastErr' = TRUE
  /\ sinceOK' = 0
  /\ AfterRefresh(a)
  /\ UNCHANGED <<collector, timing, cached, dataAge, sinceReconf>>

\* Collect returns an error: the old state stays, with its times.
Fail(a) ==
  /\ run[a].at = "collect"
  /\ run[a].from \in Unreliable
  /\ lastErr' = TRUE
  /\ AfterRefresh(a)
  /\ UNCHANGED <<collector, timing, cached, sinceOK, dataAge, sinceReconf>>

(***************************************************************************)
(* The poller's timer, the "Refresh" button, and apply's calls.            *)
(***************************************************************************)
\* Slip: a poll is skipped while the cached state is fresh.
TimerFiresWhenStale ==
  /\ run[Poller].at = "sleep"
  /\ run[Poller].left = 0
  /\ IF hasState /\ ~Stale THEN run' = [run EXCEPT ![Poller] = Sleeping(timing.poll)]
                           ELSE BeginRefresh(Poller)
  /\ UNCHANGED <<collector, timing, cached, sinceOK, dataAge, lastErr, interval,
                 serving, sinceReconf>>

TimerFires ==
  /\ run[Poller].at = "sleep"
  /\ run[Poller].left = 0
  /\ BeginRefresh(Poller)
  /\ UNCHANGED <<collector, timing, cached, sinceOK, dataAge, lastErr, interval,
                 serving, sinceReconf>>

RefreshNow(r) ==
  /\ serving
  /\ run[r] = Idle
  /\ BeginRefresh(r)
  /\ UNCHANGED <<collector, timing, cached, sinceOK, dataAge, lastErr, interval,
                 serving, sinceReconf>>

Reconfigure(r, k, t) ==
  /\ serving
  /\ run[r] = Idle
  /\ collector' = k
  /\ timing' = t
  /\ run' = [run EXCEPT ![r] = Reconfigured]
  /\ sinceReconf' = 0
  /\ UNCHANGED <<cached, sinceOK, dataAge, lastErr, interval, serving>>

ApplyRefresh(r) ==
  /\ run[r] = Reconfigured
  /\ BeginRefresh(r)
  /\ UNCHANGED <<collector, timing, cached, sinceOK, dataAge, lastErr, interval,
                 serving, sinceReconf>>

(***************************************************************************)
(* Time.                                                                   *)
(***************************************************************************)
Later(age) == IF age < Horizon THEN age + 1 ELSE Horizon

\* Slip: the Proxmox client has no timeout.
WaitsForEver(a) ==
  \/ run[a].at = "idle"
  \/ run[a].at = "sleep" /\ run[a].left > 0
  \/ run[a].at = "collect"

\* Nothing to do but wait.
Waits(a) ==
  \/ run[a].at = "idle"
  \/ run[a].at = "sleep" /\ run[a].left > 0
  \/ run[a].at = "collect" /\ run[a].elapsed < MaxCollect

Tick ==
  /\ \A a \in Actors : Waits(a)
  /\ run' = [a \in Actors |->
               IF run[a].at = "sleep" THEN [run[a] EXCEPT !.left = @ - 1]
               ELSE IF run[a].at = "collect" THEN [run[a] EXCEPT !.elapsed = @ + 1]
               ELSE run[a]]
  /\ sinceOK' = Later(sinceOK)
  /\ dataAge' = Later(dataAge)
  /\ sinceReconf' = Later(sinceReconf)
  /\ UNCHANGED <<collector, timing, cached, lastErr, interval, serving>>

-----------------------------------------------------------------------------
Next ==
  \/ \E a \in Actors : Store(a)
  \/ \E a \in Actors : Fail(a)
  \/ TimerFires
  \/ \E r \in Requests : RefreshNow(r)
  \/ \E r \in Requests, k \in Collectors, t \in Timings : Reconfigure(r, k, t)
  \/ \E r \in Requests : ApplyRefresh(r)
  \/ Tick

Spec == Init /\ [][Next]_vars

-----------------------------------------------------------------------------
(***************************************************************************)
(* Properties.                                                             *)
(***************************************************************************)
CachedState == [from : Collectors, whole : BOOLEAN]

Goroutine ==
  {Idle, Reconfigured} \cup [at : {"sleep"}, left : Nat]
    \cup [at : {"collect"}, from : Collectors, elapsed : 0..MaxCollect]

\* Every variable holds what its Go counterpart may hold.
TypeOK ==
  /\ collector \in Collectors
  /\ timing \in Timings
  /\ cached \in CachedState \cup {Nothing}
  /\ sinceOK \in Nat
  /\ dataAge \in Nat
  /\ lastErr \in BOOLEAN
  /\ run \in [Actors -> Goroutine]
  /\ interval \in Nat
  /\ serving \in BOOLEAN
  /\ sinceReconf \in Nat

\* What is served without the stale mark was gathered no longer ago than the
\* freshness window and one collection together, in whatever order overlapping
\* refreshes end: the window is counted from the end of a collection.
FreshEnough == hasState /\ ~Stale => dataAge <= timing.stale + MaxCollect

\* While refreshes succeed, the cached state is replaced within one poll
\* interval, the one the poller is sleeping through, and one collection.
\* A shorter interval set by an administrator counts from the next cycle.
PollingKeepsFresh ==
  hasState /\ ~lastErr => sinceOK <= interval + MaxCollect

LongestPoll == CHOOSE p \in {t.poll : t \in Timings} : \A t \in Timings : t.poll <= p

\* After the sources change, a late answer of the old collector may be stored
\* over the new one's, and a deleted source comes back; not for longer than a
\* poll interval and two collections.
OldCollectorGone ==
  hasState /\ cached.from # collector /\ collector \notin Unreliable
    => sinceReconf <= LongestPoll + 2 * MaxCollect

\* A display that reaches the bridge gets a state, or learns of an error that
\* did happen: "no state collected yet" is never the answer.
ServedOrFailed == serving => hasState \/ lastErr
=============================================================================
