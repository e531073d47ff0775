----------------------------- MODULE CacheProofs ----------------------------
(***************************************************************************)
(* For any collectors, timings and number of requests: the cache's type,   *)
(* how old unmarked data can be, that no display is left without an        *)
(* answer, how long the poller leaves a state in place, and how long what  *)
(* a replaced collector gathered can stay.                                 *)
(***************************************************************************)
EXTENDS Cache, TLAPS

USE CacheAssumption

\* What a goroutine can be doing.
LEMMA GoroutineForms ==
  /\ Idle \in Goroutine
  /\ Reconfigured \in Goroutine
  /\ \A n \in Nat : Sleeping(n) \in Goroutine
  /\ \A k \in Collectors : Collecting(k) \in Goroutine
  BY DEF Idle, Reconfigured, Sleeping, Collecting, Goroutine

\* What a goroutine at a given point carries.
LEMMA GoroutineFields ==
  ASSUME NEW g \in Goroutine
  PROVE  /\ g.at = "collect" => /\ g \in [at : {"collect"}, from : Collectors, elapsed : 0..MaxCollect]
                                /\ g.from \in Collectors
                                /\ g.elapsed \in 0..MaxCollect
         /\ g.at = "sleep" => g \in [at : {"sleep"}, left : Nat] /\ g.left \in Nat
  BY DEF Goroutine, Idle, Reconfigured

\* An age one tick later.
LEMMA LaterAge ==
  ASSUME NEW age \in Nat
  PROVE  /\ Later(age) \in Nat
         /\ \A other \in Nat, d \in Nat : age <= other + d => Later(age) <= Later(other) + d
  BY DEF Later

\* NewCache, main and Start produce well-typed state.
LEMMA InitType == Init => TypeOK
  <1> SUFFICES ASSUME Init PROVE TypeOK
      OBVIOUS
  <1>1. timing.poll \in Nat /\ timing \in Timings
    BY DEF Init
  <1>2. run \in [Actors -> Goroutine]
    BY <1>1, GoroutineForms DEF Init
  <1> QED
    BY <1>1, <1>2 DEF Init, TypeOK

-----------------------------------------------------------------------------
\* What AfterRefresh leaves behind: the poller sleeps, any other goroutine is idle.
LEMMA AfterRefreshType ==
  ASSUME TypeOK, NEW a \in Actors, AfterRefresh(a)
  PROVE  /\ run' \in [Actors -> Goroutine]
         /\ interval' \in Nat
         /\ serving' \in BOOLEAN
         /\ serving => serving'
         /\ \A b \in Actors : run'[b].at = "collect" => run'[b] = run[b]
  <1>1. timing.poll \in Nat
    BY DEF TypeOK
  <1>2. run' = [run EXCEPT ![a] = IF a = Poller THEN Sleeping(timing.poll) ELSE Idle]
        /\ interval' = (IF a = Poller THEN timing.poll ELSE interval)
        /\ serving' = (serving \/ a = Main)
    BY DEF AfterRefresh
  <1>3. run' \in [Actors -> Goroutine]
    BY <1>1, <1>2, GoroutineForms DEF TypeOK
  <1>4. (IF a = Poller THEN Sleeping(timing.poll) ELSE Idle).at # "collect"
    BY DEF Sleeping, Idle
  <1>5. \A b \in Actors : run'[b].at = "collect" => run'[b] = run[b]
    BY <1>2, <1>4 DEF TypeOK
  <1> QED
    BY <1>1, <1>2, <1>3, <1>5 DEF TypeOK

\* A goroutine that begins to collect does so with the configured collector.
LEMMA BeginRefreshType ==
  ASSUME TypeOK, NEW a \in Actors, BeginRefresh(a)
  PROVE  /\ run' \in [Actors -> Goroutine]
         /\ \A b \in Actors : run'[b].at = "collect" /\ run'[b] # run[b] => run'[b].elapsed = 0
  <1>1. Collecting(collector) \in Goroutine /\ Collecting(collector).elapsed = 0
    BY GoroutineForms DEF TypeOK, Collecting
  <1> QED
    BY <1>1 DEF TypeOK, BeginRefresh

\* A tick changes only how long goroutines have waited.
LEMMA TickType ==
  ASSUME TypeOK, Tick
  PROVE  run' \in [Actors -> Goroutine]
  <1> SUFFICES ASSUME NEW a \in Actors
               PROVE  (IF run[a].at = "sleep" THEN [run[a] EXCEPT !.left = @ - 1]
                       ELSE IF run[a].at = "collect" THEN [run[a] EXCEPT !.elapsed = @ + 1]
                       ELSE run[a]) \in Goroutine
    BY DEF Tick
  <1>1. run[a] \in Goroutine /\ Waits(a)
    BY DEF TypeOK, Tick
  <1>2. CASE run[a].at = "sleep"
    <2>1. run[a] \in [at : {"sleep"}, left : Nat] /\ run[a].left > 0
      BY <1>1, <1>2, GoroutineFields DEF Waits
    <2> QED
      BY <1>2, <2>1 DEF Goroutine
  <1>3. CASE run[a].at = "collect"
    <2>1. /\ run[a] \in [at : {"collect"}, from : Collectors, elapsed : 0..MaxCollect]
          /\ run[a].elapsed < MaxCollect
      BY <1>1, <1>3, GoroutineFields DEF Waits
    <2> QED
      BY <1>3, <2>1 DEF Goroutine
  <1> QED
    BY <1>1, <1>2, <1>3

\* Every step keeps the types: one case per action.
LEMMA NextType == TypeOK /\ [Next]_vars => TypeOK'
  <1> SUFFICES ASSUME TypeOK, [Next]_vars PROVE TypeOK'
      OBVIOUS
  <1>1. ASSUME NEW a \in Actors, Store(a) PROVE TypeOK'
    <2>1. run[a].from \in Collectors /\ run[a].elapsed \in Nat
      BY <1>1, GoroutineFields DEF TypeOK, Store
    <2>2. PICK w \in BOOLEAN : cached' = [from |-> run[a].from, whole |-> w]
      BY <1>1 DEF Store
    <2>3. cached' \in CachedState
      BY <2>1, <2>2 DEF CachedState
    <2> QED
      BY <1>1, <2>1, <2>3, AfterRefreshType DEF TypeOK, Store
  <1>2. ASSUME NEW a \in Actors, Fail(a) PROVE TypeOK'
    BY <1>2, AfterRefreshType DEF TypeOK, Fail
  <1>3. CASE TimerFires
    BY <1>3, BeginRefreshType DEF TypeOK, TimerFires, Actors
  <1>4. ASSUME NEW r \in Requests, RefreshNow(r) PROVE TypeOK'
    BY <1>4, BeginRefreshType DEF TypeOK, RefreshNow, Actors
  <1>5. ASSUME NEW r \in Requests, NEW k \in Collectors, NEW t \in Timings,
               Reconfigure(r, k, t)
        PROVE  TypeOK'
    BY <1>5, GoroutineForms DEF TypeOK, Reconfigure, Actors
  <1>6. ASSUME NEW r \in Requests, ApplyRefresh(r) PROVE TypeOK'
    BY <1>6, BeginRefreshType DEF TypeOK, ApplyRefresh, Actors
  <1>7. CASE Tick
    BY <1>7, TickType, LaterAge DEF TypeOK, Tick
  <1>8. CASE UNCHANGED vars
    BY <1>8 DEF TypeOK, vars
  <1> QED
    BY <1>1, <1>2, <1>3, <1>4, <1>5, <1>6, <1>7, <1>8 DEF Next

\* Whatever refreshes, reconfigurations and failures interleave, the cache and
\* its goroutines stay well-formed, and no collection outlasts its timeouts.
THEOREM TypeCorrect == Spec => []TypeOK
  BY InitType, NextType, PTL DEF Spec

-----------------------------------------------------------------------------
(***************************************************************************)
(* FreshEnough is not inductive: it says nothing of data that is marked    *)
(* stale, whose window an administrator may widen.  What is kept by every  *)
(* step is that the data is never older than its storing by more than one  *)
(* collection.                                                             *)
(***************************************************************************)
AgeInv == TypeOK /\ dataAge <= sinceOK + MaxCollect

\* Storing sets both ages; only time changes them otherwise.
LEMMA NextAge == AgeInv /\ [Next]_vars => AgeInv'
  <1> SUFFICES ASSUME AgeInv, [Next]_vars PROVE AgeInv'
      OBVIOUS
  <1>1. TypeOK /\ TypeOK' /\ dataAge <= sinceOK + MaxCollect
    BY NextType DEF AgeInv
  <1>2. ASSUME NEW a \in Actors, Store(a) PROVE AgeInv'
    <2>1. run[a].elapsed \in 0..MaxCollect
      BY <1>1, <1>2, GoroutineFields DEF TypeOK, Store
    <2> QED
      BY <1>1, <1>2, <2>1 DEF AgeInv, Store
  <1>3. CASE Tick
    BY <1>1, <1>3, LaterAge DEF AgeInv, Tick, TypeOK
  <1>4. CASE UNCHANGED <<sinceOK, dataAge>>
    BY <1>1, <1>4 DEF AgeInv
  <1> QED
    BY <1>2, <1>3, <1>4
       DEF Next, Fail, TimerFires, RefreshNow, Reconfigure, ApplyRefresh, vars

\* For any timings and any number of overlapping refreshes: what is served
\* without the stale mark was gathered no longer ago than the freshness window
\* and one collection together (Cache.Refresh, Cache.State).
THEOREM Fresh == Spec => []FreshEnough
  <1>1. Init => AgeInv
    BY InitType DEF AgeInv, Init
  <1>2. AgeInv => FreshEnough
    BY DEF AgeInv, TypeOK, FreshEnough, Stale
  <1> QED
    BY <1>1, NextAge, <1>2, PTL DEF Spec

-----------------------------------------------------------------------------
\* An error stays recorded until a collection stores a state, and a state is
\* never taken back.
LEMMA NextServed == TypeOK /\ ServedOrFailed /\ [Next]_vars => ServedOrFailed'
  <1> SUFFICES ASSUME TypeOK, ServedOrFailed, [Next]_vars PROVE ServedOrFailed'
      OBVIOUS
  <1>1. ASSUME NEW a \in Actors, Store(a) PROVE ServedOrFailed'
    <2>1. PICK w \in BOOLEAN : cached' = [from |-> run[a].from, whole |-> w]
      BY <1>1 DEF Store
    <2>2. cached' # Nothing
      BY <2>1 DEF Nothing
    <2> QED
      BY <2>2 DEF ServedOrFailed, hasState
  <1>2. ASSUME NEW a \in Actors, Fail(a) PROVE ServedOrFailed'
    BY <1>2 DEF Fail, ServedOrFailed
  <1>3. CASE UNCHANGED <<cached, lastErr, serving>>
    BY <1>3 DEF ServedOrFailed, hasState
  <1> QED
    BY <1>1, <1>2, <1>3
       DEF Next, TimerFires, RefreshNow, Reconfigure, ApplyRefresh, Tick, vars

\* For any configuration: a display that reaches the bridge gets a state or
\* learns of an error that happened (main, Cache.State).
THEOREM AlwaysAnswered == Spec => []ServedOrFailed
  <1>1. Init => ServedOrFailed
    BY DEF Init, ServedOrFailed
  <1> QED
    BY <1>1, TypeCorrect, NextServed, PTL DEF Spec

-----------------------------------------------------------------------------
(***************************************************************************)
(* The poller alone bounds how long a state stays.  Each step keeps what   *)
(* is left of its sleep within the interval it read, and the age of the    *)
(* state within the part of that sleep, and of the collection after it,    *)
(* that is over.  Another goroutine's store only makes the state younger.  *)
(***************************************************************************)
PollInv ==
  LET p == run[Poller]
  IN  /\ p.at \in {"sleep", "collect"}
      /\ p.at = "sleep" => p.left <= interval
      /\ hasState /\ ~lastErr =>
           /\ p.at = "sleep" => sinceOK + p.left <= interval
           /\ p.at = "collect" => sinceOK <= interval + p.elapsed

\* What the poller carries, and the two ways out of a collection.
LEMMA PollerForms ==
  ASSUME TypeOK, PollInv
  PROVE  /\ Poller \in Actors /\ Poller \notin Requests /\ Main # Poller
         /\ run[Poller].at = "sleep" => run[Poller].left \in Nat
         /\ run[Poller].at = "collect" => run[Poller].elapsed \in 0..MaxCollect
         /\ timing.poll \in Nat /\ interval \in Nat /\ sinceOK \in Nat
  BY GoroutineFields DEF TypeOK, PollInv, Actors, Poller, Main

\* One case per action; the poller's own are TimerFires, Store and Fail.
LEMMA NextPoll == TypeOK /\ PollInv /\ [Next]_vars => PollInv'
  <1> SUFFICES ASSUME TypeOK, PollInv, [Next]_vars PROVE PollInv'
      OBVIOUS
  <1>1. ASSUME NEW a \in Actors, AfterRefresh(a)
        PROVE  IF a = Poller
               THEN run'[Poller].at = "sleep" /\ run'[Poller].left = timing.poll
                    /\ interval' = timing.poll
               ELSE run'[Poller] = run[Poller] /\ interval' = interval
    BY <1>1, PollerForms DEF AfterRefresh, Sleeping, TypeOK
  <1>2. ASSUME NEW a \in Actors, Store(a) PROVE PollInv'
    <2>1. sinceOK' = 0 /\ AfterRefresh(a)
      BY <1>2 DEF Store
    <2> QED
      BY <1>1, <2>1, PollerForms DEF PollInv
  <1>3. ASSUME NEW a \in Actors, Fail(a) PROVE PollInv'
    <2>1. lastErr' /\ AfterRefresh(a)
      BY <1>3 DEF Fail
    <2> QED
      BY <1>1, <2>1, PollerForms DEF PollInv
  <1>4. CASE TimerFires
    <2>1. /\ run'[Poller].at = "collect" /\ run'[Poller].elapsed = 0
          /\ run[Poller].at = "sleep" /\ run[Poller].left = 0
      BY <1>4, PollerForms DEF TimerFires, BeginRefresh, Collecting, TypeOK
    <2> QED
      BY <1>4, <2>1, PollerForms DEF TimerFires, PollInv, hasState
  <1>5. CASE Tick
    <2>1. Waits(Poller) /\ sinceOK' <= sinceOK + 1
      BY <1>5, PollerForms DEF Tick, Later
    <2>2. CASE run[Poller].at = "sleep"
      <3>1. run'[Poller].at = "sleep" /\ run'[Poller].left = run[Poller].left - 1
        BY <1>5, <2>2, PollerForms, GoroutineFields DEF Tick, TypeOK
      <3> QED
        BY <1>5, <2>1, <2>2, <3>1, PollerForms, LaterAge DEF PollInv, Tick, hasState
    <2>3. CASE run[Poller].at = "collect"
      <3>1. run'[Poller].at = "collect" /\ run'[Poller].elapsed = run[Poller].elapsed + 1
        BY <1>5, <2>3, PollerForms, GoroutineFields DEF Tick, TypeOK
      <3> QED
        BY <1>5, <2>1, <2>3, <3>1, PollerForms, LaterAge DEF PollInv, Tick, hasState
    <2> QED
      BY <2>2, <2>3 DEF PollInv
  <1>6. ASSUME run'[Poller] = run[Poller],
               UNCHANGED <<cached, sinceOK, lastErr, interval>>
        PROVE  PollInv'
    BY <1>6 DEF PollInv, hasState
  <1>7. ASSUME NEW r \in Requests,
               \/ RefreshNow(r) \/ ApplyRefresh(r)
               \/ \E k \in Collectors, t \in Timings : Reconfigure(r, k, t)
        PROVE  PollInv'
    BY <1>6, <1>7, PollerForms
       DEF RefreshNow, ApplyRefresh, Reconfigure, BeginRefresh, TypeOK
  <1> QED
    BY <1>2, <1>3, <1>4, <1>5, <1>6, <1>7 DEF Next, vars

\* For any timings and any number of overlapping refreshes: while refreshes
\* succeed, a state is replaced within the interval the poller sleeps through
\* and one collection (Cache.Start, Cache.Refresh).
THEOREM Polled == Spec => []PollingKeepsFresh
  <1>1. Init => PollInv
    <2> SUFFICES ASSUME Init PROVE PollInv
        OBVIOUS
    <2>1. run[Poller] = Sleeping(timing.poll) /\ interval = timing.poll /\ timing.poll \in Nat
      BY DEF Init, Actors, Poller, Main
    <2> QED
      BY <2>1 DEF Init, PollInv, Sleeping, hasState
  <1>2. TypeOK /\ PollInv => PollingKeepsFresh
    BY PollerForms DEF PollInv, PollingKeepsFresh
  <1> QED
    BY <1>1, <1>2, TypeCorrect, NextPoll, PTL DEF Spec

-----------------------------------------------------------------------------
(***************************************************************************)
(* A replaced collector.  A collection that reads it began before the      *)
(* change, so its result comes within MaxCollect; the poller may sleep     *)
(* through its longest interval after that and then collects anew.         *)
(***************************************************************************)
Behind == hasState /\ cached.from # collector /\ collector \notin Unreliable

ReplacedInv(longest) ==
  /\ run[Poller].at \in {"sleep", "collect"}
  /\ run[Poller].at = "sleep" => run[Poller].left <= longest
  /\ \A a \in Actors : run[a].at = "collect" /\ run[a].from # collector
                         => sinceReconf <= run[a].elapsed
  /\ Behind =>
       /\ run[Poller].at = "sleep"
            => sinceReconf + run[Poller].left <= longest + MaxCollect
       /\ run[Poller].at = "collect"
            => sinceReconf <= longest + MaxCollect + run[Poller].elapsed

\* One case per action, as for PollInv.
LEMMA NextReplaced ==
  ASSUME NEW longest \in Nat, \A t \in Timings : t.poll <= longest
  PROVE  TypeOK /\ ReplacedInv(longest) /\ [Next]_vars => ReplacedInv(longest)'
  <1> SUFFICES ASSUME TypeOK, ReplacedInv(longest), [Next]_vars PROVE ReplacedInv(longest)'
      OBVIOUS
  <1>1. /\ Poller \in Actors /\ Poller \notin Requests /\ Main # Poller
        /\ run[Poller].at = "sleep" => run[Poller].left \in Nat
        /\ \A a \in Actors : run[a].at = "collect" => /\ run[a].from \in Collectors
                                                      /\ run[a].elapsed \in 0..MaxCollect
        /\ timing.poll \in Nat /\ timing.poll <= longest /\ longest \in Nat
        /\ sinceReconf \in Nat /\ MaxCollect \in Nat
    BY GoroutineFields DEF TypeOK, Actors, Poller, Main, ReplacedInv
  <1>2. ASSUME NEW a \in Actors, AfterRefresh(a)
        PROVE  /\ \A b \in Actors : run'[b].at = "collect" => run'[b] = run[b]
               /\ IF a = Poller
                  THEN run'[Poller].at = "sleep" /\ run'[Poller].left = timing.poll
                  ELSE run'[Poller] = run[Poller]
    BY <1>1, <1>2, AfterRefreshType DEF AfterRefresh, Sleeping, TypeOK
  <1>3. ASSUME NEW a \in Actors, Store(a) PROVE ReplacedInv(longest)'
    <2>1. /\ run[a].at = "collect" /\ AfterRefresh(a) /\ cached'.from = run[a].from
          /\ UNCHANGED <<collector, sinceReconf>>
      BY <1>3 DEF Store
    <2>2. Behind' => sinceReconf <= run[a].elapsed
      BY <2>1 DEF Behind, ReplacedInv
    <2>3. Behind' => sinceReconf <= MaxCollect
      BY <1>1, <2>1, <2>2
    <2> QED
      BY <1>1, <1>2, <2>1, <2>3 DEF ReplacedInv
  <1>4. ASSUME NEW a \in Actors, Fail(a) PROVE ReplacedInv(longest)'
    <2>1. /\ run[a].at = "collect" /\ AfterRefresh(a) /\ run[a].from \in Unreliable
          /\ UNCHANGED <<collector, sinceReconf, cached>>
      BY <1>4 DEF Fail
    <2>2. Behind' => Behind /\ sinceReconf <= run[a].elapsed
      BY <2>1 DEF Behind, ReplacedInv, hasState
    <2>3. Behind' => Behind /\ sinceReconf <= MaxCollect
      BY <1>1, <2>1, <2>2
    <2> QED
      BY <1>1, <1>2, <2>1, <2>3 DEF ReplacedInv
  <1>5. ASSUME NEW a \in Actors, BeginRefresh(a), run[a].at # "collect",
               a = Poller => run[a].at = "sleep" /\ run[a].left = 0,
               UNCHANGED <<collector, sinceReconf, cached>>
        PROVE  ReplacedInv(longest)'
    <2>1. run' = [run EXCEPT ![a] = Collecting(collector)]
      BY <1>5 DEF BeginRefresh
    <2>2. \A b \in Actors : b # a => run'[b] = run[b]
      BY <2>1 DEF TypeOK
    <2>3. /\ run'[a].at = "collect" /\ run'[a].from = collector /\ run'[a].elapsed = 0
      BY <2>1 DEF TypeOK, Collecting
    <2>4. Behind' <=> Behind
      BY <1>5 DEF Behind, hasState
    <2> QED
      BY <1>1, <1>5, <2>2, <2>3, <2>4 DEF ReplacedInv
  <1>6. CASE TimerFires
    BY <1>1, <1>5, <1>6 DEF TimerFires
  <1>7. ASSUME NEW r \in Requests, RefreshNow(r) \/ ApplyRefresh(r) PROVE ReplacedInv(longest)'
    BY <1>1, <1>5, <1>7 DEF RefreshNow, ApplyRefresh, Actors, Idle, Reconfigured
  <1>8. ASSUME NEW r \in Requests, NEW k \in Collectors, NEW t \in Timings,
               Reconfigure(r, k, t)
        PROVE  ReplacedInv(longest)'
    <2>1. run' = [run EXCEPT ![r] = Reconfigured] /\ sinceReconf' = 0
      BY <1>8 DEF Reconfigure
    <2>2. run'[Poller] = run[Poller]
      BY <1>1, <2>1 DEF TypeOK
    <2>3. \A b \in Actors : run'[b].at = "collect" => run'[b] = run[b]
      BY <2>1 DEF TypeOK, Reconfigured
    <2> QED
      BY <1>1, <2>1, <2>2, <2>3 DEF ReplacedInv
  <1>9. CASE Tick
    <2>1. /\ sinceReconf' <= sinceReconf + 1 /\ sinceReconf' \in Nat
          /\ UNCHANGED <<collector, cached>>
      BY <1>1, <1>9, LaterAge DEF Tick, Later
    <2>2. ASSUME NEW a \in Actors
          PROVE  /\ run'[a].at = run[a].at
                 /\ run[a].at = "sleep" => run'[a].left = run[a].left - 1
                 /\ run[a].at = "collect" => /\ run'[a].elapsed = run[a].elapsed + 1
                                             /\ run'[a].from = run[a].from
      <3>1. run[a] \in Goroutine
        BY DEF TypeOK
      <3> QED
        BY <1>9, <3>1, GoroutineFields DEF Tick
    <2>3. Behind' <=> Behind
      BY <2>1 DEF Behind, hasState
    <2>4. ASSUME NEW a \in Actors, run'[a].at = "collect", run'[a].from # collector'
          PROVE  sinceReconf' <= run'[a].elapsed
      BY <1>1, <2>1, <2>2, <2>4 DEF ReplacedInv
    <2>5. /\ run'[Poller].at \in {"sleep", "collect"}
          /\ run'[Poller].at = "sleep" => run'[Poller].left <= longest
      BY <1>1, <2>2 DEF ReplacedInv
    <2>6. CASE run[Poller].at = "sleep"
      BY <1>1, <2>1, <2>2, <2>3, <2>4, <2>5, <2>6 DEF ReplacedInv
    <2>7. CASE run[Poller].at = "collect"
      BY <1>1, <2>1, <2>2, <2>3, <2>4, <2>5, <2>7 DEF ReplacedInv
    <2> QED
      BY <2>6, <2>7 DEF ReplacedInv
  <1>10. CASE UNCHANGED vars
    BY <1>10 DEF ReplacedInv, Behind, hasState, vars
  <1> QED
    BY <1>3, <1>4, <1>6, <1>7, <1>8, <1>9, <1>10 DEF Next

\* main starts it.
LEMMA InitReplaced ==
  ASSUME NEW longest \in Nat, \A t \in Timings : t.poll <= longest
  PROVE  Init => ReplacedInv(longest)
  <1> SUFFICES ASSUME Init PROVE ReplacedInv(longest)
      OBVIOUS
  <1>1. /\ run[Poller] = Sleeping(timing.poll) /\ timing.poll <= longest
        /\ run[Poller].at = "sleep" /\ run[Poller].left = timing.poll
    BY DEF Init, Actors, Poller, Main, Sleeping
  <1>2. \A a \in Actors : run[a].at = "collect" => run[a].from = collector
    BY DEF Init, Collecting, Sleeping, Idle
  <1> QED
    BY <1>1, <1>2 DEF Init, ReplacedInv, Behind, hasState

\* And it bounds how long an old result stays.
LEMMA ReplacedSoon ==
  ASSUME NEW longest \in Nat, TypeOK, ReplacedInv(longest), Behind
  PROVE  sinceReconf <= longest + 2 * MaxCollect
  <1>1. /\ sinceReconf \in Nat /\ MaxCollect \in Nat
        /\ run[Poller].at = "sleep" => run[Poller].left \in Nat
        /\ run[Poller].at = "collect" => run[Poller].elapsed \in 0..MaxCollect
    BY GoroutineFields DEF TypeOK, Actors
  <1> QED
    BY <1>1 DEF ReplacedInv

\* Some configured interval is the longest.
ALongestPoll ==
  \E p \in {t.poll : t \in Timings} : \A t \in Timings : t.poll <= p

\* CHOOSE finds it.
LEMMA LongestIsLongest ==
  ASSUME ALongestPoll
  PROVE  LongestPoll \in Nat /\ \A t \in Timings : t.poll <= LongestPoll
  BY DEF ALongestPoll, LongestPoll

\* For any collectors and timings among which one interval is the longest:
\* what a replaced collector gathered is gone from the cache within that
\* interval and two collections, if the new collector does not fail.
THEOREM Replaced ==
  ASSUME ALongestPoll
  PROVE  Spec => []OldCollectorGone
  <1>1. LongestPoll \in Nat /\ \A t \in Timings : t.poll <= LongestPoll
    BY LongestIsLongest
  <1>2. Init => ReplacedInv(LongestPoll)
    BY <1>1, InitReplaced
  <1>3. TypeOK /\ ReplacedInv(LongestPoll) /\ [Next]_vars => ReplacedInv(LongestPoll)'
    BY <1>1, NextReplaced
  <1>4. TypeOK /\ ReplacedInv(LongestPoll) => OldCollectorGone
    BY <1>1, ReplacedSoon DEF OldCollectorGone, Behind
  <1> QED
    BY <1>2, <1>3, <1>4, TypeCorrect, PTL DEF Spec
=============================================================================
