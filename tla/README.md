# Proxmox Desk Display in TLA+

Proxmox Desk Display is a bridge (Go, `src/apps/bridge`) that polls Proxmox VE
and a desk device (C++, `src/firmware/t-display-s3`) that shows what the bridge
tells it. This directory holds TLA+ models of both, the TLC configurations that
check them, and proofs that TLAPS checks.

    tlc -config ManagerSingle.cfg MCManager.tla     # a run, see the table below
    tlapm ManagerProofs.tla                         # a proof module

## 1. The system

```
 admin's browser ──HTTP──> server ──> runtime.Manager ──> configstore (config.yaml, secrets.yaml)
                              │             │ Reconfigure, Refresh
                              │             v
 display device ──HTTP──> server ──> store.Cache <── poller goroutine
                                            │ Collect
                                            v
                                  proxmox.Collector ── one goroutine per source ──> Proxmox VE
```

| component | state | operations | what makes it correct |
|---|---|---|---|
| configuration (`config/config.go`, `configstore/store.go`) | `Config`, `Secrets`, two files | Load, LoadSecrets, applyDefaults, Validate, ApplySecrets, Save | what Save writes, Load gives back; tokens only in secrets.yaml |
| configuration manager (`runtime/manager.go`) | live config and secrets, an RWMutex | UpdateServer, UpsertSource, DeleteSource, TestSource, Refresh, Snapshot | answered changes stay; memory, disk and collector agree; a crash costs at most the operation under way |
| state cache and poller (`store/cache.go`) | collector, intervals, last state, lastOK, lastErr | Start, Refresh, Reconfigure, State, Metadata | data is fresh or marked stale; a new configuration is shown in the end |
| start-up (`cmd/.../main.go`) | – | load, choose a collector, first refresh, listen, shut down | no display is told "no state yet" |
| Proxmox collector (`proxmox/provider.go`) | per collection: hosts, alerts, capability log | Collect, collectSource | what is critical is told, what is told was so; partial failure shows and does not hide the rest |
| Proxmox client (`proxmox/client.go`) | HTTP client, TLS pin | NewClient, Get | every request ends |
| display contract (`display/state.go`) | – | Finalize, CompactForDisplay, DetailForDisplay | summary agrees with alerts; problems are not cut off |
| HTTP server, admin pages (`server/server.go`) | – | three changing forms, refresh, test, the APIs | form values reach the manager; authorisation |
| display firmware (`main.cpp`) | settings in flash; lists, selections, screen, last sync | boot, portal, connect, fetch, parse, buttons, reset | only existing entries are drawn; settings survive power loss; it comes back after outages |
| diagnostics (`proxmox/diagnostics.go`) | – | TestHost, DetectFingerprint | a source that passed its test can be saved and is what was tested |
| mock data, packaging | – | – | not modelled, see section 7 |

Hard behaviours: admin requests are HTTP goroutines that copy, work unlocked and
publish, so two of them interleave; the two files are replaced one after the
other and the process may die in between; refreshes by the poller, by start-up
and by requests overlap and may end after the collector they read was replaced;
a request's context may be cancelled and its half-finished result cached;
a collection reads one Proxmox at many moments, and each read may fail; lists
are cut four times on their way to the screen; the device's single thread is
blind to its buttons while it fetches, and loses power while it writes its
settings key by key. PROJECT.json lists them as hazards, each at its line, with
the properties that cover it.

## 2. Modules

| module | models | built on |
|---|---|---|
| `BridgeConfig` | configuration values, defaults, validation, secrets, the three operations: pure operators | – |
| `Diagnostics` | the test buttons: the tested host, when a test passes, the form that comes back | `BridgeConfig` |
| `AtomicConfig` | abstract specification: one object, one step per accepted operation, restarts that find one operation more, whole or without its secrets | `BridgeConfig` |
| `Manager` | requests in flight with a program counter each, memory, disk, failed writes, crashes, restarts | `BridgeConfig`, instance of `AtomicConfig` |
| `ManagerOverlap` | `Manager` with the history of which requests met another one | `Manager` |
| `Cache` | poller, start-up refresh and admin requests around the cache, in ticks of time | – |
| `Bridge` | the process: manager and cache together, start-up, tokens, what a display is answered | `Manager`, instance of `Cache` |
| `Verdicts` | health words, thresholds, alert rules, error classes: pure operators | – |
| `Collector` | one collection: goroutine per source, request after request, failures, cancellation, a cluster that changes meanwhile | `Verdicts` |
| `Display` | from the sources' results to the lists of the device: merging, sorting, every cut, the summary, trends | – |
| `Firmware` | the device: power, flash, portal, Wi-Fi, polling, lists, screens, reset | – |
| `Buttons` | the device's loop in time: two buttons, a blind loop, short and long presses | – |
| `ConfigLemmas` | lemmas about the operators of `BridgeConfig` | `BridgeConfig`, TLAPS |
| `ManagerProofs`, `CacheProofs`, `BridgeProofs`, `CollectorProofs`, `DisplayProofs`, `ButtonsProofs`, `FirmwareProofs` | theorems | the module they are about, the lemmas, TLAPS; `BridgeProofs` also has an instance of `CacheProofs` |
| `MCManager`, `MCManagerOverlap`, `MCCache`, `MCBridge`, `MCCollector`, `MCDisplay`, `MCButtons`, `MCFirmware` | the constants' values for TLC | the module they check |

How state and actions correspond to the code:

* **Manager.** `cfg`, `secrets` are the fields of `Manager`; `collector` is
  `Cache.collector`; `diskConfig`, `diskSecrets` the two files. A request goes
  through the steps of `apply`: `Begin` (clone under the read lock, the
  operation, Prepared, CollectorForConfig), `SaveConfig`, `SaveSecrets` (each a
  rename: all or nothing) or `SaveFails`, `Reconfigure`, `Publish` (the write
  lock), `Answer`. Where the code holds no lock, another request or `Crash` may
  step in. `Store.Save` blanks token values in a slice that its caller goes on
  using, so what is published has no token values while the collector built
  before has them: `Strip` and `Effective` are about that.
* **ManagerOverlap.** `overlapped` is a history variable: the requests in flight
  that met another one. The steps are those of `Manager`.
* **Cache.** `run` says what each goroutine does: sleeping, collecting with a
  collector it read before, or between `Reconfigure` and the refresh of `apply`.
  `sinceOK` is the age of `lastOK`, `dataAge` that of the data. `Store` and
  `Fail` are the two ends of `Refresh`. Time passes (`Tick`) only when every
  goroutine waits. A collection lasts at most `MaxCollect` because each request
  has a client timeout. `Unreliable` collectors return errors; `Collect` of the
  Proxmox collector never does, so what is true of reliable ones is what a real
  installation sees, but the interface allows errors and `Refresh` handles them.
* **Bridge.** A step is one of the manager, one of the cache, or one of both:
  `BridgeReconfigure` is the manager's and the cache's at once, `BridgeAnswer`
  ends the refresh and the request. `BridgeStart` is `main` up to the first
  refresh, whose end makes the server listen; `BridgeCrash` loses what the
  cache holds. `Auth`, `AdminAuth` and `DisplayState` are the server's.
* **Collector.** `job[s]` is the local state of `collectSource`: what remains to
  be asked, in the code's order, and what was answered. A request is one step
  and may be answered, refused or cut off; the cluster may change between two
  steps; storages and guests are read in any order, the resource list's order
  being the server's. `Return` merges as `Collect` does. The alert rules are those of
  `Verdicts`: a text Proxmox answers with is known by the rule words in it.
* **Display.** `SourceReturns` is a source's result entering the channel, in any
  order; `Merge` joins, sorts and cuts; `FetchState` and `FetchDetailState` are
  the device's two requests, which cut again (`CompactForDisplay`,
  `DetailForDisplay`, `ParseState`, `ParseDetailState`). Records have the fields lists are sorted by and
  the summary counts, and no other.
* **Buttons.** `pc` and `blocked` say where the loop is and for how long it is
  blind; `hold` is what the fingers do, one tick at a time; `start`, `lastPoll`
  are the program's variables as ages. The other variables are history that
  only the properties read.
* **Firmware.** `at` is where the single thread is. `PutKey` writes one key, so
  a power loss finds any prefix. `Parsed` sets the number of entries of the
  lists of one answer and corrects their selections. Network, bridge and power
  come and go at any time.

Operators and actions marked "Slip" are wrong on purpose: each is the form a
plausible mistake would give the definition after it, and shows that a property
can fail. No specification uses them.

## 3. Runs

| run | cfg | what it shows |
|---|---|---|
| manager_single | `ManagerSingle` | One administrator at a time, eleven requests, an empty and a hand-written installation, crashes and failed writes anywhere: memory and disk are never more than one operation apart, answers are kept, the collector is the one of the live configuration, a torn save is repaired by one deletion, tokens are kept, and the manager implements `AtomicConfig`. |
| manager_concurrent | `ManagerConcurrent` | Two requests at once, crashes and failed writes anywhere: every change of the live configuration leaves one a collector can be built from, and whatever mix of files, memory and collector overlapping requests leave, the next request nobody overlaps puts all four in agreement. |
| v_lost_update | `ManagerLostUpdate` | *Violation.* Two requests at once, no crash: the one that publishes later undoes what was saved, and answered, before. |
| v_token_shown | `ManagerTokenShown` | *Violation.* After a save the admin page shows saved tokens as missing. |
| cache_safety | `CacheSafety` | Age of unmarked data, how soon polling replaces it, how long a replaced collector's result survives, no display without an answer. |
| bridge | `Bridge` | The whole process with crashes and restarts: promised tokens open it from the first moment it listens, what is shown comes from the configured sources soon after a change, and again and again from a whole collection. |
| collector | `Collector` | A source whose cluster changes while it is read, a failure or a cancellation anywhere: nothing wrong throughout is missed, nothing is made up, failures come first, the collection ends. |
| v_quiet | `CollectorQuiet` | *Violation.* A failing disk and a Ceph cluster in error raise no alert, so the page of critical issues is empty. |
| display | `Display` | Two sources answer in either order: the most urgent is shown, the summary counts everything, trends span their archive. |
| buttons | `Buttons` | Any presses against a loop that is blind for longer than a long press: one action per press, long presses answered, reset only on purpose, polling kept up. |
| firmware | `Firmware` | Selections exist, first set-up is whole or asked again, fresh data comes back. |
| v_all_clear | `FirmwareAllClear` | *Violation.* A device that never reached the bridge says that all checks are OK. |

The violations are findings (v_quiet shows two); PROJECT.json quotes the line of
the repository each contradicts.

### Bounds, and why they are enough

* **Manager**: two sources (one to change, one to be disturbed), two URLs and
  tokens (old and new), one good and one malformed pin, so that each rule of
  `Validate` and `NewClient` is met and broken. One client for the properties
  that only hold then, two for the others: a third adds no kind of overlap,
  each step touches one request and the shared state. `Mock` is FALSE in every
  run. Requests and crashes are not counted, so behaviours are of any length.
  With two clients three conflicting requests are enough for each pair of
  operations on the same or on different sources.
* **Cache**: a fast setting without slack and a slow one, so that the interval
  changes in both directions; two requests, so that three refreshes overlap.
  `Horizon` 9 is above every age a property compares (4 + 2, 3 + 2·2): beyond it
  ages are alike.
* **Bridge**: one source saved under two URLs and deleted, settings that change
  interval and tokens; ticks of ten seconds, so that the two intervals are one
  and two ticks and a collection lasts up to one. `Horizon` 5 is above
  `SlowestPoll` + 2·`MaxCollect`. The overlap of two administrators is left to
  the runs of the two halves.
* **Collector**: one source with one node, one change of the cluster and one
  failure at any moment. (Two nodes and two changes pass the time a run may
  take; a node's requests are independent of another's, and what two sources
  do to each other is merging, which is `Display`.) Percentages 0–3 with
  thresholds 1 and 2 have a value below, at, between and above. The guest
  requests that only fill lists are one request, `qemu_guest_agent` for five.
  The capability log's 512 entries are scaled to 16. `ProblemsFirst` promises
  nothing once the log is full, when late failures are not in it.
* **Display**: every list is too short for what two sources may tell, and the
  orders interleave; two rounds, so that the device's two requests may meet
  different states. Trends keep the real 24 samples, of archives with none,
  one, two, exactly as many, one more, and other numbers of points.
* **Buttons**: a long press of two ticks, a fetch of up to four, so that the
  loop can be blind for longer than a long press; a poll interval of five. What
  the properties compare does not depend on the lengths, and the theorems are
  about all of them.
* **Firmware**: one list of each of the two answers, at most two entries (an
  answer may send three), two forms: one that works and one of a network that
  is gone.

### Fairness

* Bridge: time goes on whatever requests do (strong, because a request may start
  at any moment of it), the timer fires, a collection ends within its timeouts,
  and `apply` goes on to its refresh. Nothing about administrators, crashes or
  restarts: the property allows for them.
* Collector: each goroutine goes on, since every request ends by answer or by
  the client's timeout; `Collect` returns when all are done.
* Firmware: the program runs on while there is power and restarts after
  `ESP.restart()`; the poll is strongly fair because `loop` looks at the clock
  after each round of buttons, between which the brightness may be saved. The
  liveness property assumes in its antecedent that power, network, bridge and
  settings stay right from some time on.
* Manager, Cache, Display, Buttons: no fairness; where they say "soon" they
  count ages, as safety.

## 4. What is proved

For every value of the constants, under the modules' named assumptions, which
say what sets the constants are taken from. The ones with content:
`ManagerAssumption` (an installation's config.yaml holds no token values, which
`Save` never writes), `BridgeAssumption` (of the intervals that an installation
or an accepted request can set, none is shorter than a tick and one bound, which
may be any, holds for all), `FirmwareAssumption` (a form has a value for every
key). "One administrator" is the hypothesis
`OneAdministrator` together with `~Mock`.

**Configuration.** `ConfigLemmas`: each operator of `BridgeConfig` returns a
well-formed value, and removing token values commutes with defaults, secrets and
loading. Its second half: a token is in memory twice or, after a save, once;
merging brings it back, and operations make the same of both forms.

* `ManagerProofs!TypeCorrect`: `TypeOK` for any number of concurrent requests,
  crashes and failed writes.
* `ManagerProofs!ChangesUsable` (any number of requests): `LiveChangeUsable`.
  Invariant `UsableInv`: every copy in flight is one whose collector was built,
  once its secrets are merged in again.
* One administrator: `ManagerProofs!OneAhead` (`OneOperationAhead`),
  `ManagerProofs!CollectorFollows`, `Kept`, `TokensStay`, `DeletionRepairs` and
  `Refinement` (the manager implements `AtomicConfig`). `OneOperationAhead` is
  not inductive: it does not say what a request in flight still has to write.
  `AheadInv` adds `InStep`: at each point of a request its copy is what the
  operation makes of memory and of the disk as it is by then. `CollectorInv`
  and `KeptInv` build on it; the repair of a torn save needs
  that invariant and `UsableInv` and that the files can be loaded or are one
  deletion away from it. `Refinement` maps `SaveConfig`, `SaveSecrets` and
  `Reconfigure` to stutters, `Publish` to the operation, and a restart to one
  that finds no operation, one, or the half of one.
* `ManagerProofs!TestedIsSaved`: a source whose test passed is accepted when the
  form that comes back is saved with its token, and is then the tested host.

**Cache and bridge.** `CacheProofs!TypeCorrect`, `Fresh`, `AlwaysAnswered`,
`Polled`, `Replaced`. `FreshEnough` says nothing of data marked stale, whose
window an administrator may widen; the invariant is that data is older than its
storing by at most one collection (`AgeInv`). `Polled` follows the poller's
sleep (`PollInv`), `Replaced` the goroutines that still collect with the old
collector (`ReplacedInv`), and assumes one longest interval.
`BridgeProofs!BridgeImplementsManager`: every step of the bridge is one of the
manager or leaves it alone, so `BridgeOneAhead` and `BridgeKeeps` follow.
`PromisedTokens`: config, secrets, secrets.yaml and the copy of any request
about something else carry the same tokens (`PromiseInv`), and the server
listens only after a first state is stored.

The process is two halves that share goroutines, and what is proved of `Cache`
is used for one life of it: `CacheStep` says that between a start and a crash
every step of the bridge is a step of the cache or leaves it alone. For that the
interval an administrator sets must be one the cache was proved for, which needs
an invariant about config.yaml, memory and the copies in flight (`KnownTimings`:
their settings have their defaults and come from an installation or an accepted
request; every other operation hands them on unchanged).

* `BridgeTypeCorrect` (`BridgeTypeOK`, any number of administrators). Its
  invariant `BridgeInv` adds to the types of both halves that a request writing
  its files is idle in the cache, one about to publish has just called
  `Reconfigure`, and one that refreshes is on the way into the collection or in
  it (`HalvesInv`).
* `Shows` (`ShowsConfigured`, one administrator) puts everything together
  (`ShownInv`): the collector is the one of the configuration (`CollectorInv`),
  so are the intervals (`TimingInv`), the server has a state (`ServedInv`), and
  while the process lives its poller bounds how long an old collector's state can
  stay (`CacheProofs!ReplacedInv`, with `SlowestPoll` for the longest interval).

**Device.** `ButtonsProofs`: `TypeCorrect`, `ActsOnce`, `LongIsLong`,
`Answered`, `Deliberate`, `Polls`, for every length of a long press, a poll
interval and a fetch. The invariants relate the age the program remembers to how
long the button has really been down (`OnceInv`, `LongInv`, `ChordInv`), and
bound how long the loop can have been blind at each of its places.
`FirmwareProofs`: `TypeCorrect`, `Selections` (`ListInv`), `Whole` (`WholeInv`:
where a token is in flash all the rest is, since it is the last required key to
be written).

**Collector.** `CollectorProofs!Missed` (`NothingMissed`) and `Truthful`
(`NoFalseAlarm`), for any number of sources, nodes, guests and storages, any
changes of the cluster while it is read, and failures and a cancellation anywhere.
Both speak of the merged result only, so neither is inductive. The invariant
`CollectInv` follows each goroutine from request to request (`JobOK`):

* where it is, and that what it has left to ask is the end of the code's list of
  requests (`JobShape`);
* what it has read and not yet judged lies, as a verdict, between `lasting`, what
  has been wrong since the collection began, and `ever`, what was wrong at some
  time since (`Between`, `HostReads`). A host is put together from readings of
  different moments, so no more than this is true of it;
* each alert raised so far is about something in `ever` (`AlertTrue`);
* each problem of `lasting` whose request is no longer to come is told by an alert
  or by a failed request that shows (`Heard`). For each kind of problem the
  invariant says which request of which list is the last that it waits for
  (`NodeHeard`, `StorageHeard`, `GuestHeard`, `HostHeard`, `SourceHeard`).

The cluster moves under all of it: `lasting` only shrinks and `ever` only grows,
so what is between them stays so (`JobLater`), and a request reads the present,
which is between them too (`NodeNow` and the lemmas after it). One goroutine's
step leaves the others' jobs alone (`AloneKeeps`). When all jobs are done no
request is to come, and merging adds and drops nothing (`AllSaid`, `AllTrue`).

These two theorems assume `ReadAsMeant`: every single word a node, guest, storage or
source of the model can answer with is read by the rules of `Verdicts` as `Wrong`
means it. It is a statement about the constants alone, and TLC evaluates it for
the words of the runs (`MCReadAsMeant`). What `Wrong` lists and the code has no
rule for is in `Unspoken`, and `v_quiet` shows what comes of that.

`CollectorTypeCorrect` (`TypeOK`) and `FailuresFirst` (`ProblemsFirst`) need no such
assumption: they hold whatever the texts mean, for a finite set of sources and any
sizes of the log and of a display's list. The invariant `LogInv` says of each job:

* which requests it has sent (`Sent`), from the place it is at and what it has left
  of the code's lists, which name no request twice (`HeadOnce`). Every entry of its
  log is of a request that has been sent, so the next one is not in the log yet, and
  no entry is there twice (`LogsOK`);
* an entry that tells of a failure is of a request that failed, and every failed
  request that is logged at all has its entry while the log is not full (`LogOK`).

Of the merged result it says what `ProblemsFirst` does (`Good`). The list of a display
is sorted, and the model picks its *i*-th entry as the one that *i* - 1 others come
before. That there is one needs the order to be total and without cycles
(`UrgentOrder`) and a count: ranks have no gaps, because the sizes of what comes
before each entry are different numbers below the size of the log (`NoGaps`,
`PrioritizedIs`). A failure is more urgent than any answer, so an answered entry has
all failures before it and its index is beyond them (`FailedFirst`).

**Display.** `DisplayProofs!MostUrgent` (`MostUrgentShown`), `Summarised`
(`SummaryOfEverything`), `DeviceTypeCorrect` (`TypeOK`) and `TrendSpans`
(`TrendSpansAll`), for any number of sources, whatever they tell, and any sizes of
the lists. A device holds only the ends of what was merged, so the invariant
(`DisplayInv`) remembers where they come from: each list of the bridge is an
ordered listing of what all sources told, cut at its size, and each list of the
device such a list cut again (`Merged`, `Shown`, `Detailed`). Then

* cutting twice is cutting once at the smaller size (`CutTwice`), and the
  beginning of an ordered listing holds the best, whatever the order
  (`BeginningBest`), so no cut on the way loses an entry to a less urgent one;
* a listing holds each entry once, so what `Finalize` counts in the lists are the
  sizes of the sets (`Counted`, `SummaryCounts`), and the device keeps these counts;
* with *b* twice the number of steps of a trend, a step is the quotient of
  2(*n* - 1) by *b* or one more (`QuotientAdds`), and the last is exact.

`sort.Slice` appears as what it can leave (`Orders`): any listing in which no
entry stands behind one it belongs before. `AlwaysSortable` says that there is one
for whatever was told, so that `Merge` is never stuck: in a strict order an entry
comes after as many as are before it (`Ranked`). The assumption `DisplayAssumption` says that what a source
tells is finite and that identifiers tell entries apart.

Only model-checked: liveness (`ConfiguredShown`, `CollectEnds`, `ShowsAgain`),
which is out of the prover's reach, and `AloneAgrees`. Every other invariant and
action property of a passing run is a theorem.

## 5. What the models say about the code

* Requests of one administrator are safe against crashes and failed writes up to
  the operation under way; a torn save can leave a source without its token,
  after which every change is refused except deleting that source.
* Requests of two are not: the later publication undoes the earlier one in
  memory and on disk, though both were answered, and a saved token can be lost
  with it (`TokensKept` holds for one administrator only). The live configuration
  stays usable all the same. Files, memory and collector may come from different
  requests, until a request that runs alone is answered: each save writes and
  builds everything anew (`AloneAgrees`), and that is why. A save that skipped
  a file its request does not change would leave such a mix for good.
* A cancelled or late refresh can put the result of an old collector, or one
  with offline hosts that are not, into the cache; the next poll mends it.
* `stale` counts from the storing of the data, not from its gathering: data not
  marked may be one collection older than the window of docs/api.md:82 ("serving
  cached data older than the configured freshness window"). `FreshEnough` states
  the bound.
* An admin's shorter poll interval takes effect only after the running one.
* A test of a source that passed can be saved. But the form that comes back
  has lost a typed token: for an existing source, pressing "Save" then keeps the
  old token, not the tested one, and says "source saved".
* In mock mode a save replaces the real config.yaml by the mock configuration
  (main.go:55).
* A disk failing SMART and Ceph's HEALTH_ERR raise no alert. Words no rule knows
  (a pool "UNAVAIL" or "SUSPENDED") give no verdict; a pinned guest that
  is missing from the resource list raises no alert.
* The capability log stops at 512 entries in reading order, so a late failure
  may not be in it; `Summary.Updates` is the length of a list already cut.
* A press that ends and a new one that begins within one blocking fetch are one
  press to the loop: the later one may go unanswered as a long one, or be taken
  for it (docs/firmware-ui.md:5,24 promise an action for each). A short press
  within a fetch is lost. What the loop sees begin is always answered rightly.
* The device runs with a mixture of old and new settings if power fails while
  settings are *replaced*; a *first* set-up cut short leads back to the portal,
  because the token is the last required key to be written.
* A device that boots faster than its router waits in the portal until it is
  restarted.

## 6. Plan

Done, from what loses data to what shows it wrongly: configuration and manager,
cache, collector, firmware; then the bridge as a whole, display lists, buttons,
test buttons, and the proofs. Next:

1. **Bridge and device** in one model: a device that polls while the bridge
   restarts, and what it shows of an outage.
2. A run of `Bridge` with two administrators.

## 7. Not modelled

* Sessions, HTML forms and templates, the same-origin check: input handling
  without state of its own.
* Locks. What one lock covers is one step. The manager's and the cache's locks
  are never held while another is taken (manager.go:78-90, 217, 241; cache.go:40,
  58, 63, 80-104), so nothing waits in a circle; that is read off the code, and
  no property speaks of waiting.
* HTTP, TLS and JSON: a request succeeds or fails. The pin and mode rules that
  decide whether a client can be built are modelled. The size of the device's
  JSON document is not: a payload beyond it would never be parsed, which in
  `Firmware` is a bridge that does not answer.
* Answers that are only copied to the screens (networks, updates, a guest's
  disks) and the drawing of one entry: data without control. That their requests
  are made, and may fail, is modelled.
* In the collector, what raises no alert of its own or cannot change which is
  raised in the runs: the branch for containers, whose requests are of the kind
  of a virtual machine's; Ceph's second request; the age (24 h) and number (25)
  of the tasks asked about, so a failed task stands for a recent one. A
  replication's state and status are one text in `Verdicts`; in the code they are
  two fields that are merged one by one, and the status goes first.
  `Summary.Updates`, which the device does not read, is left out of `Display`.
* The timeouts of the device's HTTP client: `MaxFetch` is the longest fetch,
  assumed to exist because each read has one.
* `MockCollector`: constant data.
* Build, Docker and release files.
