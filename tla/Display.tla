------------------------------- MODULE Display ------------------------------
(***************************************************************************)
(* What reaches a device of what the sources tell: the results of the      *)
(* source goroutines come in any order, are joined, sorted and cut to the  *)
(* size of the state; a request for the display state or the detail state  *)
(* cuts again, and so does the device, whose lists have a fixed size.  The *)
(* two requests of one poll may meet different states.                     *)
(*                                                                         *)
(* Hosts and guests stand for the lists sorted by identifier, guests with  *)
(* the pinned ones in front, tasks and storage items for those sorted by   *)
(* age, alerts for the one sorted by severity only.  Identifiers are       *)
(* numbers, ordered as the strings are.                                    *)
(***************************************************************************)
EXTENDS Integers, Sequences, SequencesExt, FiniteSetsExt

CONSTANTS
  Sources,       \* the configured sources
  Inventories,   \* per source: what it may tell
  MaxTasks,      \* maxDisplayTasks
  MaxItems,      \* maxStorageItems
  MaxDetailItems,   \* MaxDetailStorageItems
  DeviceHosts, DeviceGuests, DeviceTasks, DeviceAlerts, DeviceItems,  \* MAX_HOSTS ...
  Samples,       \* maxTrendSamples, MAX_TREND_VALUES
  Points,        \* numbers of points a round-robin archive may have
  MaxRounds      \* bound: collections

Host  == [id : Nat, online : BOOLEAN]
Guest == [id : Nat, pinned : BOOLEAN, running : BOOLEAN]
Task  == [id : Nat, started : Nat]
Item  == [id : Nat, created : Nat]
Alert == [id : Nat, severity : {"critical", "warning"}]

Inventory ==
  [hosts : SUBSET Host, guests : SUBSET Guest, tasks : SUBSET Task,
   items : SUBSET Item, alerts : SUBSET Alert]

Lists == {"hosts", "guests", "tasks", "items", "alerts"}

\* An answer ends, and identifiers tell the entries of one source, and of all
\* sources, apart: they begin with the source's.
ASSUME DisplayAssumption ==
  /\ Inventories \in [Sources -> SUBSET Inventory]
  /\ \A s \in Sources : \A i \in Inventories[s] : \A k \in Lists : IsFiniteSet(i[k])
  /\ \A s, t \in Sources : \A i \in Inventories[s], j \in Inventories[t] :
       s # t \/ i = j => \A k \in Lists : \A a \in i[k], b \in j[k] : a.id = b.id => a = b
  /\ {MaxTasks, MaxItems, MaxDetailItems, DeviceHosts, DeviceGuests, DeviceTasks,
      DeviceAlerts, DeviceItems, MaxRounds} \cup Points \subseteq Nat
  /\ Samples \in Nat \ {0, 1}

VARIABLES
  results,  \* the results channel of Collect
  rounds,   \* collections so far
  cached,   \* the merged state, with what it was made of
  shown,    \* the device's DisplayState
  details   \* the device's InventoryDetails

vars == <<results, rounds, cached, shown, details>>

-----------------------------------------------------------------------------
(***************************************************************************)
(* The orders of the lists.                                                *)
(***************************************************************************)
ById(a, b) == a.id < b.id

GuestsBefore(a, b) == IF a.pinned # b.pinned THEN a.pinned ELSE a.id < b.id

TasksBefore(a, b) == IF a.started # b.started THEN a.started > b.started ELSE a.id < b.id

ItemsBefore(a, b) == IF a.created # b.created THEN a.created > b.created ELSE a.id < b.id

SeverityRank(a) == IF a.severity = "critical" THEN 3 ELSE 2

MoreSevere(a, b) == SeverityRank(a) > SeverityRank(b)

\* What sort.Slice can leave.  It is not stable: entries neither of which is
\* before the other, as two alerts of one severity, come out in any order.
Orders(entries, Before(_, _)) ==
  {q \in SetToSeqs(entries) : \A i, k \in 1..Len(q) : Before(q[i], q[k]) => i < k}

\* Slip: one entry more than there is room for.
FirstNAndOne(seq, n) == SubSeq(seq, 1, IF Len(seq) <= n THEN Len(seq) ELSE n + 1)

FirstN(seq, n) == SubSeq(seq, 1, IF Len(seq) < n THEN Len(seq) ELSE n)

(***************************************************************************)
(* Finalize: the summary counts the lists as they are.                     *)
(***************************************************************************)
Summary(hosts, guests, alerts) ==
  LET online == {i \in 1..Len(hosts) : hosts[i].online}
      running == {i \in 1..Len(guests) : guests[i].running}
  IN  [health |-> IF \E i \in 1..Len(alerts) : alerts[i].severity = "critical" THEN "critical"
                  ELSE IF Cardinality(online) < Len(hosts) THEN "critical"
                  ELSE IF alerts # <<>> THEN "warning" ELSE "ok",
       hostsOnline |-> Cardinality(online), hostsTotal |-> Len(hosts),
       guestsRunning |-> Cardinality(running),
       guestsStopped |-> Len(guests) - Cardinality(running),
       alerts |-> Len(alerts)]

Finalize(s) == [s EXCEPT !.summary = Summary(s.hosts, s.guests, s.alerts)]

None == [hosts |-> {}, guests |-> {}, tasks |-> {}, items |-> {}, alerts |-> {}]

\* What all results of a collection tell together.
Joined(channel) ==
  [k \in Lists |-> UNION {channel[i].told[k] : i \in 1..Len(channel)}]

\* The state before anything was collected.
NewState ==
  [hosts |-> <<>>, guests |-> <<>>, tasks |-> <<>>, items |-> <<>>, alerts |-> <<>>,
   trend |-> <<>>, points |-> 0, summary |-> Summary(<<>>, <<>>, <<>>), of |-> None]

NoDetails == [items |-> <<>>, trend |-> <<>>, points |-> 0, of |-> None]

Init ==
  /\ results = <<>>
  /\ rounds = 0
  /\ cached = NewState
  /\ shown = NewState
  /\ details = NoDetails

(***************************************************************************)
(* The samples of a trend: which of n points are kept, counted from 0.     *)
(***************************************************************************)
\* Slip: rounds down, in steps of a whole number of points.
TrendSamplesFloor(n) ==
  LET count == IF n < Samples THEN n ELSE Samples
  IN  [i \in 1..count |-> (i - 1) * (n \div count)]

\* math.Round of i * (n - 1) / (count - 1), away from zero at one half.
TrendSamples(n) ==
  LET count == IF n < Samples THEN n ELSE Samples
  IN  [i \in 1..count |->
         IF count = 1 THEN 0
         ELSE (2 * (i - 1) * (n - 1) + count - 1) \div (2 * (count - 1))]

(***************************************************************************)
(* The bridge.                                                             *)
(***************************************************************************)
SourceReturns ==
  /\ rounds < MaxRounds
  /\ \E s \in Sources : \E told \in Inventories[s] :
       /\ \A i \in 1..Len(results) : results[i].source # s
       /\ results' = Append(results, [source |-> s, told |-> told])
  /\ UNCHANGED <<rounds, cached, shown, details>>

\* Slip: tasks are cut before they are sorted, in the order in which sources answer.
MergeCutUnsorted ==
  /\ Len(results) = Cardinality(Sources)
  /\ LET all == Joined(results)
         tasks == FoldSeq(LAMBDA r, q : SetToSortSeq(r.told.tasks, TasksBefore) \o q, <<>>, results)
     IN  \E alerts \in Orders(all.alerts, MoreSevere), n \in Points :
           cached' = Finalize(
             [NewState EXCEPT
                !.hosts = SetToSortSeq(all.hosts, ById),
                !.guests = SetToSortSeq(all.guests, GuestsBefore),
                !.tasks = SortSeq(FirstN(tasks, MaxTasks), TasksBefore),
                !.items = FirstN(SetToSortSeq(all.items, ItemsBefore), MaxItems),
                !.alerts = alerts,
                !.trend = TrendSamples(n),
                !.points = n,
                !.of = all])
  /\ results' = <<>>
  /\ rounds' = rounds + 1
  /\ UNCHANGED <<shown, details>>

\* Collect, once the last goroutine has returned.
Merge ==
  /\ Len(results) = Cardinality(Sources)
  /\ LET all == Joined(results)
     IN  \E hosts \in Orders(all.hosts, ById), guests \in Orders(all.guests, GuestsBefore),
            tasks \in Orders(all.tasks, TasksBefore), items \in Orders(all.items, ItemsBefore),
            alerts \in Orders(all.alerts, MoreSevere), n \in Points :
           cached' = Finalize(
             [NewState EXCEPT
                !.hosts = hosts, !.guests = guests,
                !.tasks = FirstN(tasks, MaxTasks), !.items = FirstN(items, MaxItems),
                !.alerts = alerts,
                !.trend = TrendSamples(n),
                !.points = n,
                !.of = all])
  /\ results' = <<>>
  /\ rounds' = rounds + 1
  /\ UNCHANGED <<shown, details>>

CompactForDisplay(s) == Finalize([s EXCEPT !.items = <<>>, !.trend = <<>>])

DetailForDisplay(s) ==
  [items |-> FirstN(s.items, MaxDetailItems), trend |-> s.trend, points |-> s.points, of |-> s.of]

(***************************************************************************)
(* The device.                                                             *)
(***************************************************************************)
\* Slip: the device counts what it has room for.
ParseStateCounting(s) ==
  Finalize([s EXCEPT !.hosts = FirstN(@, DeviceHosts), !.guests = FirstN(@, DeviceGuests),
                     !.tasks = FirstN(@, DeviceTasks), !.alerts = FirstN(@, DeviceAlerts)])

ParseState(s) ==
  [s EXCEPT !.hosts = FirstN(@, DeviceHosts), !.guests = FirstN(@, DeviceGuests),
            !.tasks = FirstN(@, DeviceTasks), !.alerts = FirstN(@, DeviceAlerts)]

ParseDetailState(d) == [d EXCEPT !.items = FirstN(@, DeviceItems), !.trend = FirstN(@, Samples)]

\* The bridge listens once it has collected.
FetchState ==
  /\ rounds > 0
  /\ shown' = ParseState(CompactForDisplay(cached))
  /\ UNCHANGED <<results, rounds, cached, details>>

FetchDetailState ==
  /\ rounds > 0
  /\ details' = ParseDetailState(DetailForDisplay(cached))
  /\ UNCHANGED <<results, rounds, cached, shown>>

Next == SourceReturns \/ Merge \/ FetchState \/ FetchDetailState

Spec == Init /\ [][Next]_vars

-----------------------------------------------------------------------------
(***************************************************************************)
(* Properties.                                                             *)
(***************************************************************************)
\* The lists of a device have room for what is in them, and nothing is in twice.
TypeOK ==
  /\ Len(shown.hosts) <= DeviceHosts /\ Len(shown.guests) <= DeviceGuests
  /\ Len(shown.tasks) <= DeviceTasks /\ Len(shown.alerts) <= DeviceAlerts
  /\ Len(details.items) <= DeviceItems
  /\ \A q \in {shown.hosts, shown.guests, shown.tasks, shown.alerts, details.items} :
       \A i, k \in 1..Len(q) : i # k => q[i].id # q[k].id

\* A list holds what is most urgent of all there is, with room for n entries:
\* something is missing only if the list is full, and then nothing in the list
\* comes after it.
HoldsBest(list, all, n, Before(_, _)) ==
  /\ ToSet(list) \subseteq all
  /\ \A i, k \in 1..Len(list) : i < k => ~Before(list[k], list[i])
  /\ \A e \in all \ ToSet(list) :
       Len(list) = n /\ \A i \in 1..Len(list) : ~Before(e, list[i])

\* Whatever the order in which sources answer, and although lists are cut two or
\* three times on their way: a device shows the first hosts and guests, pinned
\* ones before others, the newest tasks and storage items, and no warning while a
\* critical alert has no room.
MostUrgentShown ==
  /\ HoldsBest(shown.hosts, shown.of.hosts, DeviceHosts, ById)
  /\ HoldsBest(shown.guests, shown.of.guests, DeviceGuests, GuestsBefore)
  /\ HoldsBest(shown.tasks, shown.of.tasks, IF DeviceTasks < MaxTasks THEN DeviceTasks ELSE MaxTasks,
               TasksBefore)
  /\ HoldsBest(shown.alerts, shown.of.alerts, DeviceAlerts,
               LAMBDA a, b : a.severity = "critical" /\ b.severity # "critical")
  /\ HoldsBest(details.items, details.of.items, Min({DeviceItems, MaxDetailItems, MaxItems}),
               ItemsBefore)

\* The summary of a device is about everything the sources told, not about what
\* its lists have room for: a host that is offline turns the whole display
\* critical even if it is shown in no list.
SummaryOfEverything ==
  LET all == shown.of
      sum == shown.summary
  IN  /\ sum.alerts = Cardinality(all.alerts)
      /\ sum.hostsTotal = Cardinality(all.hosts)
      /\ sum.hostsOnline = Cardinality({h \in all.hosts : h.online})
      /\ sum.guestsRunning + sum.guestsStopped = Cardinality(all.guests)
      /\ sum.health = "ok" <=> all.alerts = {} /\ \A h \in all.hosts : h.online
      /\ (sum.health = "critical" <=> \/ \E a \in all.alerts : a.severity = "critical"
                                      \/ \E h \in all.hosts : ~h.online)

\* A trend keeps the first and the last point, in order and none twice, and is as
\* long as it may be; two neighbours are never much further apart than others.
TrendSpansAll ==
  LET kept == details.trend
      last == Len(kept)
      n == details.points
  IN  /\ last = IF n < Samples THEN n ELSE Samples
      /\ n > 0 => kept[1] = 0
      /\ n > 1 => kept[last] = n - 1
      /\ \A i \in 1..(last - 1) : kept[i] < kept[i + 1]
      /\ \A i, k \in 1..(last - 1) : (kept[i + 1] - kept[i]) - (kept[k + 1] - kept[k]) <= 1
=============================================================================
