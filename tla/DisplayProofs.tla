---------------------------- MODULE DisplayProofs ---------------------------
(***************************************************************************)
(* For any sources, anything they may tell and any sizes of the lists:     *)
(* what a device is shown of it.                                           *)
(***************************************************************************)
EXTENDS Display, FiniteSetTheorems, TLAPS

USE DisplayAssumption

-----------------------------------------------------------------------------
(***************************************************************************)
(* Lists.  A listing of a finite set holds each of its entries once.       *)
(***************************************************************************)
\* The entries of a listing, and how many they are.
LEMMA Listing ==
  ASSUME NEW S, IsFiniteSet(S), NEW q \in SetToSeqs(S)
  PROVE  /\ Cardinality(S) \in Nat /\ q \in Seq(S) /\ Len(q) = Cardinality(S)
         /\ \A i \in 1..Len(q) : q[i] \in S
         /\ \A i, k \in 1..Len(q) : i # k => q[i] # q[k]
         /\ \A e \in S : \E i \in 1..Len(q) : q[i] = e
<1> DEFINE D == 1..Cardinality(S)
<1>1. Cardinality(S) \in Nat
  BY FS_CardinalityType
<1>2. q \in [D -> S] /\ \A i, k \in D : i # k => q[i] # q[k]
  BY DEF SetToSeqs
<1>3. q \in Seq(S) /\ Len(q) = Cardinality(S)
  BY <1>1, <1>2
<1>4. IsFiniteSet(D) /\ Cardinality(D) = Cardinality(S)
  BY <1>1, FS_Interval
<1>5. q \in Injection(D, S)
  BY <1>2 DEF Injection, IsInjective
<1>6. q \in Surjection(D, S)
  BY <1>4, <1>5, FS_Injection
<1>7. \A e \in S : \E i \in D : q[i] = e
  BY <1>6 DEF Surjection
<1>8. QED
  BY <1>1, <1>2, <1>3, <1>7

\* The entries of the beginning of a list.
LEMMA Beginning ==
  ASSUME NEW S, NEW q \in Seq(S), NEW n \in Nat
  PROVE  /\ FirstN(q, n) \in Seq(S)
         /\ Len(FirstN(q, n)) = IF Len(q) < n THEN Len(q) ELSE n
         /\ \A i \in 1..Len(FirstN(q, n)) : i \in 1..Len(q) /\ FirstN(q, n)[i] = q[i]
BY DEF FirstN

\* Cutting twice is cutting at the shorter length.
LEMMA CutTwice ==
  ASSUME NEW S, NEW q \in Seq(S), NEW m \in Nat, NEW n \in Nat
  PROVE  FirstN(FirstN(q, m), n) = FirstN(q, IF n < m THEN n ELSE m)
BY DEF FirstN

\* The beginning of an ordered listing holds the best, whatever the order.
LEMMA BeginningBest ==
  ASSUME NEW S, IsFiniteSet(S), NEW q \in SetToSeqs(S), NEW n \in Nat, NEW R,
         \A i, k \in 1..Len(q) : <<q[i], q[k]>> \in R => i < k
  PROVE  LET list == FirstN(q, n)
         IN  /\ ToSet(list) \subseteq S
             /\ \A i, k \in 1..Len(list) : i < k => <<list[k], list[i]>> \notin R
             /\ \A e \in S \ ToSet(list) :
                  Len(list) = n /\ \A i \in 1..Len(list) : <<e, list[i]>> \notin R
<1> DEFINE list == FirstN(q, n)
<1>1. q \in Seq(S) /\ Len(q) \in Nat
  BY Listing
<1>2. /\ list \in Seq(S) /\ Len(list) = IF Len(q) < n THEN Len(q) ELSE n
      /\ \A i \in 1..Len(list) : i \in 1..Len(q) /\ list[i] = q[i]
  BY <1>1, Beginning
<1>3. ToSet(list) = {list[i] : i \in 1..Len(list)}
  BY <1>2 DEF ToSet
<1> HIDE DEF list
<1>4. ToSet(list) \subseteq S
  BY <1>2, <1>3
<1>5. \A i, k \in 1..Len(list) : i < k => <<list[k], list[i]>> \notin R
  BY <1>1, <1>2
<1>6. ASSUME NEW e \in S, e \notin ToSet(list)
      PROVE  Len(list) = n /\ \A i \in 1..Len(list) : <<e, list[i]>> \notin R
  <2>1. PICK j \in 1..Len(q) : q[j] = e
    BY Listing
  <2>2. j \notin 1..Len(list)
    BY <1>2, <1>3, <1>6, <2>1
  <2>3. Len(list) = n /\ \A i \in 1..Len(list) : i < j
    BY <1>1, <1>2, <2>2
  <2>4. ASSUME NEW i \in 1..Len(list), <<e, list[i]>> \in R PROVE FALSE
    <3>1. <<q[j], q[i]>> \in R /\ i \in 1..Len(q)
      BY <1>2, <2>1, <2>4
    <3>2. j < i
      BY <3>1
    <3>3. QED
      BY <2>3, <3>2, <1>1, <1>2
  <2>5. QED
    BY <2>3, <2>4
<1>7. QED
  BY <1>4, <1>5, <1>6 DEF list

-----------------------------------------------------------------------------
\* The five orders, and the best of a list in each.
HostLists(S) == Orders(S, ById)
GuestLists(S) == Orders(S, GuestsBefore)
TaskLists(S) == Orders(S, TasksBefore)
ItemLists(S) == Orders(S, ItemsBefore)
AlertLists(S) == Orders(S, MoreSevere)

BestHosts(list, all, n) == HoldsBest(list, all, n, ById)
BestGuests(list, all, n) == HoldsBest(list, all, n, GuestsBefore)
BestTasks(list, all, n) == HoldsBest(list, all, n, TasksBefore)
BestItems(list, all, n) == HoldsBest(list, all, n, ItemsBefore)
BestAlerts(list, all, n) ==
  HoldsBest(list, all, n, LAMBDA a, b : a.severity = "critical" /\ b.severity # "critical")

\* Each is a listing.
LEMMA Listed ==
  ASSUME NEW S, NEW q,
         \/ q \in HostLists(S) \/ q \in GuestLists(S) \/ q \in TaskLists(S)
         \/ q \in ItemLists(S) \/ q \in AlertLists(S)
  PROVE  q \in SetToSeqs(S)
BY DEF HostLists, GuestLists, TaskLists, ItemLists, AlertLists, Orders

\* The first hosts are those with the lowest identifiers.
LEMMA FirstHosts ==
  ASSUME NEW S, IsFiniteSet(S), NEW q \in HostLists(S), NEW n \in Nat
  PROVE  BestHosts(FirstN(q, n), S, n)
<1> DEFINE R == {p \in S \X S : ById(p[1], p[2])}
           list == FirstN(q, n)
<1>1. q \in SetToSeqs(S) /\ \A i \in 1..Len(q) : q[i] \in S
  BY Listed, Listing
<1>2. \A i, k \in 1..Len(q) : ById(q[i], q[k]) => i < k
  BY DEF HostLists, Orders
<1>3. \A a, b \in S : <<a, b>> \in R <=> ById(a, b)
  OBVIOUS
<1>4. \A i, k \in 1..Len(q) : <<q[i], q[k]>> \in R => i < k
  BY <1>1, <1>2, <1>3
<1> HIDE DEF R
<1>5. /\ ToSet(list) \subseteq S
      /\ \A i, k \in 1..Len(list) : i < k => <<list[k], list[i]>> \notin R
      /\ \A e \in S \ ToSet(list) :
           Len(list) = n /\ \A i \in 1..Len(list) : <<e, list[i]>> \notin R
  BY <1>1, <1>4, BeginningBest
<1>6. \A i \in 1..Len(list) : list[i] \in S
  BY <1>1, Listing, Beginning
<1> HIDE DEF list
<1>7. \A i, k \in 1..Len(list) : i < k => ~ById(list[k], list[i])
  BY <1>3, <1>5, <1>6
<1>8. \A e \in S \ ToSet(list) : Len(list) = n /\ \A i \in 1..Len(list) : ~ById(e, list[i])
  BY <1>3, <1>5, <1>6
<1>9. BestHosts(list, S, n)
  BY <1>5, <1>7, <1>8 DEF BestHosts, HoldsBest
<1>10. QED
  BY <1>9 DEF list

\* The first guests are the pinned ones, by identifier, and then the others.
LEMMA FirstGuests ==
  ASSUME NEW S, IsFiniteSet(S), NEW q \in GuestLists(S), NEW n \in Nat
  PROVE  BestGuests(FirstN(q, n), S, n)
<1> DEFINE R == {p \in S \X S : GuestsBefore(p[1], p[2])}
           list == FirstN(q, n)
<1>1. q \in SetToSeqs(S) /\ \A i \in 1..Len(q) : q[i] \in S
  BY Listed, Listing
<1>2. \A i, k \in 1..Len(q) : GuestsBefore(q[i], q[k]) => i < k
  BY DEF GuestLists, Orders
<1>3. \A a, b \in S : <<a, b>> \in R <=> GuestsBefore(a, b)
  OBVIOUS
<1>4. \A i, k \in 1..Len(q) : <<q[i], q[k]>> \in R => i < k
  BY <1>1, <1>2, <1>3
<1> HIDE DEF R
<1>5. /\ ToSet(list) \subseteq S
      /\ \A i, k \in 1..Len(list) : i < k => <<list[k], list[i]>> \notin R
      /\ \A e \in S \ ToSet(list) :
           Len(list) = n /\ \A i \in 1..Len(list) : <<e, list[i]>> \notin R
  BY <1>1, <1>4, BeginningBest
<1>6. \A i \in 1..Len(list) : list[i] \in S
  BY <1>1, Listing, Beginning
<1> HIDE DEF list
<1>7. \A i, k \in 1..Len(list) : i < k => ~GuestsBefore(list[k], list[i])
  BY <1>3, <1>5, <1>6
<1>8. \A e \in S \ ToSet(list) : Len(list) = n /\ \A i \in 1..Len(list) : ~GuestsBefore(e, list[i])
  BY <1>3, <1>5, <1>6
<1>9. BestGuests(list, S, n)
  BY <1>5, <1>7, <1>8 DEF BestGuests, HoldsBest
<1>10. QED
  BY <1>9 DEF list

\* The first tasks are the newest.
LEMMA FirstTasks ==
  ASSUME NEW S, IsFiniteSet(S), NEW q \in TaskLists(S), NEW n \in Nat
  PROVE  BestTasks(FirstN(q, n), S, n)
<1> DEFINE R == {p \in S \X S : TasksBefore(p[1], p[2])}
           list == FirstN(q, n)
<1>1. q \in SetToSeqs(S) /\ \A i \in 1..Len(q) : q[i] \in S
  BY Listed, Listing
<1>2. \A i, k \in 1..Len(q) : TasksBefore(q[i], q[k]) => i < k
  BY DEF TaskLists, Orders
<1>3. \A a, b \in S : <<a, b>> \in R <=> TasksBefore(a, b)
  OBVIOUS
<1>4. \A i, k \in 1..Len(q) : <<q[i], q[k]>> \in R => i < k
  BY <1>1, <1>2, <1>3
<1> HIDE DEF R
<1>5. /\ ToSet(list) \subseteq S
      /\ \A i, k \in 1..Len(list) : i < k => <<list[k], list[i]>> \notin R
      /\ \A e \in S \ ToSet(list) :
           Len(list) = n /\ \A i \in 1..Len(list) : <<e, list[i]>> \notin R
  BY <1>1, <1>4, BeginningBest
<1>6. \A i \in 1..Len(list) : list[i] \in S
  BY <1>1, Listing, Beginning
<1> HIDE DEF list
<1>7. \A i, k \in 1..Len(list) : i < k => ~TasksBefore(list[k], list[i])
  BY <1>3, <1>5, <1>6
<1>8. \A e \in S \ ToSet(list) : Len(list) = n /\ \A i \in 1..Len(list) : ~TasksBefore(e, list[i])
  BY <1>3, <1>5, <1>6
<1>9. BestTasks(list, S, n)
  BY <1>5, <1>7, <1>8 DEF BestTasks, HoldsBest
<1>10. QED
  BY <1>9 DEF list

\* The first storage items are the newest.
LEMMA FirstItems ==
  ASSUME NEW S, IsFiniteSet(S), NEW q \in ItemLists(S), NEW n \in Nat
  PROVE  BestItems(FirstN(q, n), S, n)
<1> DEFINE R == {p \in S \X S : ItemsBefore(p[1], p[2])}
           list == FirstN(q, n)
<1>1. q \in SetToSeqs(S) /\ \A i \in 1..Len(q) : q[i] \in S
  BY Listed, Listing
<1>2. \A i, k \in 1..Len(q) : ItemsBefore(q[i], q[k]) => i < k
  BY DEF ItemLists, Orders
<1>3. \A a, b \in S : <<a, b>> \in R <=> ItemsBefore(a, b)
  OBVIOUS
<1>4. \A i, k \in 1..Len(q) : <<q[i], q[k]>> \in R => i < k
  BY <1>1, <1>2, <1>3
<1> HIDE DEF R
<1>5. /\ ToSet(list) \subseteq S
      /\ \A i, k \in 1..Len(list) : i < k => <<list[k], list[i]>> \notin R
      /\ \A e \in S \ ToSet(list) :
           Len(list) = n /\ \A i \in 1..Len(list) : <<e, list[i]>> \notin R
  BY <1>1, <1>4, BeginningBest
<1>6. \A i \in 1..Len(list) : list[i] \in S
  BY <1>1, Listing, Beginning
<1> HIDE DEF list
<1>7. \A i, k \in 1..Len(list) : i < k => ~ItemsBefore(list[k], list[i])
  BY <1>3, <1>5, <1>6
<1>8. \A e \in S \ ToSet(list) : Len(list) = n /\ \A i \in 1..Len(list) : ~ItemsBefore(e, list[i])
  BY <1>3, <1>5, <1>6
<1>9. BestItems(list, S, n)
  BY <1>5, <1>7, <1>8 DEF BestItems, HoldsBest
<1>10. QED
  BY <1>9 DEF list

\* The first alerts are the critical ones.
LEMMA FirstAlerts ==
  ASSUME NEW S, IsFiniteSet(S), NEW q \in AlertLists(S), NEW n \in Nat
  PROVE  BestAlerts(FirstN(q, n), S, n)
<1> DEFINE First(a, b) == a.severity = "critical" /\ b.severity # "critical"
           R == {p \in S \X S : First(p[1], p[2])}
           list == FirstN(q, n)
<1>1. q \in SetToSeqs(S) /\ \A i \in 1..Len(q) : q[i] \in S
  BY Listed, Listing
<1>2. \A i, k \in 1..Len(q) : First(q[i], q[k]) => i < k
  BY DEF AlertLists, Orders, MoreSevere, SeverityRank
<1>3. \A a, b \in S : <<a, b>> \in R <=> First(a, b)
  OBVIOUS
<1>4. \A i, k \in 1..Len(q) : <<q[i], q[k]>> \in R => i < k
  BY <1>1, <1>2, <1>3
<1> HIDE DEF R
<1>5. /\ ToSet(list) \subseteq S
      /\ \A i, k \in 1..Len(list) : i < k => <<list[k], list[i]>> \notin R
      /\ \A e \in S \ ToSet(list) :
           Len(list) = n /\ \A i \in 1..Len(list) : <<e, list[i]>> \notin R
  BY <1>1, <1>4, BeginningBest
<1>6. \A i \in 1..Len(list) : list[i] \in S
  BY <1>1, Listing, Beginning
<1> HIDE DEF list
<1>7. \A i, k \in 1..Len(list) : i < k => ~First(list[k], list[i])
  BY <1>3, <1>5, <1>6
<1>8. \A e \in S \ ToSet(list) : Len(list) = n /\ \A i \in 1..Len(list) : ~First(e, list[i])
  BY <1>3, <1>5, <1>6
<1>9. BestAlerts(list, S, n)
  BY <1>5, <1>7, <1>8 DEF BestAlerts, HoldsBest
<1>10. QED
  BY <1>9 DEF list

-----------------------------------------------------------------------------
(***************************************************************************)
(* What the sources told.                                                  *)
(***************************************************************************)
\* Lists can be made of it, and identifiers tell the entries apart.
Told(of) ==
  \A k \in Lists :
    /\ IsFiniteSet(of[k])
    /\ \A a, b \in of[k] : a.id = b.id => a = b

Result == UNION {[source : {s}, told : Inventories[s]] : s \in Sources}

ResultsInv ==
  /\ results \in Seq(Result)
  /\ \A i, k \in 1..Len(results) : i # k => results[i].source # results[k].source

\* A result is an inventory of its source.
LEMMA ResultIs ==
  ASSUME NEW r \in Result
  PROVE  r.source \in Sources /\ r.told \in Inventories[r.source]
BY DEF Result

\* What all of them told together is finite, and their identifiers stay apart.
LEMMA JoinedTold ==
  ASSUME ResultsInv
  PROVE  Told(Joined(results))
<1> SUFFICES ASSUME NEW k \in Lists
             PROVE  /\ IsFiniteSet(Joined(results)[k])
                    /\ \A a, b \in Joined(results)[k] : a.id = b.id => a = b
  BY DEF Told
<1> DEFINE n == Len(results)
           f == [i \in 1..n |-> results[i].told[k]]
           T == {results[i].told[k] : i \in 1..n}
<1>1. Joined(results)[k] = UNION T
  BY DEF Joined
<1>2. /\ n \in Nat
      /\ \A i \in 1..n : /\ results[i] \in Result
                         /\ results[i].source \in Sources
                         /\ results[i].told \in Inventories[results[i].source]
  BY ResultIs DEF ResultsInv
<1>3. IsFiniteSet(UNION T)
  <2>1. f \in Surjection(1..n, T)
    BY DEF Surjection
  <2>2. IsFiniteSet(1..n)
    BY <1>2, FS_Interval
  <2>3. IsFiniteSet(T)
    <3> HIDE DEF f, T
    <3> QED
      BY <2>1, <2>2, FS_Surjection
  <2>4. \A U \in T : IsFiniteSet(U)
    BY <1>2
  <2>5. QED
    <3> HIDE DEF T
    <3> QED
      BY <2>3, <2>4, FS_UNION
<1>4. ASSUME NEW a \in UNION T, NEW b \in UNION T, a.id = b.id PROVE a = b
  <2>1. PICK i \in 1..n : a \in results[i].told[k]
    OBVIOUS
  <2>2. PICK j \in 1..n : b \in results[j].told[k]
    OBVIOUS
  <2>3. results[i].source # results[j].source \/ results[i].told = results[j].told
    BY DEF ResultsInv
  <2>4. QED
    BY <1>2, <1>4, <2>1, <2>2, <2>3
<1>5. QED
  BY <1>1, <1>3, <1>4

\* A source's result keeps them apart, and one enters at most once.
LEMMA ReturnsResults ==
  ASSUME ResultsInv, SourceReturns
  PROVE  ResultsInv'
<1>1. PICK s \in Sources : \E told \in Inventories[s] :
        /\ \A i \in 1..Len(results) : results[i].source # s
        /\ results' = Append(results, [source |-> s, told |-> told])
  BY DEF SourceReturns
<1>2. PICK told \in Inventories[s] :
        /\ \A i \in 1..Len(results) : results[i].source # s
        /\ results' = Append(results, [source |-> s, told |-> told])
  BY <1>1
<1> DEFINE r == [source |-> s, told |-> told]
<1>3. r \in Result /\ r.source = s
  BY DEF Result
<1> HIDE DEF r
<1>4. /\ results' \in Seq(Result) /\ Len(results') = Len(results) + 1
      /\ results'[Len(results) + 1] = r
      /\ \A i \in 1..Len(results) : results'[i] = results[i]
  BY <1>2, <1>3 DEF ResultsInv, r
<1>5. ASSUME NEW i \in 1..Len(results'), NEW k \in 1..Len(results'), i # k
      PROVE  results'[i].source # results'[k].source
  <2>1. Len(results) \in Nat
    BY DEF ResultsInv
  <2>2. CASE i = Len(results) + 1
    BY <1>2, <1>3, <1>4, <1>5, <2>1, <2>2
  <2>3. CASE k = Len(results) + 1
    BY <1>2, <1>3, <1>4, <1>5, <2>1, <2>3
  <2>4. CASE i # Len(results) + 1 /\ k # Len(results) + 1
    BY <1>4, <1>5, <2>1, <2>4 DEF ResultsInv
  <2>5. QED
    BY <2>2, <2>3, <2>4
<1>6. QED
  BY <1>4, <1>5 DEF ResultsInv

-----------------------------------------------------------------------------
(***************************************************************************)
(* The summary, counted on listings, is about the sets they list.          *)
(***************************************************************************)
\* So many entries are marked in a listing as in the set it lists.
LEMMA Counted ==
  ASSUME NEW S, IsFiniteSet(S), NEW q \in SetToSeqs(S), NEW M \in SUBSET S
  PROVE  /\ Cardinality({i \in 1..Len(q) : q[i] \in M}) = Cardinality(M)
         /\ Cardinality(M) \in Nat /\ Cardinality(M) <= Cardinality(S)
         /\ Cardinality(M) = Cardinality(S) <=> M = S
<1> DEFINE I == {i \in 1..Len(q) : q[i] \in M}
           f == [i \in I |-> q[i]]
<1>1. /\ Len(q) \in Nat
      /\ \A i, k \in 1..Len(q) : i # k => q[i] # q[k]
      /\ \A e \in S : \E i \in 1..Len(q) : q[i] = e
  BY Listing
<1>2. f \in Bijection(I, M)
  BY <1>1 DEF Bijection, Injection, Surjection, IsInjective
<1>3. IsFiniteSet(I)
  <2>1. IsFiniteSet(1..Len(q))
    BY <1>1, FS_Interval
  <2>2. QED
    BY <2>1, FS_Subset
<1> HIDE DEF I, f
<1>4. Cardinality(I) = Cardinality(M)
  BY <1>2, <1>3, FS_Bijection DEF ExistsBijection
<1>5. IsFiniteSet(M) /\ Cardinality(M) <= Cardinality(S)
      /\ (Cardinality(M) = Cardinality(S) => M = S)
  BY FS_Subset
<1>6. Cardinality(M) \in Nat
  BY <1>5, FS_CardinalityType
<1>7. QED
  BY <1>4, <1>5, <1>6 DEF I

\* The summary of what was told.
Counts(sum, all) ==
  /\ sum.alerts = Cardinality(all.alerts)
  /\ sum.hostsTotal = Cardinality(all.hosts)
  /\ sum.hostsOnline = Cardinality({h \in all.hosts : h.online})
  /\ sum.guestsRunning + sum.guestsStopped = Cardinality(all.guests)
  /\ sum.health = "ok" <=> all.alerts = {} /\ \A h \in all.hosts : h.online
  /\ (sum.health = "critical" <=> \/ \E a \in all.alerts : a.severity = "critical"
                                  \/ \E h \in all.hosts : ~h.online)

\* Finalize counts everything.
LEMMA SummaryCounts ==
  ASSUME NEW all, Told(all), NEW hosts \in HostLists(all.hosts),
         NEW guests \in GuestLists(all.guests), NEW alerts \in AlertLists(all.alerts)
  PROVE  Counts(Summary(hosts, guests, alerts), all)
<1> DEFINE up == {h \in all.hosts : h.online}
           run == {g \in all.guests : g.running}
           online == {i \in 1..Len(hosts) : hosts[i].online}
           running == {i \in 1..Len(guests) : guests[i].running}
           sum == Summary(hosts, guests, alerts)
<1>1. /\ IsFiniteSet(all.hosts) /\ IsFiniteSet(all.guests) /\ IsFiniteSet(all.alerts)
      /\ hosts \in SetToSeqs(all.hosts) /\ guests \in SetToSeqs(all.guests)
      /\ alerts \in SetToSeqs(all.alerts)
  BY Listed DEF Told, Lists
<1>2. /\ Len(hosts) = Cardinality(all.hosts) /\ Len(hosts) \in Nat
      /\ \A i \in 1..Len(hosts) : hosts[i] \in all.hosts
      /\ Len(guests) = Cardinality(all.guests) /\ Len(guests) \in Nat
      /\ \A i \in 1..Len(guests) : guests[i] \in all.guests
  BY <1>1, Listing
<1>3. /\ Len(alerts) = Cardinality(all.alerts) /\ Len(alerts) \in Nat
      /\ alerts \in Seq(all.alerts)
      /\ \A i \in 1..Len(alerts) : alerts[i] \in all.alerts
      /\ \A a \in all.alerts : \E i \in 1..Len(alerts) : alerts[i] = a
  BY <1>1, Listing
<1>4. online = {i \in 1..Len(hosts) : hosts[i] \in up}
      /\ running = {i \in 1..Len(guests) : guests[i] \in run}
  BY <1>2
<1>5. /\ Cardinality(online) = Cardinality(up) /\ Cardinality(up) \in Nat
      /\ Cardinality(up) <= Cardinality(all.hosts)
      /\ (Cardinality(up) = Cardinality(all.hosts) <=> up = all.hosts)
  <2> up \in SUBSET all.hosts
    OBVIOUS
  <2> HIDE DEF up, online
  <2>1. QED
    BY <1>1, <1>4, Counted
<1>6. Cardinality(running) = Cardinality(run) /\ Cardinality(run) \in Nat
  <2> run \in SUBSET all.guests
    OBVIOUS
  <2> HIDE DEF run, running
  <2>1. QED
    BY SMTT(20), <1>1, <1>4, Counted
<1>7. up = all.hosts <=> \A h \in all.hosts : h.online
  OBVIOUS
<1>8. Cardinality(online) < Len(hosts) <=> \E h \in all.hosts : ~h.online
  <2> HIDE DEF up, online
  <2>1. QED
    BY <1>2, <1>5, <1>7
<1>9. (\E i \in 1..Len(alerts) : alerts[i].severity = "critical")
        <=> \E a \in all.alerts : a.severity = "critical"
  BY <1>3
<1>10. alerts = <<>> <=> all.alerts = {}
  BY <1>3
<1>11. /\ sum.alerts = Len(alerts) /\ sum.hostsTotal = Len(hosts)
       /\ sum.hostsOnline = Cardinality(online)
       /\ sum.guestsRunning = Cardinality(running)
       /\ sum.guestsStopped = Len(guests) - Cardinality(running)
       /\ sum.health = IF \E i \in 1..Len(alerts) : alerts[i].severity = "critical" THEN "critical"
                       ELSE IF Cardinality(online) < Len(hosts) THEN "critical"
                       ELSE IF alerts # <<>> THEN "warning" ELSE "ok"
  BY DEF Summary
<1> HIDE DEF sum, online, running, run
<1>12. sum.guestsRunning + sum.guestsStopped = Cardinality(all.guests)
  BY <1>2, <1>6, <1>11
<1>13. /\ sum.health = "ok" <=> all.alerts = {} /\ \A h \in all.hosts : h.online
       /\ (sum.health = "critical" <=> \/ \E a \in all.alerts : a.severity = "critical"
                                       \/ \E h \in all.hosts : ~h.online)
  BY <1>8, <1>9, <1>10, <1>11
<1>14. Counts(sum, all)
  BY <1>2, <1>3, <1>5, <1>11, <1>12, <1>13 DEF Counts
<1>15. QED
  BY <1>14 DEF sum

-----------------------------------------------------------------------------
(***************************************************************************)
(* The invariant: the merged state consists of listings, cut where the     *)
(* bridge cuts them, and what the device holds is cut from such a state.   *)
(***************************************************************************)
IsState(s) ==
  s = [hosts |-> s.hosts, guests |-> s.guests, tasks |-> s.tasks, items |-> s.items,
       alerts |-> s.alerts, trend |-> s.trend, points |-> s.points, summary |-> s.summary,
       of |-> s.of]

Merged(s) ==
  /\ IsState(s)
  /\ Told(s.of)
  /\ s.hosts \in HostLists(s.of.hosts)
  /\ s.guests \in GuestLists(s.of.guests)
  /\ \E q \in TaskLists(s.of.tasks) : s.tasks = FirstN(q, MaxTasks)
  /\ \E q \in ItemLists(s.of.items) : s.items = FirstN(q, MaxItems)
  /\ s.alerts \in AlertLists(s.of.alerts)
  /\ s.points \in Nat /\ s.trend = TrendSamples(s.points)
  /\ s.summary = Summary(s.hosts, s.guests, s.alerts)

Shown(d) ==
  /\ Told(d.of)
  /\ \E hosts \in HostLists(d.of.hosts) : \E guests \in GuestLists(d.of.guests) :
       \E alerts \in AlertLists(d.of.alerts) :
         /\ d.hosts = FirstN(hosts, DeviceHosts)
         /\ d.guests = FirstN(guests, DeviceGuests)
         /\ d.alerts = FirstN(alerts, DeviceAlerts)
         /\ d.summary = Summary(hosts, guests, alerts)
  /\ \E q \in TaskLists(d.of.tasks) : d.tasks = FirstN(FirstN(q, MaxTasks), DeviceTasks)

Detailed(d) ==
  /\ Told(d.of)
  /\ \E q \in ItemLists(d.of.items) :
       d.items = FirstN(FirstN(FirstN(q, MaxItems), MaxDetailItems), DeviceItems)
  /\ d.points \in Nat /\ d.trend = FirstN(TrendSamples(d.points), Samples)

DisplayInv == ResultsInv /\ Merged(cached) /\ Shown(shown) /\ Detailed(details)

\* Nothing was told before the first collection.
LEMMA NothingListed ==
  /\ \A n \in Nat : FirstN(<<>>, n) = <<>>
  /\ <<>> \in HostLists({}) /\ <<>> \in GuestLists({}) /\ <<>> \in TaskLists({})
  /\ <<>> \in ItemLists({}) /\ <<>> \in AlertLists({})
  /\ TrendSamples(0) = <<>>
  /\ Told(None)
<1>1. \A n \in Nat : FirstN(<<>>, n) = <<>>
  BY DEF FirstN
<1>2. <<>> \in SetToSeqs({})
  BY FS_EmptySet DEF SetToSeqs
<1>3. /\ <<>> \in HostLists({}) /\ <<>> \in GuestLists({}) /\ <<>> \in TaskLists({})
      /\ <<>> \in ItemLists({}) /\ <<>> \in AlertLists({})
  BY <1>2 DEF HostLists, GuestLists, TaskLists, ItemLists, AlertLists, Orders
<1>4. TrendSamples(0) = <<>>
  <2> DEFINE f(i) == IF 0 = 1 THEN 0 ELSE (2 * (i - 1) * (0 - 1) + 0 - 1) \div (2 * (0 - 1))
  <2>1. TrendSamples(0) = [i \in 1..0 |-> f(i)]
    BY DEF TrendSamples
  <2> HIDE DEF f
  <2>2. QED
    BY <2>1
<1>5. Told(None)
  <2>1. \A k \in Lists : None[k] = {}
    BY DEF None, Lists
  <2>2. QED
    BY <2>1, FS_EmptySet DEF Told
<1>6. QED
  BY <1>1, <1>3, <1>4, <1>5

\* The state before anything was collected is one, and a device without answers
\* holds what it would be shown of it.
LEMMA InitDisplay == Init => DisplayInv
<1> SUFFICES ASSUME Init PROVE DisplayInv
  OBVIOUS
<1>1. /\ Told(None) /\ None.hosts = {} /\ None.guests = {} /\ None.tasks = {}
      /\ None.items = {} /\ None.alerts = {}
  BY NothingListed DEF None
<1>2. /\ NewState.hosts = <<>> /\ NewState.guests = <<>> /\ NewState.tasks = <<>>
      /\ NewState.items = <<>> /\ NewState.alerts = <<>> /\ NewState.trend = <<>>
      /\ NewState.points = 0 /\ NewState.summary = Summary(<<>>, <<>>, <<>>)
      /\ NewState.of = None /\ IsState(NewState)
  BY DEF NewState, IsState
<1>3. /\ NoDetails.items = <<>> /\ NoDetails.trend = <<>> /\ NoDetails.points = 0
      /\ NoDetails.of = None
  BY DEF NoDetails
<1>4. ResultsInv
  BY DEF Init, ResultsInv
<1>5. Merged(NewState)
  <2>1. <<>> = FirstN(<<>>, MaxTasks) /\ <<>> = FirstN(<<>>, MaxItems)
    BY NothingListed
  <2>2. /\ \E q \in TaskLists(None.tasks) : NewState.tasks = FirstN(q, MaxTasks)
        /\ \E q \in ItemLists(None.items) : NewState.items = FirstN(q, MaxItems)
    BY <1>1, <1>2, <2>1, NothingListed
  <2>3. /\ \E q \in TaskLists(NewState.of.tasks) : NewState.tasks = FirstN(q, MaxTasks)
        /\ \E q \in ItemLists(NewState.of.items) : NewState.items = FirstN(q, MaxItems)
    BY <1>2, <2>2
  <2>4. /\ IsState(NewState) /\ Told(NewState.of)
        /\ NewState.hosts \in HostLists(NewState.of.hosts)
        /\ NewState.guests \in GuestLists(NewState.of.guests)
        /\ NewState.alerts \in AlertLists(NewState.of.alerts)
    BY <1>1, <1>2, NothingListed
  <2>5. /\ NewState.points \in Nat /\ NewState.trend = TrendSamples(NewState.points)
        /\ NewState.summary = Summary(NewState.hosts, NewState.guests, NewState.alerts)
    BY <1>2, NothingListed
  <2>6. QED
    BY <2>3, <2>4, <2>5 DEF Merged
<1>6. Shown(NewState)
  <2>1. /\ <<>> = FirstN(<<>>, DeviceHosts) /\ <<>> = FirstN(<<>>, DeviceGuests)
        /\ <<>> = FirstN(<<>>, DeviceAlerts)
        /\ <<>> = FirstN(FirstN(<<>>, MaxTasks), DeviceTasks)
    BY NothingListed
  <2>2. /\ <<>> \in HostLists(NewState.of.hosts) /\ <<>> \in GuestLists(NewState.of.guests)
        /\ <<>> \in AlertLists(NewState.of.alerts) /\ <<>> \in TaskLists(NewState.of.tasks)
    BY <1>1, <1>2, NothingListed
  <2>3. /\ NewState.hosts = FirstN(<<>>, DeviceHosts) /\ NewState.guests = FirstN(<<>>, DeviceGuests)
        /\ NewState.alerts = FirstN(<<>>, DeviceAlerts)
        /\ NewState.tasks = FirstN(FirstN(<<>>, MaxTasks), DeviceTasks)
    BY <1>2, <2>1
  <2>4. \E q \in TaskLists(NewState.of.tasks) :
          NewState.tasks = FirstN(FirstN(q, MaxTasks), DeviceTasks)
    BY <2>2, <2>3
  <2>5. Told(NewState.of) /\ NewState.summary = Summary(<<>>, <<>>, <<>>)
    BY <1>1, <1>2
  <2>6. QED
    BY <2>2, <2>3, <2>4, <2>5 DEF Shown
<1>7. Detailed(NoDetails)
  <2>1. /\ <<>> = FirstN(FirstN(FirstN(<<>>, MaxItems), MaxDetailItems), DeviceItems)
        /\ <<>> = FirstN(TrendSamples(0), Samples)
    BY NothingListed
  <2>2. \E q \in ItemLists(None.items) :
          NoDetails.items = FirstN(FirstN(FirstN(q, MaxItems), MaxDetailItems), DeviceItems)
    BY <1>1, <1>3, <2>1, NothingListed
  <2>3. /\ Told(NoDetails.of) /\ NoDetails.points \in Nat
        /\ NoDetails.trend = FirstN(TrendSamples(NoDetails.points), Samples)
    BY <1>1, <1>3, <2>1
  <2>4. \E q \in ItemLists(NoDetails.of.items) :
          NoDetails.items = FirstN(FirstN(FirstN(q, MaxItems), MaxDetailItems), DeviceItems)
    BY <1>3, <2>2
  <2>5. QED
    BY <2>3, <2>4 DEF Detailed
<1>8. QED
  BY <1>4, <1>5, <1>6, <1>7 DEF Init, DisplayInv

\* Merging makes a state of listings.
LEMMA MergeMerges ==
  ASSUME ResultsInv, Merge
  PROVE  Merged(cached')
<1> DEFINE all == Joined(results)
           made(hosts, guests, tasks, items, alerts, n) ==
             Finalize([NewState EXCEPT
                         !.hosts = hosts, !.guests = guests,
                         !.tasks = FirstN(tasks, MaxTasks), !.items = FirstN(items, MaxItems),
                         !.alerts = alerts,
                         !.trend = TrendSamples(n),
                         !.points = n,
                         !.of = all])
<1>1. Told(all)
  BY JoinedTold
<1>2. \E hosts \in HostLists(all.hosts), guests \in GuestLists(all.guests),
         tasks \in TaskLists(all.tasks), items \in ItemLists(all.items),
         alerts \in AlertLists(all.alerts), n \in Points :
        cached' = made(hosts, guests, tasks, items, alerts, n)
  BY DEF Merge, HostLists, GuestLists, TaskLists, ItemLists, AlertLists
<1> HIDE DEF all
<1>3. ASSUME NEW hosts \in HostLists(all.hosts), NEW guests \in GuestLists(all.guests),
             NEW tasks \in TaskLists(all.tasks), NEW items \in ItemLists(all.items),
             NEW alerts \in AlertLists(all.alerts), NEW n \in Points,
             cached' = made(hosts, guests, tasks, items, alerts, n)
      PROVE  Merged(cached')
  <2>1. /\ cached'.hosts = hosts /\ cached'.guests = guests /\ cached'.alerts = alerts
        /\ cached'.tasks = FirstN(tasks, MaxTasks) /\ cached'.items = FirstN(items, MaxItems)
        /\ cached'.trend = TrendSamples(n) /\ cached'.points = n /\ cached'.of = all
        /\ cached'.summary = Summary(hosts, guests, alerts)
        /\ IsState(cached')
    BY <1>3 DEF Finalize, NewState, IsState
  <2>2. n \in Nat
    OBVIOUS
  <2>3. QED
    BY <1>1, <2>1, <2>2 DEF Merged
<1> HIDE DEF made
<1>4. QED
  BY <1>2, <1>3

\* A state, field by field: as the bridge sends it, and as the device parses it.
State(hosts, guests, tasks, items, alerts, trend, points, summary, of) ==
  [hosts |-> hosts, guests |-> guests, tasks |-> tasks, items |-> items,
   alerts |-> alerts, trend |-> trend, points |-> points, summary |-> summary, of |-> of]

LEMMA CompactIs ==
  ASSUME NEW hosts, NEW guests, NEW tasks, NEW items, NEW alerts, NEW trend, NEW points,
         NEW summary, NEW of
  PROVE  CompactForDisplay(State(hosts, guests, tasks, items, alerts, trend, points, summary, of))
           = State(hosts, guests, tasks, <<>>, alerts, <<>>, points,
                   Summary(hosts, guests, alerts), of)
<1> DEFINE s == State(hosts, guests, tasks, items, alerts, trend, points, summary, of)
           t == State(hosts, guests, tasks, <<>>, alerts, trend, points, summary, of)
           u == State(hosts, guests, tasks, <<>>, alerts, <<>>, points, summary, of)
<1>1. [s EXCEPT !.items = <<>>] = t /\ [t EXCEPT !.trend = <<>>] = u
  <2>1. [s EXCEPT !.items = <<>>] = t
    BY DEF State
  <2>2. [t EXCEPT !.trend = <<>>] = u
    BY DEF State
  <2>3. QED
    BY <2>1, <2>2
<1>2. [u EXCEPT !.summary = Summary(hosts, guests, alerts)]
        = State(hosts, guests, tasks, <<>>, alerts, <<>>, points, Summary(hosts, guests, alerts), of)
  BY DEF State
<1>3. u.hosts = hosts /\ u.guests = guests /\ u.alerts = alerts
  BY DEF State
<1> HIDE DEF s, t, u
<1>4. [s EXCEPT !.items = <<>>, !.trend = <<>>] = u
  <2>1. t = [s EXCEPT !.items = <<>>]
    BY <1>1
  <2>2. [s EXCEPT !.items = <<>>, !.trend = <<>>] = [t EXCEPT !.trend = <<>>]
    BY Zenon, <2>1
  <2>3. QED
    BY <1>1, <2>2
<1>5. CompactForDisplay(s) = [u EXCEPT !.summary = Summary(hosts, guests, alerts)]
  <2>1. CompactForDisplay(s) = Finalize(u)
    BY <1>4 DEF CompactForDisplay
  <2>2. Finalize(u) = [u EXCEPT !.summary = Summary(u.hosts, u.guests, u.alerts)]
    BY DEF Finalize
  <2>3. QED
    BY <1>3, <2>1, <2>2
<1>6. QED
  BY <1>2, <1>5 DEF s

LEMMA ParseIs ==
  ASSUME NEW hosts, NEW guests, NEW tasks, NEW items, NEW alerts, NEW trend, NEW points,
         NEW summary, NEW of
  PROVE  ParseState(State(hosts, guests, tasks, items, alerts, trend, points, summary, of))
           = State(FirstN(hosts, DeviceHosts), FirstN(guests, DeviceGuests),
                   FirstN(tasks, DeviceTasks), items, FirstN(alerts, DeviceAlerts), trend,
                   points, summary, of)
<1> DEFINE h == FirstN(hosts, DeviceHosts)
           g == FirstN(guests, DeviceGuests)
           k == FirstN(tasks, DeviceTasks)
           a == FirstN(alerts, DeviceAlerts)
           s == State(hosts, guests, tasks, items, alerts, trend, points, summary, of)
           t == State(h, guests, tasks, items, alerts, trend, points, summary, of)
           u == State(h, g, tasks, items, alerts, trend, points, summary, of)
           v == State(h, g, k, items, alerts, trend, points, summary, of)
           w == State(h, g, k, items, a, trend, points, summary, of)
<1>1. /\ [s EXCEPT !.hosts = h] = t /\ [t EXCEPT !.guests = g] = u
      /\ [u EXCEPT !.tasks = k] = v /\ [v EXCEPT !.alerts = a] = w
  <2>1. [s EXCEPT !.hosts = h] = t
    BY DEF State
  <2>2. [t EXCEPT !.guests = g] = u
    BY DEF State
  <2>3. [u EXCEPT !.tasks = k] = v
    BY DEF State
  <2>4. [v EXCEPT !.alerts = a] = w
    BY DEF State
  <2>5. QED
    BY <2>1, <2>2, <2>3, <2>4
<1>2. s.hosts = hosts /\ s.guests = guests /\ s.tasks = tasks /\ s.alerts = alerts
  BY DEF State
<1>3. ParseState(s) = [s EXCEPT !.hosts = FirstN(s.hosts, DeviceHosts),
                                !.guests = FirstN(s.guests, DeviceGuests),
                                !.tasks = FirstN(s.tasks, DeviceTasks),
                                !.alerts = FirstN(s.alerts, DeviceAlerts)]
  <2> HIDE DEF s, t, u, v, w
  <2>1. QED
    BY DEF ParseState
<1>4. ParseState(s) = [s EXCEPT !.hosts = h, !.guests = g, !.tasks = k, !.alerts = a]
  <2>1. /\ FirstN(s.hosts, DeviceHosts) = h /\ FirstN(s.guests, DeviceGuests) = g
        /\ FirstN(s.tasks, DeviceTasks) = k /\ FirstN(s.alerts, DeviceAlerts) = a
    BY <1>2
  <2> HIDE DEF h, g, k, a, s, t, u, v, w
  <2>2. QED
    BY Zenon, <1>3, <2>1
<1> HIDE DEF h, g, k, a, s, t, u, v, w
<1>5. ParseState(s) = [t EXCEPT !.guests = g, !.tasks = k, !.alerts = a]
  <2>1. t = [s EXCEPT !.hosts = h]
    BY <1>1
  <2>2. QED
    BY Zenon, <1>4, <2>1
<1>6. ParseState(s) = [u EXCEPT !.tasks = k, !.alerts = a]
  <2>1. u = [t EXCEPT !.guests = g]
    BY <1>1
  <2>2. QED
    BY Zenon, <1>5, <2>1
<1>7. ParseState(s) = [v EXCEPT !.alerts = a]
  <2>1. v = [u EXCEPT !.tasks = k]
    BY <1>1
  <2>2. QED
    BY Zenon, <1>6, <2>1
<1>8. ParseState(s) = w
  BY <1>1, <1>7
<1>9. QED
  BY <1>8 DEF s, w, h, g, k, a

\* What a device parses of the state it is sent.
LEMMA FetchShows ==
  ASSUME NEW s, Merged(s)
  PROVE  Shown(ParseState(CompactForDisplay(s)))
<1> DEFINE d == ParseState(CompactForDisplay(s))
<1>1. s = State(s.hosts, s.guests, s.tasks, s.items, s.alerts, s.trend, s.points, s.summary, s.of)
  BY DEF Merged, IsState, State
<1>2. CompactForDisplay(s) = State(s.hosts, s.guests, s.tasks, <<>>, s.alerts, <<>>, s.points,
                                   Summary(s.hosts, s.guests, s.alerts), s.of)
  BY <1>1, CompactIs
<1>3. /\ d.hosts = FirstN(s.hosts, DeviceHosts) /\ d.guests = FirstN(s.guests, DeviceGuests)
      /\ d.tasks = FirstN(s.tasks, DeviceTasks) /\ d.alerts = FirstN(s.alerts, DeviceAlerts)
      /\ d.summary = Summary(s.hosts, s.guests, s.alerts) /\ d.of = s.of
  <2>1. d = State(FirstN(s.hosts, DeviceHosts), FirstN(s.guests, DeviceGuests),
                  FirstN(s.tasks, DeviceTasks), <<>>, FirstN(s.alerts, DeviceAlerts), <<>>,
                  s.points, Summary(s.hosts, s.guests, s.alerts), s.of)
    BY <1>2, ParseIs
  <2> HIDE DEF d
  <2>2. QED
    BY <2>1 DEF State
<1> HIDE DEF d
<1>4. Shown(d)
  <2>1. \E q \in TaskLists(d.of.tasks) : d.tasks = FirstN(FirstN(q, MaxTasks), DeviceTasks)
    BY <1>3 DEF Merged
  <2>2. /\ s.hosts \in HostLists(d.of.hosts) /\ s.guests \in GuestLists(d.of.guests)
        /\ s.alerts \in AlertLists(d.of.alerts) /\ Told(d.of)
    BY <1>3 DEF Merged
  <2>3. QED
    BY <1>3, <2>1, <2>2 DEF Shown
<1>5. QED
  BY <1>4 DEF d

\* And of the details.
LEMMA FetchDetails ==
  ASSUME NEW s, Merged(s)
  PROVE  Detailed(ParseDetailState(DetailForDisplay(s)))
<1> DEFINE d == ParseDetailState(DetailForDisplay(s))
<1>1. /\ d.items = FirstN(FirstN(s.items, MaxDetailItems), DeviceItems)
      /\ d.trend = FirstN(s.trend, Samples) /\ d.points = s.points /\ d.of = s.of
  BY DEF ParseDetailState, DetailForDisplay
<1> HIDE DEF d
<1>2. Detailed(d)
  BY <1>1 DEF Detailed, Merged
<1>3. QED
  BY <1>2 DEF d

\* Every step keeps it.
LEMMA NextDisplay == DisplayInv /\ [Next]_vars => DisplayInv'
<1> SUFFICES ASSUME DisplayInv, [Next]_vars PROVE DisplayInv'
  OBVIOUS
<1>1. CASE SourceReturns
  BY <1>1, ReturnsResults DEF DisplayInv, SourceReturns
<1>2. CASE Merge
  <2>1. ResultsInv'
    BY <1>2 DEF Merge, ResultsInv
  <2>2. Merged(cached') /\ UNCHANGED <<shown, details>>
    BY <1>2, MergeMerges DEF DisplayInv, Merge
  <2>3. QED
    BY <2>1, <2>2 DEF DisplayInv
<1>3. CASE FetchState
  BY <1>3, FetchShows DEF DisplayInv, FetchState, ResultsInv
<1>4. CASE FetchDetailState
  BY <1>4, FetchDetails DEF DisplayInv, FetchDetailState, ResultsInv
<1>5. CASE UNCHANGED vars
  BY <1>5 DEF DisplayInv, vars, ResultsInv
<1>6. QED
  BY <1>1, <1>2, <1>3, <1>4, <1>5 DEF Next

LEMMA DisplayInvariant == Spec => []DisplayInv
<1>1. Init => DisplayInv
  BY InitDisplay
<1>2. DisplayInv /\ [Next]_vars => DisplayInv'
  BY NextDisplay
<1>3. QED
  BY <1>1, <1>2, PTL DEF Spec

\* Sizes are natural numbers.
LEMMA Sizes ==
  /\ MaxTasks \in Nat /\ MaxItems \in Nat /\ MaxDetailItems \in Nat /\ DeviceHosts \in Nat
  /\ DeviceGuests \in Nat /\ DeviceTasks \in Nat /\ DeviceAlerts \in Nat /\ DeviceItems \in Nat
OBVIOUS

-----------------------------------------------------------------------------
(***************************************************************************)
(* The summary.                                                            *)
(***************************************************************************)
\* The summary of a device is about everything the sources told, whatever its
\* lists have room for.
THEOREM Summarised == Spec => []SummaryOfEverything
<1>1. ASSUME DisplayInv PROVE SummaryOfEverything
  <2>1. Told(shown.of)
    BY <1>1 DEF DisplayInv, Shown
  <2>2. PICK hosts \in HostLists(shown.of.hosts) : \E guests \in GuestLists(shown.of.guests) :
               \E alerts \in AlertLists(shown.of.alerts) :
                 shown.summary = Summary(hosts, guests, alerts)
    BY <1>1 DEF DisplayInv, Shown
  <2>3. PICK guests \in GuestLists(shown.of.guests) : \E alerts \in AlertLists(shown.of.alerts) :
                 shown.summary = Summary(hosts, guests, alerts)
    BY <2>2
  <2>4. PICK alerts \in AlertLists(shown.of.alerts) :
                 shown.summary = Summary(hosts, guests, alerts)
    BY <2>3
  <2>5. Counts(shown.summary, shown.of)
    BY <2>1, <2>4, SummaryCounts
  <2>6. QED
    BY <2>5 DEF Counts, SummaryOfEverything
<1>2. DisplayInv => SummaryOfEverything
  BY <1>1
<1>3. QED
  BY <1>2, DisplayInvariant, PTL

-----------------------------------------------------------------------------
(***************************************************************************)
(* The lists.                                                              *)
(***************************************************************************)
\* The least of the three sizes that cut the storage items.
LEMMA LeastSize ==
  LET a == IF MaxDetailItems < MaxItems THEN MaxDetailItems ELSE MaxItems
  IN  Min({DeviceItems, MaxDetailItems, MaxItems}) = IF DeviceItems < a THEN DeviceItems ELSE a
<1> DEFINE a == IF MaxDetailItems < MaxItems THEN MaxDetailItems ELSE MaxItems
           m == IF DeviceItems < a THEN DeviceItems ELSE a
           T == {DeviceItems, MaxDetailItems, MaxItems}
<1>1. m \in T /\ \A y \in T : m <= y
  BY Sizes
<1>2. T \subseteq Nat
  BY Sizes
<1> HIDE DEF T, m
<1>3. \A x \in T : (\A y \in T : x <= y) => x = m
  BY <1>1, <1>2
<1>4. Min(T) = CHOOSE x \in T : \A y \in T : x <= y
  BY DEF Min
<1>5. Min(T) = m
  BY <1>1, <1>3, <1>4
<1>6. QED
  BY <1>5 DEF T, m

\* Whatever the order in which sources answer: a device shows what is most urgent.
THEOREM MostUrgent == Spec => []MostUrgentShown
<1> DEFINE least(m, n) == IF n < m THEN n ELSE m
<1>1. ASSUME DisplayInv PROVE MostUrgentShown
  <2> DEFINE all == shown.of
             told == details.of
  <2>1. /\ IsFiniteSet(all.hosts) /\ IsFiniteSet(all.guests) /\ IsFiniteSet(all.tasks)
        /\ IsFiniteSet(all.alerts) /\ IsFiniteSet(told.items)
    BY <1>1 DEF DisplayInv, Shown, Detailed, Told, Lists
  <2>2. BestHosts(shown.hosts, all.hosts, DeviceHosts)
    <3>1. PICK q \in HostLists(all.hosts) : shown.hosts = FirstN(q, DeviceHosts)
      BY <1>1 DEF DisplayInv, Shown
    <3>2. QED
      BY <2>1, <3>1, FirstHosts, Sizes
  <2>3. BestGuests(shown.guests, all.guests, DeviceGuests)
    <3>1. PICK q \in GuestLists(all.guests) : shown.guests = FirstN(q, DeviceGuests)
      BY <1>1 DEF DisplayInv, Shown
    <3>2. QED
      BY <2>1, <3>1, FirstGuests, Sizes
  <2>4. BestAlerts(shown.alerts, all.alerts, DeviceAlerts)
    <3>1. PICK q \in AlertLists(all.alerts) : shown.alerts = FirstN(q, DeviceAlerts)
      BY <1>1 DEF DisplayInv, Shown
    <3>2. QED
      BY <2>1, <3>1, FirstAlerts, Sizes
  <2>5. BestTasks(shown.tasks, all.tasks, least(MaxTasks, DeviceTasks))
    <3>1. PICK q \in TaskLists(all.tasks) : shown.tasks = FirstN(FirstN(q, MaxTasks), DeviceTasks)
      BY <1>1 DEF DisplayInv, Shown
    <3>2. q \in Seq(all.tasks)
      BY <2>1, Listed, Listing
    <3>3. shown.tasks = FirstN(q, least(MaxTasks, DeviceTasks))
      BY <3>1, <3>2, CutTwice, Sizes
    <3>4. least(MaxTasks, DeviceTasks) \in Nat
      BY Sizes
    <3> HIDE DEF least
    <3>5. QED
      BY <2>1, <3>3, <3>4, FirstTasks
  <2>6. BestItems(details.items, told.items, Min({DeviceItems, MaxDetailItems, MaxItems}))
    <3> DEFINE m == least(MaxItems, MaxDetailItems)
               n == least(m, DeviceItems)
    <3>1. PICK q \in ItemLists(told.items) :
            details.items = FirstN(FirstN(FirstN(q, MaxItems), MaxDetailItems), DeviceItems)
      BY <1>1 DEF DisplayInv, Detailed
    <3>2. q \in Seq(told.items)
      BY <2>1, Listed, Listing
    <3>3. m \in Nat /\ n \in Nat
      BY Sizes
    <3>4. FirstN(FirstN(q, MaxItems), MaxDetailItems) = FirstN(q, m)
      BY <3>2, CutTwice, Sizes
    <3>5. details.items = FirstN(FirstN(q, m), DeviceItems)
      BY <3>1, <3>4
    <3>6. n = Min({DeviceItems, MaxDetailItems, MaxItems})
      BY LeastSize
    <3> HIDE DEF m
    <3>7. details.items = FirstN(q, n)
      BY <3>2, <3>3, <3>5, CutTwice, Sizes
    <3> HIDE DEF n
    <3>8. QED
      BY <2>1, <3>3, <3>6, <3>7, FirstItems
  <2>7. QED
    BY <2>2, <2>3, <2>4, <2>5, <2>6
       DEF MostUrgentShown, BestHosts, BestGuests, BestTasks, BestAlerts, BestItems
<1>2. DisplayInv => MostUrgentShown
  BY <1>1
<1>3. QED
  BY <1>2, DisplayInvariant, PTL

\* The beginning of a listing whose identifiers are apart.
LEMMA ShortAndApart ==
  ASSUME NEW S, IsFiniteSet(S), NEW q \in SetToSeqs(S), NEW n \in Nat,
         \A a, b \in S : a.id = b.id => a = b
  PROVE  /\ Len(FirstN(q, n)) <= n
         /\ \A i, k \in 1..Len(FirstN(q, n)) : i # k => FirstN(q, n)[i].id # FirstN(q, n)[k].id
<1> DEFINE list == FirstN(q, n)
<1>1. /\ q \in Seq(S) /\ Len(q) \in Nat
      /\ \A i \in 1..Len(q) : q[i] \in S
      /\ \A i, k \in 1..Len(q) : i # k => q[i] # q[k]
  BY Listing
<1>2. /\ Len(list) = IF Len(q) < n THEN Len(q) ELSE n
      /\ \A i \in 1..Len(list) : i \in 1..Len(q) /\ list[i] = q[i]
  BY <1>1, Beginning
<1> HIDE DEF list
<1>3. Len(list) <= n /\ \A i, k \in 1..Len(list) : i # k => list[i].id # list[k].id
  BY <1>1, <1>2
<1>4. QED
  BY <1>3 DEF list

\* The lists of a device have room for what is in them, and nothing is in twice.
THEOREM DeviceTypeCorrect == Spec => []TypeOK
<1> DEFINE Apart(q) == \A i, k \in 1..Len(q) : i # k => q[i].id # q[k].id
<1>1. ASSUME DisplayInv PROVE TypeOK
  <2> DEFINE all == shown.of
             told == details.of
  <2>1. /\ IsFiniteSet(all.hosts) /\ \A a, b \in all.hosts : a.id = b.id => a = b
        /\ IsFiniteSet(all.guests) /\ \A a, b \in all.guests : a.id = b.id => a = b
        /\ IsFiniteSet(all.tasks) /\ \A a, b \in all.tasks : a.id = b.id => a = b
        /\ IsFiniteSet(all.alerts) /\ \A a, b \in all.alerts : a.id = b.id => a = b
        /\ IsFiniteSet(told.items) /\ \A a, b \in told.items : a.id = b.id => a = b
    BY <1>1 DEF DisplayInv, Shown, Detailed, Told, Lists
  <2>2. Len(shown.hosts) <= DeviceHosts /\ Apart(shown.hosts)
    <3>1. PICK q \in HostLists(all.hosts) : shown.hosts = FirstN(q, DeviceHosts)
      BY <1>1 DEF DisplayInv, Shown
    <3>2. QED
      BY <2>1, <3>1, Listed, ShortAndApart, Sizes
  <2>3. Len(shown.guests) <= DeviceGuests /\ Apart(shown.guests)
    <3>1. PICK q \in GuestLists(all.guests) : shown.guests = FirstN(q, DeviceGuests)
      BY <1>1 DEF DisplayInv, Shown
    <3>2. QED
      BY <2>1, <3>1, Listed, ShortAndApart, Sizes
  <2>4. Len(shown.alerts) <= DeviceAlerts /\ Apart(shown.alerts)
    <3>1. PICK q \in AlertLists(all.alerts) : shown.alerts = FirstN(q, DeviceAlerts)
      BY <1>1 DEF DisplayInv, Shown
    <3>2. QED
      BY <2>1, <3>1, Listed, ShortAndApart, Sizes
  <2>5. Len(shown.tasks) <= DeviceTasks /\ Apart(shown.tasks)
    <3> DEFINE m == IF DeviceTasks < MaxTasks THEN DeviceTasks ELSE MaxTasks
    <3>1. PICK q \in TaskLists(all.tasks) : shown.tasks = FirstN(FirstN(q, MaxTasks), DeviceTasks)
      BY <1>1 DEF DisplayInv, Shown
    <3>2. q \in SetToSeqs(all.tasks) /\ q \in Seq(all.tasks)
      BY <2>1, Listed, Listing
    <3>3. shown.tasks = FirstN(q, m)
      BY <3>1, <3>2, CutTwice, Sizes
    <3>4. m \in Nat /\ m <= DeviceTasks
      BY Sizes
    <3> HIDE DEF m
    <3>5. Len(shown.tasks) <= m /\ Apart(shown.tasks)
      BY <2>1, <3>2, <3>3, <3>4, ShortAndApart
    <3>6. Len(shown.tasks) \in Nat
      BY <3>2, <3>3, <3>4, Beginning
    <3>7. QED
      BY <3>4, <3>5, <3>6, Sizes
  <2>6. Len(details.items) <= DeviceItems /\ Apart(details.items)
    <3> DEFINE m == IF MaxDetailItems < MaxItems THEN MaxDetailItems ELSE MaxItems
               n == IF DeviceItems < m THEN DeviceItems ELSE m
    <3>1. PICK q \in ItemLists(told.items) :
            details.items = FirstN(FirstN(FirstN(q, MaxItems), MaxDetailItems), DeviceItems)
      BY <1>1 DEF DisplayInv, Detailed
    <3>2. q \in SetToSeqs(told.items) /\ q \in Seq(told.items)
      BY <2>1, Listed, Listing
    <3>3. m \in Nat /\ n \in Nat /\ n <= DeviceItems
      BY Sizes
    <3>4. details.items = FirstN(FirstN(q, m), DeviceItems)
      BY <3>1, <3>2, CutTwice, Sizes
    <3> HIDE DEF m
    <3>5. details.items = FirstN(q, n)
      BY <3>2, <3>3, <3>4, CutTwice, Sizes
    <3> HIDE DEF n
    <3>6. Len(details.items) <= n /\ Apart(details.items)
      BY <2>1, <3>2, <3>3, <3>5, ShortAndApart
    <3>7. Len(details.items) \in Nat
      BY <3>2, <3>3, <3>5, Beginning
    <3>8. QED
      BY <3>3, <3>6, <3>7, Sizes
  <2>7. \A q \in {shown.hosts, shown.guests, shown.tasks, shown.alerts, details.items} : Apart(q)
    <3> HIDE DEF Apart
    <3>1. QED
      BY <2>2, <2>3, <2>4, <2>5, <2>6
  <2>8. QED
    BY <2>2, <2>3, <2>4, <2>5, <2>6, <2>7 DEF TypeOK
<1>2. DisplayInv => TypeOK
  BY <1>1
<1>3. QED
  BY <1>2, DisplayInvariant, PTL

-----------------------------------------------------------------------------
(***************************************************************************)
(* The trend.                                                              *)
(***************************************************************************)
\* Division leaves a remainder below the divisor.
LEMMA Divided ==
  ASSUME NEW a \in Nat, NEW b \in Nat \ {0}
  PROVE  /\ a \div b \in Nat /\ b * (a \div b) \in Nat
         /\ b * (a \div b) <= a /\ a < b * (a \div b) + b
OBVIOUS

\* The next multiple is a whole divisor further.
LEMMA NextMultiple ==
  ASSUME NEW b \in Nat, NEW p \in Nat, NEW q \in Nat, q + 1 <= p
  PROVE  b * p \in Nat /\ b * q \in Nat /\ b * q + b <= b * p
<1>1. PICK e \in Nat : p = (q + 1) + e
  <2>1. p - (q + 1) \in Nat /\ p = (q + 1) + (p - (q + 1))
    OBVIOUS
  <2>2. QED
    BY <2>1
<1>2. b * e \in Nat /\ b * p \in Nat /\ b * q \in Nat
  OBVIOUS
<1>3. b * p = b * q + b + b * e
  BY <1>1
<1>4. QED
  BY <1>2, <1>3

\* Adding a number adds its quotient to the quotient, or one more.
LEMMA QuotientAdds ==
  ASSUME NEW a \in Nat, NEW x \in Nat, NEW b \in Nat \ {0}
  PROVE  (a + x) \div b \in {a \div b + x \div b, a \div b + x \div b + 1}
<1> DEFINE k == a \div b
           q == x \div b
           r == (a + x) \div b
<1>1. k \in Nat /\ b * k \in Nat /\ b * k <= a /\ a < b * k + b
  BY Divided
<1>2. q \in Nat /\ b * q \in Nat /\ b * q <= x /\ x < b * q + b
  BY Divided
<1>3. r \in Nat /\ b * r \in Nat /\ b * r <= a + x /\ a + x < b * r + b
  <2>1. a + x \in Nat
    OBVIOUS
  <2>2. QED
    BY <2>1, Divided
<1> HIDE DEF k, q, r
<1>4. b * (k + q) = b * k + b * q /\ b * (k + q + 1) = b * k + b * q + b
  BY <1>1, <1>2
<1>5. ~(r + 1 <= k + q)
  <2>1. SUFFICES ASSUME r + 1 <= k + q PROVE FALSE
    OBVIOUS
  <2>2. b * r + b <= b * (k + q)
    BY <1>1, <1>2, <1>3, <2>1, NextMultiple
  <2>3. QED
    BY <1>1, <1>2, <1>3, <1>4, <2>2
<1>6. ~((k + q + 1) + 1 <= r)
  <2>1. SUFFICES ASSUME (k + q + 1) + 1 <= r PROVE FALSE
    OBVIOUS
  <2>2. b * (k + q + 1) + b <= b * r
    BY <1>1, <1>2, <1>3, <2>1, NextMultiple
  <2>3. QED
    BY <1>1, <1>2, <1>3, <1>4, <2>2
<1>7. r \in {k + q, k + q + 1}
  BY <1>1, <1>2, <1>3, <1>5, <1>6
<1>8. QED
  BY <1>7 DEF k, q, r

\* A multiple and a remainder determine the quotient.
LEMMA QuotientIs ==
  ASSUME NEW b \in Nat \ {0}, NEW q \in Nat, NEW r \in Nat, r < b
  PROVE  (b * q + r) \div b = q
<1> DEFINE a == b * q + r
           k == a \div b
<1>1. b * q \in Nat /\ a \in Nat
  OBVIOUS
<1>2. k \in Nat /\ b * k \in Nat /\ b * k <= a /\ a < b * k + b
  <2> HIDE DEF a
  <2>1. QED
    BY <1>1, Divided
<1> HIDE DEF k
<1>3. ~(k + 1 <= q)
  <2>1. SUFFICES ASSUME k + 1 <= q PROVE FALSE
    OBVIOUS
  <2>2. b * k + b <= b * q
    BY <1>2, <2>1, NextMultiple
  <2>3. QED
    BY <1>1, <1>2, <2>2
<1>4. ~(q + 1 <= k)
  <2>1. SUFFICES ASSUME q + 1 <= k PROVE FALSE
    OBVIOUS
  <2>2. b * q + b <= b * k
    BY <1>2, <2>1, NextMultiple
  <2>3. QED
    BY <1>1, <1>2, <2>2
<1>5. k = q
  BY <1>2, <1>3, <1>4
<1>6. QED
  BY <1>5 DEF k, a

\* Which points of n are kept.
Kept(n) == IF n < Samples THEN n ELSE Samples

LEMMA TrendIs ==
  ASSUME NEW n \in Nat
  PROVE  LET kept == TrendSamples(n)
             c == Kept(n)
         IN  /\ c \in Nat /\ c <= n /\ kept \in Seq(Int) /\ Len(kept) = c
             /\ FirstN(kept, Samples) = kept
             /\ \A i \in 1..c : kept[i] = IF c = 1 THEN 0
                                          ELSE (2 * (i - 1) * (n - 1) + c - 1) \div (2 * (c - 1))
<1> DEFINE c == Kept(n)
           f(i) == IF c = 1 THEN 0 ELSE (2 * (i - 1) * (n - 1) + c - 1) \div (2 * (c - 1))
           kept == TrendSamples(n)
<1>1. c \in Nat /\ c <= n /\ c <= Samples
  BY DEF Kept
<1>2. kept = [i \in 1..c |-> f(i)]
  BY DEF TrendSamples, Kept
<1>3. \A i \in 1..c : f(i) \in Int
  <2>1. SUFFICES ASSUME NEW i \in 1..c, c # 1
                 PROVE (2 * (i - 1) * (n - 1) + c - 1) \div (2 * (c - 1)) \in Int
    OBVIOUS
  <2>2. c - 1 \in Nat \ {0} /\ i - 1 \in Nat /\ n - 1 \in Nat
    BY <1>1, <2>1
  <2>3. 2 * (c - 1) \in Nat \ {0}
    BY <1>1, <2>2
  <2>4. 2 * (i - 1) \in Nat
    BY <2>2
  <2>5. 2 * (i - 1) * (n - 1) \in Nat
    BY <2>2, <2>4
  <2>6. 2 * (i - 1) * (n - 1) + c - 1 \in Nat
    BY <2>2, <2>5
  <2>7. QED
    BY <2>3, <2>6, Divided
<1> HIDE DEF f, c, kept
<1>4. kept \in Seq(Int) /\ Len(kept) = c /\ \A i \in 1..c : kept[i] = f(i)
  BY <1>1, <1>2, <1>3
<1>5. FirstN(kept, Samples) = kept
  BY <1>1, <1>4 DEF FirstN
<1>6. QED
  BY <1>1, <1>4, <1>5 DEF f, c, kept

\* The samples of two points or more: steps of a whole number of points, or one
\* more, from the first to the last.
LEMMA TrendSteps ==
  ASSUME NEW n \in Nat, n > 1
  PROVE  LET kept == TrendSamples(n)
             c == Kept(n)
         IN  /\ kept[1] = 0 /\ kept[c] = n - 1
             /\ \E q \in Nat \ {0} : \A i \in 1..(c - 1) :
                  kept[i] \in Nat /\ kept[i + 1] \in {kept[i] + q, kept[i] + q + 1}
<1> DEFINE c == Kept(n)
           h == c - 1
           b == 2 * h
           d == n - 1
           kept == TrendSamples(n)
           x == 2 * d
           q == x \div b
<1>1. c \in Nat /\ c > 1 /\ h \in Nat \ {0} /\ d \in Nat /\ h <= d
  BY DEF Kept
<1>2. \A i \in 1..c : kept[i] = (2 * (i - 1) * d + h) \div b
  <2>1. \A i \in 1..c : kept[i] = (2 * (i - 1) * (n - 1) + c - 1) \div (2 * (c - 1))
    BY <1>1, TrendIs
  <2>2. ASSUME NEW i \in 1..c
        PROVE  2 * (i - 1) * (n - 1) + c - 1 = 2 * (i - 1) * d + h
    <3>1. 2 * (i - 1) * (n - 1) \in Int
      <4>1. 2 * (i - 1) \in Int /\ n - 1 \in Int
        BY <1>1
      <4>2. QED
        BY <4>1
    <3>2. QED
      BY <1>1, <3>1
  <2>3. QED
    BY <2>1, <2>2
<1> HIDE DEF kept, c
<1>3. b \in Nat \ {0} /\ h < b /\ x \in Nat /\ b <= x
  BY <1>1
<1> HIDE DEF h, d
<1>4. kept[1] = 0
  <2>1. 2 * (1 - 1) * d + h = b * 0 + h
    BY <1>1
  <2>2. (b * 0 + h) \div b = 0
    BY <1>1, <1>3, QuotientIs
  <2>3. QED
    BY <1>1, <1>2, <2>1, <2>2
<1>5. kept[c] = d
  <2>1. 2 * (c - 1) * d + h = b * d + h
    BY <1>1 DEF h
  <2>2. (b * d + h) \div b = d
    BY <1>1, <1>3, QuotientIs
  <2>3. QED
    BY <1>1, <1>2, <2>1, <2>2
<1>6. q \in Nat \ {0}
  <2>1. q \in Nat /\ b * q \in Nat /\ x < b * q + b
    BY <1>3, Divided
  <2>2. q # 0
    <3>1. SUFFICES ASSUME q = 0 PROVE FALSE
      OBVIOUS
    <3>2. b * q = 0
      BY <1>3, <3>1
    <3> HIDE DEF b, x, q
    <3>3. QED
      BY <1>3, <2>1, <3>2
  <2>3. QED
    BY <2>1, <2>2
<1>7. ASSUME NEW i \in 1..(c - 1)
      PROVE  kept[i] \in Nat /\ kept[i + 1] \in {kept[i] + q, kept[i] + q + 1}
  <2> DEFINE a == 2 * (i - 1) * d + h
  <2>1. i \in 1..c /\ i + 1 \in 1..c /\ i - 1 \in Nat
    BY <1>1
  <2>2. (i - 1) * d \in Nat /\ 2 * (i - 1) * d = 2 * ((i - 1) * d)
    BY <1>1, <2>1
  <2>3. a \in Nat
    BY <1>1, <2>2
  <2>4. 2 * ((i + 1) - 1) * d + h = a + x
    BY <1>1, <2>1
  <2>5. kept[i] = a \div b /\ kept[i + 1] = (a + x) \div b
    <3>1. kept[i + 1] = (2 * ((i + 1) - 1) * d + h) \div b
      BY <1>2, <2>1
    <3>2. QED
      BY <1>2, <2>1, <2>4, <3>1
  <2> HIDE DEF a, b, x
  <2>6. a \div b \in Nat
    BY <1>3, <2>3, Divided
  <2>7. (a + x) \div b \in {a \div b + q, a \div b + q + 1}
    BY <1>3, <2>3, QuotientAdds
  <2>8. QED
    BY <2>5, <2>6, <2>7
<1> HIDE DEF q
<1>8. \E p \in Nat \ {0} : \A i \in 1..(c - 1) :
         kept[i] \in Nat /\ kept[i + 1] \in {kept[i] + p, kept[i] + p + 1}
  BY <1>6, <1>7
<1>9. QED
  BY <1>4, <1>5, <1>8 DEF kept, c, d

\* A trend keeps the first and the last point, in order and none twice, is as long
\* as it may be, and its steps differ by one point at most.
THEOREM TrendSpans == Spec => []TrendSpansAll
<1>1. ASSUME DisplayInv PROVE TrendSpansAll
  <2> DEFINE n == details.points
             kept == details.trend
             c == Kept(n)
  <2>1. n \in Nat /\ kept = FirstN(TrendSamples(n), Samples)
    BY <1>1 DEF DisplayInv, Detailed
  <2>2. /\ c \in Nat /\ c <= n /\ Len(kept) = c /\ kept = TrendSamples(n)
        /\ \A i \in 1..c : c = 1 => kept[i] = 0
    BY <2>1, TrendIs
  <2>3. Samples \in Nat /\ Samples > 1 /\ (n > 0 => c > 0) /\ (n <= 1 => c = n)
    BY <2>1 DEF Kept
  <2>4. n > 1 => /\ kept[1] = 0 /\ kept[c] = n - 1
                 /\ \E q \in Nat \ {0} : \A i \in 1..(c - 1) :
                      kept[i] \in Nat /\ kept[i + 1] \in {kept[i] + q, kept[i] + q + 1}
    BY <2>1, <2>2, TrendSteps
  <2>5. Len(kept) = IF n < Samples THEN n ELSE Samples
    BY <2>2 DEF Kept
  <2> HIDE DEF c, kept, n
  <2>6. n > 0 => kept[1] = 0
    <3>1. CASE n = 1
      BY <2>2, <2>3, <3>1
    <3>2. CASE n # 1
      BY <2>1, <2>4, <3>2
    <3>3. QED
      BY <3>1, <3>2
  <2>7. n > 1 => kept[Len(kept)] = n - 1
    BY <2>2, <2>4
  <2>8. /\ \A i \in 1..(Len(kept) - 1) : kept[i] < kept[i + 1]
        /\ \A i, k \in 1..(Len(kept) - 1) : (kept[i + 1] - kept[i]) - (kept[k + 1] - kept[k]) <= 1
    <3>1. CASE n <= 1
      <4>1. 1..(Len(kept) - 1) = {}
        BY <2>1, <2>2, <2>3, <3>1
      <4>2. QED
        BY <4>1
    <3>2. CASE n > 1
      <4>1. PICK q \in Nat \ {0} : \A i \in 1..(c - 1) :
                kept[i] \in Nat /\ kept[i + 1] \in {kept[i] + q, kept[i] + q + 1}
        BY <2>4, <3>2
      <4>2. \A i \in 1..(c - 1) : kept[i + 1] - kept[i] \in {q, q + 1} /\ kept[i] < kept[i + 1]
        BY <4>1
      <4>3. QED
        BY <2>2, <4>2
    <3>3. QED
      BY <2>1, <3>1, <3>2
  <2>9. QED
    BY <2>5, <2>6, <2>7, <2>8 DEF TrendSpansAll, kept, n
<1>2. DisplayInv => TrendSpansAll
  BY <1>1
<1>3. QED
  BY <1>2, DisplayInvariant, PTL

-----------------------------------------------------------------------------
(***************************************************************************)
(* That there is a sorted listing of whatever was told.                    *)
(***************************************************************************)
\* Every finite set has a listing in a given strict order of its entries: an entry
\* comes after as many as are before it.
LEMMA Ranked ==
  ASSUME NEW S, IsFiniteSet(S), NEW R,
         \A a \in S : <<a, a>> \notin R,
         \A a, b, c \in S : <<a, b>> \in R /\ <<b, c>> \in R => <<a, c>> \in R,
         \A a, b \in S : a # b => <<a, b>> \in R \/ <<b, a>> \in R
  PROVE  \E q \in SetToSeqs(S) : \A i, k \in 1..Len(q) : <<q[i], q[k]>> \in R => i < k
<1> DEFINE before(x) == {y \in S : <<y, x>> \in R}
           rank == [x \in S |-> Cardinality(before(x)) + 1]
           n == Cardinality(S)
           D == 1..n
<1>1. n \in Nat
  BY FS_CardinalityType
<1>2. ASSUME NEW x \in S
      PROVE  IsFiniteSet(before(x)) /\ Cardinality(before(x)) \in Nat /\ Cardinality(before(x)) < n
  <2>1. before(x) \subseteq S /\ before(x) # S
    OBVIOUS
  <2> HIDE DEF before
  <2>2. IsFiniteSet(before(x)) /\ Cardinality(before(x)) <= n /\ Cardinality(before(x)) # n
    BY <2>1, FS_Subset
  <2>3. QED
    BY <1>1, <2>2, FS_CardinalityType
<1>3. ASSUME NEW x \in S, NEW y \in S, <<x, y>> \in R
      PROVE  Cardinality(before(x)) < Cardinality(before(y))
  <2>1. before(x) \subseteq before(y) /\ x \in before(y) /\ x \notin before(x)
    BY <1>3
  <2>2. before(x) # before(y)
    BY <2>1
  <2> HIDE DEF before
  <2>3. Cardinality(before(x)) <= Cardinality(before(y))
        /\ Cardinality(before(x)) # Cardinality(before(y))
    BY <1>2, <2>1, <2>2, FS_Subset
  <2>4. QED
    BY <1>2, <2>3
<1> HIDE DEF before, n
<1>4. rank \in [S -> D] /\ \A x, y \in S : <<x, y>> \in R => rank[x] < rank[y]
  BY <1>1, <1>2, <1>3
<1> HIDE DEF rank
<1>5. \A x, y \in S : x # y => rank[x] # rank[y]
  <2>1. SUFFICES ASSUME NEW x \in S, NEW y \in S, x # y PROVE rank[x] # rank[y]
    OBVIOUS
  <2>2. rank[x] \in Nat /\ rank[y] \in Nat
    BY <1>1, <1>4
  <2>3. <<x, y>> \in R \/ <<y, x>> \in R
    BY <2>1
  <2>4. rank[x] < rank[y] \/ rank[y] < rank[x]
    BY <1>4, <2>3
  <2>5. QED
    BY <2>2, <2>4
<1>6. rank \in Injection(S, D)
  BY <1>4, <1>5 DEF Injection, IsInjective
<1>7. IsFiniteSet(D) /\ Cardinality(D) = n
  BY <1>1, FS_Interval
<1>8. rank \in Surjection(S, D)
  <2>1. Cardinality(S) = Cardinality(D)
    BY <1>7 DEF n
  <2> HIDE DEF D
  <2>2. QED
    BY <1>6, <1>7, <2>1, FS_Injection
<1>9. \A i \in D : \E x \in S : rank[x] = i
  BY <1>8 DEF Surjection
<1> DEFINE q == [i \in D |-> CHOOSE x \in S : rank[x] = i]
<1>10. \A i \in D : q[i] \in S /\ rank[q[i]] = i
  BY <1>9
<1>11. q \in [D -> S]
  BY <1>10
<1>12. \A i, k \in D : i # k => q[i] # q[k]
  BY <1>10
<1> HIDE DEF q
<1>13. q \in SetToSeqs(S)
  BY <1>11, <1>12 DEF SetToSeqs, n
<1>14. Len(q) = n
  BY <1>1, <1>11
<1>15. \A i, k \in 1..Len(q) : <<q[i], q[k]>> \in R => i < k
  BY <1>4, <1>10, <1>14
<1>16. QED
  BY <1>13, <1>15

\* Hosts can be sorted.
LEMMA SortedHosts ==
  ASSUME NEW S \in SUBSET Host, IsFiniteSet(S), \A a, b \in S : a.id = b.id => a = b
  PROVE  \E q : q \in HostLists(S)
<1> DEFINE First(a, b) == ById(a, b)
           R == {p \in S \X S : First(p[1], p[2])}
<1>1. \A a, b \in S : <<a, b>> \in R <=> First(a, b)
  OBVIOUS
<1>2. \A a \in S : ~First(a, a)
  BY DEF ById, Host
<1>3. \A a, b, c \in S : First(a, b) /\ First(b, c) => First(a, c)
  BY DEF ById, Host
<1>4. \A a, b \in S : a # b => First(a, b) \/ First(b, a)
  BY DEF ById, Host
<1> HIDE DEF R, First
<1>5. \E q \in SetToSeqs(S) : \A i, k \in 1..Len(q) : <<q[i], q[k]>> \in R => i < k
  BY <1>1, <1>2, <1>3, <1>4, Ranked
<1>6. PICK q \in SetToSeqs(S) : \A i, k \in 1..Len(q) : <<q[i], q[k]>> \in R => i < k
  BY <1>5
<1>7. \A i \in 1..Len(q) : q[i] \in S
  BY Listing
<1>8. \A i, k \in 1..Len(q) : First(q[i], q[k]) => i < k
  BY <1>1, <1>6, <1>7
<1>9. q \in HostLists(S)
  BY <1>8 DEF First, HostLists, Orders
<1>10. QED
  BY <1>9

\* Guests can be sorted.
LEMMA SortedGuests ==
  ASSUME NEW S \in SUBSET Guest, IsFiniteSet(S), \A a, b \in S : a.id = b.id => a = b
  PROVE  \E q : q \in GuestLists(S)
<1> DEFINE First(a, b) == GuestsBefore(a, b)
           R == {p \in S \X S : First(p[1], p[2])}
<1>1. \A a, b \in S : <<a, b>> \in R <=> First(a, b)
  OBVIOUS
<1>2. \A a \in S : ~First(a, a)
  BY DEF GuestsBefore, Guest
<1>3. \A a, b, c \in S : First(a, b) /\ First(b, c) => First(a, c)
  BY DEF GuestsBefore, Guest
<1>4. \A a, b \in S : a # b => First(a, b) \/ First(b, a)
  BY DEF GuestsBefore, Guest
<1> HIDE DEF R, First
<1>5. \E q \in SetToSeqs(S) : \A i, k \in 1..Len(q) : <<q[i], q[k]>> \in R => i < k
  BY <1>1, <1>2, <1>3, <1>4, Ranked
<1>6. PICK q \in SetToSeqs(S) : \A i, k \in 1..Len(q) : <<q[i], q[k]>> \in R => i < k
  BY <1>5
<1>7. \A i \in 1..Len(q) : q[i] \in S
  BY Listing
<1>8. \A i, k \in 1..Len(q) : First(q[i], q[k]) => i < k
  BY <1>1, <1>6, <1>7
<1>9. q \in GuestLists(S)
  BY <1>8 DEF First, GuestLists, Orders
<1>10. QED
  BY <1>9

\* Tasks can be sorted.
LEMMA SortedTasks ==
  ASSUME NEW S \in SUBSET Task, IsFiniteSet(S), \A a, b \in S : a.id = b.id => a = b
  PROVE  \E q : q \in TaskLists(S)
<1> DEFINE First(a, b) == TasksBefore(a, b)
           R == {p \in S \X S : First(p[1], p[2])}
<1>1. \A a, b \in S : <<a, b>> \in R <=> First(a, b)
  OBVIOUS
<1>2. \A a \in S : ~First(a, a)
  BY DEF TasksBefore, Task
<1>3. \A a, b, c \in S : First(a, b) /\ First(b, c) => First(a, c)
  BY DEF TasksBefore, Task
<1>4. \A a, b \in S : a # b => First(a, b) \/ First(b, a)
  BY DEF TasksBefore, Task
<1> HIDE DEF R, First
<1>5. \E q \in SetToSeqs(S) : \A i, k \in 1..Len(q) : <<q[i], q[k]>> \in R => i < k
  BY <1>1, <1>2, <1>3, <1>4, Ranked
<1>6. PICK q \in SetToSeqs(S) : \A i, k \in 1..Len(q) : <<q[i], q[k]>> \in R => i < k
  BY <1>5
<1>7. \A i \in 1..Len(q) : q[i] \in S
  BY Listing
<1>8. \A i, k \in 1..Len(q) : First(q[i], q[k]) => i < k
  BY <1>1, <1>6, <1>7
<1>9. q \in TaskLists(S)
  BY <1>8 DEF First, TaskLists, Orders
<1>10. QED
  BY <1>9

\* Items can be sorted.
LEMMA SortedItems ==
  ASSUME NEW S \in SUBSET Item, IsFiniteSet(S), \A a, b \in S : a.id = b.id => a = b
  PROVE  \E q : q \in ItemLists(S)
<1> DEFINE First(a, b) == ItemsBefore(a, b)
           R == {p \in S \X S : First(p[1], p[2])}
<1>1. \A a, b \in S : <<a, b>> \in R <=> First(a, b)
  OBVIOUS
<1>2. \A a \in S : ~First(a, a)
  BY DEF ItemsBefore, Item
<1>3. \A a, b, c \in S : First(a, b) /\ First(b, c) => First(a, c)
  BY DEF ItemsBefore, Item
<1>4. \A a, b \in S : a # b => First(a, b) \/ First(b, a)
  BY DEF ItemsBefore, Item
<1> HIDE DEF R, First
<1>5. \E q \in SetToSeqs(S) : \A i, k \in 1..Len(q) : <<q[i], q[k]>> \in R => i < k
  BY <1>1, <1>2, <1>3, <1>4, Ranked
<1>6. PICK q \in SetToSeqs(S) : \A i, k \in 1..Len(q) : <<q[i], q[k]>> \in R => i < k
  BY <1>5
<1>7. \A i \in 1..Len(q) : q[i] \in S
  BY Listing
<1>8. \A i, k \in 1..Len(q) : First(q[i], q[k]) => i < k
  BY <1>1, <1>6, <1>7
<1>9. q \in ItemLists(S)
  BY <1>8 DEF First, ItemLists, Orders
<1>10. QED
  BY <1>9

\* Alerts can be sorted.
LEMMA SortedAlerts ==
  ASSUME NEW S \in SUBSET Alert, IsFiniteSet(S), \A a, b \in S : a.id = b.id => a = b
  PROVE  \E q : q \in AlertLists(S)
<1> DEFINE First(a, b) == MoreSevere(a, b) \/ (SeverityRank(a) = SeverityRank(b) /\ a.id < b.id)
           R == {p \in S \X S : First(p[1], p[2])}
<1>1. \A a, b \in S : <<a, b>> \in R <=> First(a, b)
  OBVIOUS
<1>2. \A a \in S : ~First(a, a)
  BY DEF MoreSevere, SeverityRank, Alert
<1>3. \A a, b, c \in S : First(a, b) /\ First(b, c) => First(a, c)
  BY DEF MoreSevere, SeverityRank, Alert
<1>4. \A a, b \in S : a # b => First(a, b) \/ First(b, a)
  BY DEF MoreSevere, SeverityRank, Alert
<1> HIDE DEF R, First
<1>5. \E q \in SetToSeqs(S) : \A i, k \in 1..Len(q) : <<q[i], q[k]>> \in R => i < k
  BY <1>1, <1>2, <1>3, <1>4, Ranked
<1>6. PICK q \in SetToSeqs(S) : \A i, k \in 1..Len(q) : <<q[i], q[k]>> \in R => i < k
  BY <1>5
<1>7. \A i \in 1..Len(q) : q[i] \in S
  BY Listing
<1>8. \A i, k \in 1..Len(q) : First(q[i], q[k]) => i < k
  BY <1>1, <1>6, <1>7
<1>9. q \in AlertLists(S)
  BY <1>8 DEF First, AlertLists, Orders
<1>10. QED
  BY <1>9

\* What can be merged.
Sortable ==
  LET all == Joined(results)
  IN  \E hosts \in Orders(all.hosts, ById), guests \in Orders(all.guests, GuestsBefore),
         tasks \in Orders(all.tasks, TasksBefore), items \in Orders(all.items, ItemsBefore),
         alerts \in Orders(all.alerts, MoreSevere) : TRUE

\* Whatever the sources have told, all of it can be sorted: Merge waits for the
\* last source and for nothing else.
THEOREM AlwaysSortable == Spec => []Sortable
<1>1. ASSUME ResultsInv PROVE Sortable
  <2> DEFINE all == Joined(results)
  <2>1. /\ IsFiniteSet(all.hosts) /\ \A a, b \in all.hosts : a.id = b.id => a = b
        /\ IsFiniteSet(all.guests) /\ \A a, b \in all.guests : a.id = b.id => a = b
        /\ IsFiniteSet(all.tasks) /\ \A a, b \in all.tasks : a.id = b.id => a = b
        /\ IsFiniteSet(all.items) /\ \A a, b \in all.items : a.id = b.id => a = b
        /\ IsFiniteSet(all.alerts) /\ \A a, b \in all.alerts : a.id = b.id => a = b
    <3>1. Told(all)
      BY <1>1, JoinedTold
    <3> HIDE DEF all
    <3>2. QED
      BY <3>1 DEF Told, Lists
  <2>2. /\ all.hosts \subseteq Host /\ all.guests \subseteq Guest /\ all.tasks \subseteq Task
        /\ all.items \subseteq Item /\ all.alerts \subseteq Alert
    <3>1. \A i \in 1..Len(results) : results[i].told \in Inventory
      <4>1. \A i \in 1..Len(results) : results[i] \in Result
        BY <1>1 DEF ResultsInv
      <4>2. \A i \in 1..Len(results) :
              results[i].source \in Sources /\ results[i].told \in Inventories[results[i].source]
        BY <4>1, ResultIs
      <4>3. \A s \in Sources : \A t \in Inventories[s] : t \in Inventory
        <5>1. Inventories \in [Sources -> SUBSET Inventory]
          BY DisplayAssumption
        <5> HIDE DisplayAssumption
        <5>2. QED
          BY <5>1
      <4>4. QED
        BY <4>2, <4>3
    <3>2. \A i \in 1..Len(results) :
            /\ results[i].told["hosts"] \subseteq Host /\ results[i].told["guests"] \subseteq Guest
            /\ results[i].told["tasks"] \subseteq Task /\ results[i].told["items"] \subseteq Item
            /\ results[i].told["alerts"] \subseteq Alert
      BY <3>1 DEF Inventory
    <3>3. QED
      BY <3>2 DEF Joined, Lists
  <2> HIDE DEF all
  <2>3. /\ \E q : q \in HostLists(all.hosts)
        /\ \E q : q \in GuestLists(all.guests)
        /\ \E q : q \in TaskLists(all.tasks)
        /\ \E q : q \in ItemLists(all.items)
        /\ \E q : q \in AlertLists(all.alerts)
    BY <2>1, <2>2, SortedHosts, SortedGuests, SortedTasks, SortedItems, SortedAlerts
  <2>4. /\ \E q : q \in Orders(all.hosts, ById)
        /\ \E q : q \in Orders(all.guests, GuestsBefore)
        /\ \E q : q \in Orders(all.tasks, TasksBefore)
        /\ \E q : q \in Orders(all.items, ItemsBefore)
        /\ \E q : q \in Orders(all.alerts, MoreSevere)
    BY <2>3 DEF HostLists, GuestLists, TaskLists, ItemLists, AlertLists
  <2>5. QED
    BY <2>4 DEF Sortable, all
<1>2. DisplayInv => Sortable
  BY <1>1 DEF DisplayInv
<1>3. QED
  BY <1>2, DisplayInvariant, PTL
=============================================================================
