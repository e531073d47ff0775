--------------------------- MODULE CollectorProofs --------------------------
(***************************************************************************)
(* Theorems about a collection, for any number of sources and nodes, any   *)
(* failures and any changes of the cluster meanwhile.  What a collection   *)
(* says of the cluster needs worlds whose texts the rules read as they are *)
(* meant; what its jobs and its capability log look like does not.         *)
(***************************************************************************)
EXTENDS Collector, SequenceTheorems, FiniteSetTheorems, TLAPS

Severities == {"warning", "critical"}

\* The requests, and what alerts are about.
Names ==
  {"cluster_status", "cluster_options", "backup_jobs", "ha_resources", "ceph", "storage_config",
   "node_status", "node_certificates", "node_rrd", "pci", "network", "services", "zfs_pools",
   "zfs_pool_detail", "apt_updates", "apt_repositories", "subscription", "disks",
   "guest_config", "guest_status", "guest_rrd", "guest_snapshots", "qemu_guest_agent",
   "storage_content", "replication", "replication_status", "tasks",
   "offline", "mem", "root", "stored", "storage"}

Statuses == {"ok", "forbidden", "not_found", "not_available", "error"}

(***************************************************************************)
(* Verdicts.                                                               *)
(***************************************************************************)
\* A verdict is one of Health; its levels are the severities up to it.
LEMMA LevelsOf ==
  /\ Levels("critical") = Severities
  /\ Levels("warning") = {"warning"}
  /\ Levels("ok") = {} /\ Levels("unknown") = {}
  /\ \A h : Levels(h) \subseteq Severities
  /\ \A h \in Severities : h \in Levels(h)
BY DEF Levels, Severities

\* A severity that has a verdict among its levels is at most that verdict.
LEMMA RankOfLevels ==
  /\ \A h, l : l \in Levels(h) => h \in Severities /\ Rank(h) >= Rank(l)
  /\ \A h, g \in Health : Rank(h) >= Rank(g) => Levels(g) \subseteq Levels(h)
  /\ \A h, g \in Health : Rank(h) >= Rank(g) \/ Rank(g) >= Rank(h)
BY DEF Levels, Rank, Severities, Health

\* The worse of two verdicts has the levels of both.
LEMMA WorseLevels ==
  ASSUME NEW a \in Health, NEW b \in Health
  PROVE  /\ MaxHealth(a, b) \in {a, b}
         /\ Levels(MaxHealth(a, b)) = Levels(a) \cup Levels(b)
BY DEF MaxHealth, Levels, Rank, Health

\* Every rule gives a verdict.
LEMMA VerdictType ==
  /\ \A t : HealthFromText(t) \in Health /\ ServiceHealth(t) \in Health /\ TaskHealth(t) \in Health
            /\ SubscriptionHealth(t) \in Health /\ DiskHealth(t) \in Health
            /\ StorageStatusHealth(t) \in Health /\ CephHealth(t) \in Health
  /\ \A t, r : HAHealth(t, r) \in Health
  /\ \A p, w, c : Level(p, w, c) \in Health
  /\ \A q, m, n : ClusterHealth(q, m, n) \in Health
  /\ \A u, n : CertificateHealth(u, n) \in Health
  /\ \A r : ReplicationHealth(r) \in Health
BY DEF Health, HealthFromText, ServiceHealth, TaskHealth, SubscriptionHealth, DiskHealth,
       StorageStatusHealth, CephHealth, HAHealth, Level, ClusterHealth, CertificateHealth,
       ReplicationHealth

\* A higher percentage is not on a lower level.
LEMMA LevelGrows ==
  ASSUME NEW p \in Nat, NEW q \in Nat, p <= q, NEW w \in Nat, NEW c \in Nat
  PROVE  Levels(Level(p, w, c)) \subseteq Levels(Level(q, w, c))
BY DEF Level, Levels

\* A certificate warns in its last 31 days.
LEMMA CertificateRead ==
  ASSUME NEW u \in Int, u # 0
  PROVE  CertificateHealth(u, 0) =
           IF u <= 0 THEN "critical" ELSE IF u < 31 * 24 THEN "warning" ELSE "ok"
BY DEF CertificateHealth

-----------------------------------------------------------------------------
(***************************************************************************)
(* What is wrong, problem by problem.                                      *)
(***************************************************************************)
LEMMA InProblems ==
  ASSUME NEW s, NEW n, NEW wrong, NEW p
  PROVE  p \in Problems(s, n, wrong)
           <=> \E k \in DOMAIN wrong : \E l \in Levels(wrong[k]) : p = <<s, n, k, l>>
BY DEF Problems

LEMMA WrongNode ==
  ASSUME NEW N, NEW S, NEW n \in Nodes, NEW k \in DOMAIN WrongOnNode(N[n]),
         NEW l \in Levels(WrongOnNode(N[n])[k])
  PROVE  <<Home[n], n, k, l>> \in Wrong(N, S)
<1>1. <<Home[n], n, k, l>> \in Problems(Home[n], n, WrongOnNode(N[n]))
  BY InProblems
<1>2. <<Home[n], n, k, l>> \in UNION {Problems(Home[m], m, WrongOnNode(N[m])) : m \in Nodes}
  BY <1>1
<1>3. QED
  BY <1>2 DEF Wrong

LEMMA WrongStorage ==
  ASSUME NEW N, NEW S, NEW n \in Storages, NEW k \in DOMAIN WrongWithStorage(N[n]),
         NEW l \in Levels(WrongWithStorage(N[n])[k])
  PROVE  <<Home[n], n, k, l>> \in Wrong(N, S)
<1>1. <<Home[n], n, k, l>> \in Problems(Home[n], n, WrongWithStorage(N[n]))
  BY InProblems
<1>2. <<Home[n], n, k, l>> \in UNION {Problems(Home[m], m, WrongWithStorage(N[m])) : m \in Storages}
  BY <1>1
<1>3. QED
  BY <1>2 DEF Wrong

LEMMA WrongGuest ==
  ASSUME NEW N, NEW S, NEW n \in Guests, NEW k \in DOMAIN WrongWithGuest(N[n]),
         NEW l \in Levels(WrongWithGuest(N[n])[k])
  PROVE  <<Home[n], n, k, l>> \in Wrong(N, S)
<1>1. <<Home[n], n, k, l>> \in Problems(Home[n], n, WrongWithGuest(N[n]))
  BY InProblems
<1>2. <<Home[n], n, k, l>> \in UNION {Problems(Home[m], m, WrongWithGuest(N[m])) : m \in Guests}
  BY <1>1
<1>3. QED
  BY <1>2 DEF Wrong

LEMMA WrongSource ==
  ASSUME NEW N, NEW S, NEW s \in Sources, NEW k \in DOMAIN WrongWithSource(S[s]),
         NEW l \in Levels(WrongWithSource(S[s])[k])
  PROVE  <<s, 0, k, l>> \in Wrong(N, S)
<1>1. <<s, 0, k, l>> \in Problems(s, 0, WrongWithSource(S[s]))
  BY InProblems
<1>2. <<s, 0, k, l>> \in UNION {Problems(t, 0, WrongWithSource(S[t])) : t \in Sources}
  BY <1>1
<1>3. QED
  BY <1>2 DEF Wrong

\* And nothing else is wrong.
LEMMA WrongOnly ==
  ASSUME NEW N, NEW S, NEW p \in Wrong(N, S)
  PROVE  \/ \E n \in Nodes : \E k \in DOMAIN WrongOnNode(N[n]) :
              \E l \in Levels(WrongOnNode(N[n])[k]) : p = <<Home[n], n, k, l>>
         \/ \E n \in Storages : \E k \in DOMAIN WrongWithStorage(N[n]) :
              \E l \in Levels(WrongWithStorage(N[n])[k]) : p = <<Home[n], n, k, l>>
         \/ \E n \in Guests : \E k \in DOMAIN WrongWithGuest(N[n]) :
              \E l \in Levels(WrongWithGuest(N[n])[k]) : p = <<Home[n], n, k, l>>
         \/ \E s \in Sources : \E k \in DOMAIN WrongWithSource(S[s]) :
              \E l \in Levels(WrongWithSource(S[s])[k]) : p = <<s, 0, k, l>>
<1>1. CASE p \in UNION {Problems(Home[n], n, WrongOnNode(N[n])) : n \in Nodes}
  BY <1>1, InProblems
<1>2. CASE p \in UNION {Problems(Home[n], n, WrongWithStorage(N[n])) : n \in Storages}
  BY <1>2, InProblems
<1>3. CASE p \in UNION {Problems(Home[n], n, WrongWithGuest(N[n])) : n \in Guests}
  BY <1>3, InProblems
<1>4. CASE p \in UNION {Problems(s, 0, WrongWithSource(S[s])) : s \in Sources}
  BY <1>4, InProblems
<1>5. QED
  BY <1>1, <1>2, <1>3, <1>4 DEF Wrong

-----------------------------------------------------------------------------
(***************************************************************************)
(* A verdict on problem k lies between what has been wrong all along (L)   *)
(* and what was wrong at some time (E).                                    *)
(***************************************************************************)
Between(L, E, s, n, k, h) ==
  /\ \A l : <<s, n, k, l>> \in L => l \in Levels(h)
  /\ \A l \in Levels(h) : <<s, n, k, l>> \in E

History(L, E, N, S) == L \subseteq Wrong(N, S) /\ Wrong(N, S) \subseteq E

\* What has been learnt stays learnt while the cluster changes.
LEMMA BetweenLater ==
  ASSUME NEW L, NEW E, NEW M, NEW F, M \subseteq L, E \subseteq F,
         NEW s, NEW n, NEW k, NEW h, Between(L, E, s, n, k, h)
  PROVE  Between(M, F, s, n, k, h)
BY DEF Between

\* A verdict on what is the case now.
LEMMA NodeNow ==
  ASSUME NEW N, NEW S, NEW L, NEW E, History(L, E, N, S),
         NEW n \in Nodes, NEW k \in DOMAIN WrongOnNode(N[n]), NEW h,
         Levels(h) = Levels(WrongOnNode(N[n])[k])
  PROVE  Between(L, E, Home[n], n, k, h)
<1>1. ASSUME NEW l \in Levels(h) PROVE <<Home[n], n, k, l>> \in E
  BY <1>1, WrongNode DEF History
<1>2. ASSUME NEW l, <<Home[n], n, k, l>> \in L PROVE l \in Levels(h)
  <2>1. <<Home[n], n, k, l>> \in Wrong(N, S)
    BY <1>2 DEF History
  <2>2. k \notin DOMAIN WrongWithStorage(N[n]) /\ k \notin DOMAIN WrongWithGuest(N[n])
    BY DEF WrongOnNode, WrongWithStorage, WrongWithGuest
  <2>3. n # 0
    BY CollectorAssumption
  <2>4. QED
    BY <2>1, <2>2, <2>3, WrongOnly
<1>3. QED
  BY <1>1, <1>2 DEF Between

LEMMA StorageNow ==
  ASSUME NEW N, NEW S, NEW L, NEW E, History(L, E, N, S),
         NEW n \in Storages, NEW k \in DOMAIN WrongWithStorage(N[n]), NEW h,
         Levels(h) = Levels(WrongWithStorage(N[n])[k])
  PROVE  Between(L, E, Home[n], n, k, h)
<1>1. ASSUME NEW l \in Levels(h) PROVE <<Home[n], n, k, l>> \in E
  BY <1>1, WrongStorage DEF History
<1>2. ASSUME NEW l, <<Home[n], n, k, l>> \in L PROVE l \in Levels(h)
  <2>1. <<Home[n], n, k, l>> \in Wrong(N, S)
    BY <1>2 DEF History
  <2>2. k \notin DOMAIN WrongOnNode(N[n]) /\ k \notin DOMAIN WrongWithGuest(N[n])
    BY DEF WrongOnNode, WrongWithStorage, WrongWithGuest
  <2>3. n # 0
    BY CollectorAssumption
  <2>4. QED
    BY <2>1, <2>2, <2>3, WrongOnly
<1>3. QED
  BY <1>1, <1>2 DEF Between

LEMMA GuestNow ==
  ASSUME NEW N, NEW S, NEW L, NEW E, History(L, E, N, S),
         NEW n \in Guests, NEW k \in DOMAIN WrongWithGuest(N[n]), NEW h,
         Levels(h) = Levels(WrongWithGuest(N[n])[k])
  PROVE  Between(L, E, Home[n], n, k, h)
<1>1. ASSUME NEW l \in Levels(h) PROVE <<Home[n], n, k, l>> \in E
  BY <1>1, WrongGuest DEF History
<1>2. ASSUME NEW l, <<Home[n], n, k, l>> \in L PROVE l \in Levels(h)
  <2>1. <<Home[n], n, k, l>> \in Wrong(N, S)
    BY <1>2 DEF History
  <2>2. k \notin DOMAIN WrongOnNode(N[n]) /\ k \notin DOMAIN WrongWithStorage(N[n])
    BY DEF WrongOnNode, WrongWithStorage, WrongWithGuest
  <2>3. n # 0
    BY CollectorAssumption
  <2>4. QED
    BY <2>1, <2>2, <2>3, WrongOnly
<1>3. QED
  BY <1>1, <1>2 DEF Between

LEMMA SourceNow ==
  ASSUME NEW N, NEW S, NEW L, NEW E, History(L, E, N, S),
         NEW s \in Sources, NEW k \in DOMAIN WrongWithSource(S[s]), NEW h,
         Levels(h) = Levels(WrongWithSource(S[s])[k])
  PROVE  Between(L, E, s, 0, k, h)
<1>1. ASSUME NEW l \in Levels(h) PROVE <<s, 0, k, l>> \in E
  BY <1>1, WrongSource DEF History
<1>2. ASSUME NEW l, <<s, 0, k, l>> \in L PROVE l \in Levels(h)
  <2>1. <<s, 0, k, l>> \in Wrong(N, S)
    BY <1>2 DEF History
  <2>2. 0 \notin Nodes /\ 0 \notin Storages /\ 0 \notin Guests
    BY CollectorAssumption
  <2>3. QED
    BY <2>1, <2>2, WrongOnly
<1>3. QED
  BY <1>1, <1>2 DEF Between

-----------------------------------------------------------------------------
(***************************************************************************)
(* Evidence: what a job tells of a problem.                                *)
(***************************************************************************)
Heard(L, s, n, k, alerts, down) ==
  \A l : <<s, n, k, l>> \in L =>
    \/ \E a \in alerts : /\ a.source = s /\ a.node = n /\ a.about \in Tells(k)
                         /\ Rank(a.severity) >= Rank(l)
    \/ \E d \in down : d[1] \in {0, n} /\ d[2] \in LearntFrom(k) /\ Shows(d[2])

AlertTrue(E, a) ==
  \E p \in E : /\ p[1] = a.source /\ p[2] = a.node /\ p[4] = a.severity
              /\ a.about \in Tells(p[3]) /\ (a.about = "offline" => p[3] = "offline")

\* Evidence is not taken back, and less needs to be told later.
LEMMA HeardLater ==
  ASSUME NEW L, NEW M, M \subseteq L, NEW A, NEW B, A \subseteq B, NEW C, NEW D, C \subseteq D
  PROVE  \A s, n, k : Heard(L, s, n, k, A, C) => Heard(M, s, n, k, B, D)
BY DEF Heard

LEMMA TrueLater ==
  ASSUME NEW E, NEW F, E \subseteq F, NEW a, AlertTrue(E, a)
  PROVE  AlertTrue(F, a)
BY DEF AlertTrue

\* The alert on a verdict tells of the problem.
LEMMA HeardByAlert ==
  ASSUME NEW L, NEW E, NEW s, NEW n, NEW k, NEW h \in Health, Between(L, E, s, n, k, h),
         NEW about \in Tells(k), NEW A, Raised(s, n, about, h) \subseteq A, NEW D
  PROVE  Heard(L, s, n, k, A, D)
<1> SUFFICES ASSUME NEW l, <<s, n, k, l>> \in L
             PROVE  \E a \in A : /\ a.source = s /\ a.node = n /\ a.about \in Tells(k)
                                /\ Rank(a.severity) >= Rank(l)
  BY DEF Heard
<1>1. l \in Levels(h)
  BY DEF Between
<1>2. h \in Severities /\ Rank(h) >= Rank(l)
  BY <1>1, RankOfLevels
<1>3. Alert(s, n, about, h) \in A
  BY <1>2 DEF Raised, Severities
<1>4. QED
  BY <1>2, <1>3 DEF Alert

\* The failure of a request the problem is learnt from shows.
LEMMA HeardByFailure ==
  ASSUME NEW L, NEW s, NEW n, NEW k, NEW A, NEW D, NEW m \in {0, n},
         NEW name \in LearntFrom(k), Shows(name), <<m, name>> \in D
  PROVE  Heard(L, s, n, k, A, D)
BY DEF Heard

\* An alert on a verdict is true.
LEMMA RaisedTrue ==
  ASSUME NEW L, NEW E, NEW s, NEW n, NEW k, NEW h, Between(L, E, s, n, k, h),
         NEW about \in Tells(k), about # "offline",
         NEW a \in Raised(s, n, about, h)
  PROVE  AlertTrue(E, a)
<1>1. a = Alert(s, n, about, h) /\ h \in Severities
  BY DEF Raised, Severities
<1>2. <<s, n, k, h>> \in E
  BY <1>1, LevelsOf DEF Between
<1>3. QED
  BY <1>1, <1>2 DEF AlertTrue, Alert

\* What a raised alert is.
LEMMA RaisedType ==
  ASSUME NEW s, NEW n, NEW about, NEW h
  PROVE  \A a \in Raised(s, n, about, h) :
           /\ a \in [source : {s}, node : {n}, about : {about}, severity : Severities]
           /\ a = Alert(s, n, about, h)
BY DEF Raised, Alert, Severities

-----------------------------------------------------------------------------
(***************************************************************************)
(* The invariant.                                                          *)
(***************************************************************************)
Places == {"idle", "resources", "source", "nodes", "node", "storages", "guests", "guest",
           "replication", "tasks", "done"}

ListedType == [stored : Nat, storage : Texts, guest : Texts \cup {"GONE"}, pool : Texts]

HostType ==
  [online : BOOLEAN, mem : Nat, root : Nat, max : Nat, named : BOOLEAN, health : Health,
   listed : ListedType]

AlertType(s) ==
  [source : {s}, node : NodesOf(s) \cup {0}, about : Names, severity : Severities]

CapType(s) ==
  [source : {s}, node : NodesOf(s) \cup {0}, name : Names, status : Statuses]

JobType(s) ==
  [at : Places, left : Seq(Names), todo : SUBSET NodesOf(s), cur : NodesOf(s) \cup {0},
   hosts : [{} -> HostType] \cup [NodesOf(s) -> HostType], health : Health,
   alerts : SUBSET AlertType(s), caps : Seq(CapType(s)),
   down : SUBSET ((NodesOf(s) \cup {0}) \X Names), lost : BOOLEAN]

\* The last requests of a list.
Rest(requests, left) == left = SubSeq(requests, Len(requests) + 1 - Len(left), Len(requests))

Begun(j) == j.at \notin {"idle", "resources"} /\ ~j.lost

JobShape(s, j) ==
  /\ j \in JobType(s)
  /\ j.at \in {"idle", "resources"} => j = Start(j.at)
  /\ j.lost => j.at = "done"
  /\ Begun(j) => j.hosts \in [NodesOf(s) -> HostType]
  /\ j.at = "source" => /\ Len(j.left) \in 1..6 /\ Rest(SourceRequests, j.left)
                        /\ j.todo = NodesOf(s)
  /\ j.at = "node" => /\ Len(j.left) \in 1..12 /\ Rest(NodeRequests, j.left)
                      /\ j.cur \in NodesOf(s) \ j.todo
  /\ j.at = "storages" => j.todo \subseteq Storages
  /\ j.at \in {"guests", "guest"} => j.todo \subseteq Guests
  /\ j.at = "guest" => /\ Len(j.left) \in 1..5 /\ Rest(GuestRequests, j.left)
                       /\ j.cur \in (NodesOf(s) \cap Guests) \ j.todo

\* What is known of a host was so at some time, and nothing that lasts is unknown.
HostReads(L, E, s, n, h) ==
  /\ Between(L, E, s, n, "offline", IF h.online THEN "ok" ELSE "critical")
  /\ Between(L, E, s, n, "mem", Level(h.mem, MemWarn, MemCrit))
  /\ Between(L, E, s, n, "root", Level(h.root, StoWarn, StoCrit))
  /\ ~h.named => Between(L, E, s, n, "root", Level(h.max, StoWarn, StoCrit))
  /\ n \in Storages =>
       /\ Between(L, E, s, n, "stored", Level(h.listed.stored, StoWarn, StoCrit))
       /\ Between(L, E, s, n, "storage", StorageStatusHealth(h.listed.storage))
  /\ n \in Guests =>
       /\ h.listed.guest \in {"RUNNING", "STOPPED", "GONE"}
       /\ Between(L, E, s, n, "guest_status", IF h.listed.guest = "STOPPED" THEN "warning" ELSE "ok")
  /\ Between({}, E, s, n, "zfs_pools", HealthFromText(h.listed.pool))

\* A request about node n, so many before the last one, is still to be sent.
Unread(j, n, i) ==
  \/ j.at = "source"
  \/ j.at \in {"nodes", "node"} /\ n \in j.todo
  \/ j.at = "node" /\ n = j.cur /\ Len(j.left) >= i

NodeHeard(L, s, n, j) ==
  /\ Unread(j, n, 11) \/ Heard(L, s, n, "node_certificates", j.alerts, j.down)
  /\ Unread(j, n, 7) \/ Heard(L, s, n, "services", j.alerts, j.down)
  /\ Unread(j, n, 5) \/ Heard(L, s, n, "zfs_pools", j.alerts, j.down)
  /\ Unread(j, n, 5) \/ Heard(L, s, n, "zfs_pool_detail", j.alerts, j.down)
  /\ \/ j.at # "done" /\ (j.at = "tasks" => n \in j.todo)
     \/ Heard(L, s, n, "tasks", j.alerts, j.down)

StorageHeard(L, s, n, j) ==
  \/ j.at \in {"source", "nodes", "node"}
  \/ j.at = "storages" /\ n \in j.todo
  \/ /\ Heard(L, s, n, "stored", j.alerts, j.down)
     /\ Heard(L, s, n, "storage", j.alerts, j.down)

\* A guest that is asked about is in the resource list, and not known to be gone since.
AskedAbout(j, n) ==
  \/ j.at \in {"guests", "guest"} /\ n \in j.todo
  \/ j.at = "guest" /\ n = j.cur

GuestHeard(L, s, n, j) ==
  /\ AskedAbout(j, n) => j.hosts[n].listed.guest # "GONE"
  /\ \/ j.at \in {"source", "nodes", "node", "storages"}
     \/ AskedAbout(j, n)
     \/ Heard(L, s, n, "guest_status", j.alerts, j.down)

HostHeard(L, s, n, j) ==
  /\ j.hosts[n].named => Heard(L, s, n, "root", j.alerts, j.down)
  /\ j.at = "done" => /\ Heard(L, s, n, "offline", j.alerts, j.down)
                      /\ Heard(L, s, n, "mem", j.alerts, j.down)
                      /\ Heard(L, s, n, "root", j.alerts, j.down)

SourceHeard(L, s, j) ==
  /\ (j.at = "source" /\ Len(j.left) >= 6) \/ Heard(L, s, 0, "cluster_status", j.alerts, j.down)
  /\ (j.at = "source" /\ Len(j.left) >= 3) \/ Heard(L, s, 0, "ha_resources", j.alerts, j.down)
  /\ (j.at = "source" /\ Len(j.left) >= 2) \/ Heard(L, s, 0, "ceph", j.alerts, j.down)
  /\ j.at \notin {"tasks", "done"} \/ Heard(L, s, 0, "replication", j.alerts, j.down)

\* When the detail of a pool is asked for, its list has been read.
PoolRead(L, E, s, j) ==
  j.at = "node" /\ Len(j.left) = 5
    => Between(L, E, s, j.cur, "zfs_pools", HealthFromText(j.hosts[j.cur].listed.pool))

JobTells(L, E, s, j) ==
  /\ \A a \in j.alerts : AlertTrue(E, a)
  /\ \A n \in NodesOf(s) : HostReads(L, E, s, n, j.hosts[n])
  /\ PoolRead(L, E, s, j)
  /\ \A n \in NodesOf(s) : NodeHeard(L, s, n, j)
  /\ \A n \in NodesOf(s) \cap Storages : StorageHeard(L, s, n, j)
  /\ \A n \in NodesOf(s) \cap Guests : GuestHeard(L, s, n, j)
  /\ \A n \in NodesOf(s) : HostHeard(L, s, n, j)
  /\ SourceHeard(L, s, j)

JobOK(L, E, s, j) == JobShape(s, j) /\ (Begun(j) => JobTells(L, E, s, j))

CollectInv ==
  /\ node \in [Nodes -> NodeWorlds] /\ source \in [Sources -> SourceWorlds]
  /\ job = [s \in Sources |-> job[s]]
  /\ lasting \subseteq Wrong(node, source)
  /\ (\E s \in Sources : job[s].at # "idle") => Wrong(node, source) \subseteq ever
  /\ \A s \in Sources : JobOK(lasting, ever, s, job[s])
  /\ Returned => /\ \A s \in Sources : job[s].at = "idle"
                 /\ NothingMissed /\ NoFalseAlarm

-----------------------------------------------------------------------------
(***************************************************************************)
(* Requests.                                                               *)
(***************************************************************************)
\* The requests are sent in the order of their list.
LEMMA RestOf ==
  ASSUME NEW R \in Seq(Names), NEW q \in Seq(Names), Len(q) \in 1..Len(R), Rest(R, q)
  PROVE  /\ Head(q) = R[Len(R) + 1 - Len(q)] /\ Head(q) \in Names
         /\ Tail(q) \in Seq(Names) /\ Len(Tail(q)) = Len(q) - 1
         /\ Rest(R, Tail(q))
<1> DEFINE m == Len(R) + 1 - Len(q)
<1>1. q = SubSeq(R, m, Len(R)) /\ m \in 1..Len(R) /\ q # <<>>
  BY DEF Rest
<1>2. Head(q) = R[m] /\ Tail(q) = SubSeq(R, m + 1, Len(R))
  BY <1>1, HeadTailOfSubSeq
<1>3. Tail(q) \in Seq(Names) /\ Len(Tail(q)) = Len(q) - 1
  BY <1>1
<1>4. QED
  BY <1>1, <1>2, <1>3 DEF Rest

\* The lists.
LEMMA Lists ==
  /\ SourceRequests \in Seq(Names) /\ Len(SourceRequests) = 6
  /\ NodeRequests \in Seq(Names) /\ Len(NodeRequests) = 12
  /\ GuestRequests \in Seq(Names) /\ Len(GuestRequests) = 5
  /\ SourceRequests[1] = "cluster_status" /\ SourceRequests[4] = "ha_resources"
  /\ SourceRequests[5] = "ceph"
  /\ \A i \in {2, 3, 6} : SourceRequests[i] \notin {"cluster_status", "ha_resources", "ceph"}
  /\ NodeRequests[2] = "node_certificates" /\ NodeRequests[6] = "services"
  /\ NodeRequests[7] = "zfs_pools" /\ NodeRequests[8] = "zfs_pool_detail"
  /\ NodeRequests[1] = "node_status"
  /\ NodeRequests[11] = "subscription" /\ NodeRequests[12] = "disks"
  /\ \A i \in {3, 4, 5, 9, 10} :
       NodeRequests[i] \notin {"node_status", "node_certificates", "services", "zfs_pools", "zfs_pool_detail",
                              "subscription", "disks", "tasks"}
<1>1. SourceRequests \in Seq(Names) /\ Len(SourceRequests) = 6
  BY DEF SourceRequests, Names
<1>2. /\ SourceRequests[1] = "cluster_status" /\ SourceRequests[4] = "ha_resources"
      /\ SourceRequests[5] = "ceph"
      /\ \A i \in {2, 3, 6} : SourceRequests[i] \notin {"cluster_status", "ha_resources", "ceph"}
  BY DEF SourceRequests
<1>3. NodeRequests \in Seq(Names) /\ Len(NodeRequests) = 12
  BY DEF NodeRequests, Names
<1>4. /\ NodeRequests[1] = "node_status"
      /\ NodeRequests[2] = "node_certificates" /\ NodeRequests[6] = "services"
      /\ NodeRequests[7] = "zfs_pools" /\ NodeRequests[8] = "zfs_pool_detail"
      /\ NodeRequests[11] = "subscription" /\ NodeRequests[12] = "disks"
  BY DEF NodeRequests
<1>5. /\ NodeRequests[3] = "node_rrd" /\ NodeRequests[4] = "pci" /\ NodeRequests[5] = "network"
      /\ NodeRequests[9] = "apt_updates" /\ NodeRequests[10] = "apt_repositories"
  BY DEF NodeRequests
<1>6. GuestRequests \in Seq(Names) /\ Len(GuestRequests) = 5
  BY DEF GuestRequests, Names
<1>7. QED
  BY <1>1, <1>2, <1>3, <1>4, <1>5, <1>6

\* A failed request of this kind is seen.
LEMMA ShownFailures ==
  \A name \in {"node_certificates", "services", "zfs_pools", "zfs_pool_detail", "tasks",
               "cluster_status", "ha_resources", "ceph", "replication", "replication_status"} :
    Shows(name)
BY DEF Shows, Warned, Logged, ToSet, SourceRequests, NodeRequests

\* What asking leaves as it was, and what it adds.
LEMMA AskedIs ==
  ASSUME NEW s \in Sources, NEW j \in JobType(s), NEW n \in NodesOf(s) \cup {0},
         NEW name \in Names, NEW http \in Nat, NEW i, i = Asked(s, n, name, http, j)
  PROVE  /\ i \in JobType(s)
         /\ i.at = j.at /\ i.left = j.left /\ i.todo = j.todo /\ i.cur = j.cur
         /\ i.hosts = j.hosts /\ i.health = j.health /\ i.alerts = j.alerts /\ i.lost = j.lost
         /\ j.down \subseteq i.down
         /\ http # 200 => <<n, name>> \in i.down
<1> DEFINE cap == Capability(s, n, name, http)
           caps == Log(j.caps, cap)
           down == IF http = 200 THEN j.down ELSE j.down \cup {<<n, name>>}
<1>1. cap \in CapType(s)
  <2>1. CapabilityStatus(http) \in Statuses
    BY DEF CapabilityStatus, Statuses
  <2>2. QED
    BY <2>1 DEF Capability, CapType
<1>2. caps \in Seq(CapType(s))
  BY <1>1 DEF JobType, Log
<1>3. down \in SUBSET ((NodesOf(s) \cup {0}) \X Names)
  BY DEF JobType
<1>4. Asked(s, n, name, http, j) = [j EXCEPT !.caps = caps, !.down = down]
  BY DEF Asked, JobType
<1> HIDE DEF caps, down
<1>5. http # 200 => <<n, name>> \in down
  BY DEF down
<1>6. j.down \subseteq down
  BY DEF down
<1>7. QED
  BY <1>2, <1>3, <1>4, <1>5, <1>6 DEF JobType

\* At the beginning all of a list is left.
LEMMA AllLeft ==
  /\ Rest(SourceRequests, SourceRequests)
  /\ Rest(NodeRequests, NodeRequests)
  /\ Rest(GuestRequests, GuestRequests)
BY Lists, SubSeqFull DEF Rest

-----------------------------------------------------------------------------
(***************************************************************************)
(* What is read now is between.                                            *)
(***************************************************************************)
\* The cluster is in a state it can be in.
Context ==
  /\ ReadAsMeant
  /\ node \in [Nodes -> NodeWorlds] /\ source \in [Sources -> SourceWorlds]
  /\ job = [s \in Sources |-> job[s]]
  /\ History(lasting, ever, node, source)

LEMMA NodeTyped ==
  ASSUME Context, NEW n \in Nodes
  PROVE  /\ node[n] \in NodeWorlds /\ node[n] \in NodeWorld
         /\ node[n].until \in Int /\ node[n].until # 0
         /\ Home[n] \in Sources
BY CollectorAssumption DEF Context, NodeWorld

\* The host the resource list tells of.
LEMMA HostNow ==
  ASSUME Context, NEW s \in Sources, NEW n \in NodesOf(s)
  PROVE  /\ HostOf(node[n]) \in HostType
         /\ HostReads(lasting, ever, s, n, HostOf(node[n]))
<1> DEFINE w == node[n]
           h == HostOf(w)
<1>1. n \in Nodes /\ Home[n] = s /\ w \in NodeWorld /\ w \in NodeWorlds
  BY NodeTyped DEF NodesOf
<1>2. h \in HostType
  BY <1>1, VerdictAssumption DEF HostOf, HostType, ListedType, NodeWorld, Health
<1>3. /\ h.online = w.online /\ h.mem = w.mem /\ h.root = w.root /\ h.max = w.root
      /\ h.listed.stored = w.stored /\ h.listed.storage = w.storage
      /\ h.listed.guest = w.guest /\ h.listed.pool = Blank
  BY DEF HostOf
<1>4. DOMAIN WrongOnNode(w) = {"offline", "mem", "root", "node_certificates", "services", "zfs_pools",
                               "pool_unavail", "zfs_pool_detail", "disks", "tasks"}
  BY DEF WrongOnNode
<1>5. /\ Between(lasting, ever, s, n, "offline", IF h.online THEN "ok" ELSE "critical")
      /\ Between(lasting, ever, s, n, "mem", Level(h.mem, MemWarn, MemCrit))
      /\ Between(lasting, ever, s, n, "root", Level(h.root, StoWarn, StoCrit))
  <2>1. /\ WrongOnNode(w)["offline"] = IF w.online THEN "ok" ELSE "critical"
        /\ WrongOnNode(w)["mem"] = Level(w.mem, MemWarn, MemCrit)
        /\ WrongOnNode(w)["root"] = Level(w.root, StoWarn, StoCrit)
    BY DEF WrongOnNode
  <2>2. \A k \in DOMAIN WrongOnNode(w) : Between(lasting, ever, s, n, k, WrongOnNode(w)[k])
    BY <1>1, NodeNow DEF Context
  <2>3. QED
    BY <1>3, <1>4, <2>1, <2>2
<1>6. ASSUME n \in Storages
      PROVE  /\ Between(lasting, ever, s, n, "stored", Level(h.listed.stored, StoWarn, StoCrit))
             /\ Between(lasting, ever, s, n, "storage", StorageStatusHealth(h.listed.storage))
  <2>1. /\ DOMAIN WrongWithStorage(w) = {"stored", "storage"}
        /\ WrongWithStorage(w)["stored"] = Level(w.stored, StoWarn, StoCrit)
        /\ Levels(StorageStatusHealth(w.storage)) = Levels(WrongWithStorage(w)["storage"])
    BY <1>1 DEF WrongWithStorage, Context, ReadAsMeant
  <2>2. \A k \in DOMAIN WrongWithStorage(w) : \A v :
          Levels(v) = Levels(WrongWithStorage(w)[k]) => Between(lasting, ever, s, n, k, v)
    BY <1>1, <1>6, StorageNow DEF Context
  <2>3. QED
    BY <1>3, <2>1, <2>2
<1>7. ASSUME n \in Guests
      PROVE  /\ h.listed.guest \in {"RUNNING", "STOPPED", "GONE"}
             /\ Between(lasting, ever, s, n, "guest_status",
                        IF h.listed.guest = "STOPPED" THEN "warning" ELSE "ok")
  <2>1. /\ "guest_status" \in DOMAIN WrongWithGuest(w)
        /\ WrongWithGuest(w)["guest_status"] = IF w.guest = "STOPPED" THEN "warning" ELSE "ok"
    BY DEF WrongWithGuest
  <2>2. Between(lasting, ever, s, n, "guest_status", WrongWithGuest(w)["guest_status"])
    BY <1>1, <1>7, <2>1, GuestNow DEF Context
  <2>3. w.guest \in {"RUNNING", "STOPPED", "GONE"}
    BY <1>1 DEF Context, ReadAsMeant
  <2>4. QED
    BY <1>3, <2>1, <2>2, <2>3
<1>8. Between({}, ever, s, n, "zfs_pools", HealthFromText(h.listed.pool))
  <2>1. HealthFromText(Blank) = "unknown"
    BY VerdictAssumption DEF HealthFromText, Says
  <2>2. QED
    BY <1>3, <2>1, LevelsOf DEF Between
<1>9. QED
  BY <1>2, <1>3, <1>5, <1>6, <1>7, <1>8 DEF HostReads

-----------------------------------------------------------------------------
(***************************************************************************)
(* Every step of a goroutine keeps its part of the invariant.              *)
(***************************************************************************)
OK(s) == JobOK(lasting, ever, s, job[s])

\* The step of s is its own: nothing else moves.
Alone(s) ==
  /\ UNCHANGED <<world, history, result>>
  /\ job' = [t \in Sources |-> job'[t]]
  /\ \A t \in Sources \ {s} : job'[t] = job[t]

LEMMA ProceedIs ==
  ASSUME Context, NEW s \in Sources, NEW j, Proceed(s, j)
  PROVE  Alone(s) /\ job'[s] = j
BY DEF Proceed, Context, Alone, world, history

LEMMA OutcomeType == ASSUME NEW http \in Outcomes PROVE http \in Nat
BY CollectorAssumption DEF Outcomes

LEMMA ReadResourcesOK ==
  ASSUME Context, NEW s \in Sources, OK(s), ReadResources(s)
  PROVE  Alone(s) /\ JobOK(lasting, ever, s, job'[s])
<1> DEFINE i == job'[s]
<1>1. job[s].at = "resources" /\ job[s] = Start("resources") /\ job[s] \in JobType(s)
  BY DEF ReadResources, OK, JobOK, JobShape
<1>2. PICK http \in Outcomes : Proceed(s,
        IF http # 200
        THEN [job[s] EXCEPT !.at = "done", !.lost = TRUE,
                            !.alerts = {Alert(s, 0, "offline", "critical")}]
        ELSE [job[s] EXCEPT
               !.at = "source", !.left = SourceRequests, !.todo = NodesOf(s),
               !.hosts = [n \in NodesOf(s) |-> HostOf(node[n])]])
  BY DEF ReadResources
<1>3. CASE http # 200
  <2> DEFINE A == {Alert(s, 0, "offline", "critical")}
  <2>1. Alone(s) /\ i = [job[s] EXCEPT !.at = "done", !.lost = TRUE, !.alerts = A]
    BY <1>2, <1>3, ProceedIs
  <2>2. A \subseteq AlertType(s)
    BY DEF Alert, AlertType, Names, Severities
  <2> HIDE DEF A
  <2>3. i \in JobType(s) /\ i.at = "done" /\ i.lost
    BY <1>1, <2>1, <2>2 DEF JobType, Places
  <2>4. QED
    BY <2>1, <2>3 DEF JobOK, JobShape, Begun
<1>4. CASE http = 200
  <2> DEFINE H == [n \in NodesOf(s) |-> HostOf(node[n])]
  <2>1. /\ Alone(s)
        /\ i = [job[s] EXCEPT !.at = "source", !.left = SourceRequests, !.todo = NodesOf(s),
                              !.hosts = H]
    BY <1>2, <1>4, ProceedIs
  <2>2. H \in [NodesOf(s) -> HostType]
    BY HostNow
  <2> HIDE DEF H
  <2>a. job[s].alerts = {} /\ ~job[s].lost
    BY <1>1 DEF Start
  <2>b. SourceRequests \in Seq(Names) /\ NodesOf(s) \in SUBSET NodesOf(s)
    BY Lists
  <2>c. i \in JobType(s)
    BY <1>1, <2>1, <2>2, <2>b DEF JobType, Places
  <2>3. /\ i.at = "source" /\ i.left = SourceRequests /\ i.todo = NodesOf(s)
        /\ i.hosts = H /\ i.alerts = {} /\ ~i.lost
    BY <1>1, <2>1, <2>a DEF JobType
  <2>4. JobShape(s, i)
    BY <2>2, <2>3, <2>c, Lists, AllLeft DEF JobShape
  <2>5. \A n \in NodesOf(s) : /\ HostReads(lasting, ever, s, n, H[n])
                              /\ ~H[n].named
    BY HostNow DEF H, HostOf
  <2>6. JobTells(lasting, ever, s, i)
    BY <2>3, <2>5, Lists DEF JobTells, PoolRead, NodeHeard, Unread, StorageHeard, GuestHeard, AskedAbout, HostHeard,
                             SourceHeard
  <2>7. QED
    BY <2>1, <2>4, <2>6 DEF JobOK
<1>5. QED
  BY <1>3, <1>4

\* A problem is told by alerts of its own name, mostly, and learnt from the
\* request of its name.
LEMMA TellsAndLearns ==
  /\ \A k \in {"cluster_status", "ha_resources", "ceph", "replication", "node_certificates", "services",
               "zfs_pool_detail", "tasks", "stored", "storage", "guest_status", "mem", "root"} :
       k \in Tells(k)
  /\ "zfs_pool_detail" \in Tells("zfs_pools") /\ "stored" \in Tells("root")
  /\ \A k : "offline" \in Tells(k)
  /\ \A k \in {"cluster_status", "ha_resources", "ceph", "replication", "node_certificates", "services",
               "zfs_pools", "zfs_pool_detail", "tasks"} :
       k \in LearntFrom(k)
  /\ "zfs_pools" \in LearntFrom("zfs_pool_detail")
  /\ "replication_status" \in LearntFrom("replication")
<1>1. \A k : "offline" \in Tells(k)
  BY DEF Tells
<1>2. \A k \in {"cluster_status", "ha_resources", "ceph", "replication", "node_certificates", "services",
                "tasks", "stored", "storage", "guest_status", "mem"} : k \in Tells(k)
  BY DEF Tells
<1>3. /\ "root" \in Tells("root") /\ "stored" \in Tells("root")
      /\ "zfs_pool_detail" \in Tells("zfs_pools") /\ "zfs_pool_detail" \in Tells("zfs_pool_detail")
  BY DEF Tells
<1>4. \A k \in {"cluster_status", "ha_resources", "ceph", "node_certificates", "services",
                "zfs_pools", "tasks"} : k \in LearntFrom(k)
  BY DEF LearntFrom
<1>5. /\ "replication" \in LearntFrom("replication") /\ "replication_status" \in LearntFrom("replication")
      /\ "zfs_pools" \in LearntFrom("zfs_pool_detail")
      /\ "zfs_pool_detail" \in LearntFrom("zfs_pool_detail")
  BY DEF LearntFrom
<1>6. QED
  BY <1>1, <1>2, <1>3, <1>4, <1>5

\* What an answer about the cluster makes an alert of.
LEMMA SourceRead ==
  ASSUME Context, NEW s \in Sources, NEW name \in {"cluster_status", "ha_resources", "ceph"}
  PROVE  \E h \in Health : /\ ClusterAlerts(s, name) = Raised(s, 0, name, h)
                          /\ Between(lasting, ever, s, 0, name, h)
<1> DEFINE w == source[s]
<1>1. w \in SourceWorlds /\ w \in SourceWorld
  BY CollectorAssumption DEF Context
<1>2. DOMAIN WrongWithSource(w) = {"cluster_status", "ha_resources", "ceph", "ceph_error", "replication"}
  BY DEF WrongWithSource
<1>3. \A k \in DOMAIN WrongWithSource(w) : \A h :
        Levels(h) = Levels(WrongWithSource(w)[k]) => Between(lasting, ever, s, 0, k, h)
  BY SourceNow DEF Context
<1>4. CASE name = "cluster_status"
  <2> DEFINE h == IF w.quorate THEN "ok" ELSE "critical"
  <2>1. WrongWithSource(w)["cluster_status"] = h
    BY DEF WrongWithSource
  <2>2. ClusterAlerts(s, name) = Raised(s, 0, name, h)
    BY <1>4 DEF ClusterAlerts, SourceVerdict, ClusterHealth, Raised
  <2>3. Between(lasting, ever, s, 0, name, h)
    BY <1>2, <1>3, <1>4, <2>1
  <2>4. h \in Health
    BY DEF Health
  <2>5. QED
    BY <2>2, <2>3, <2>4
<1>5. CASE name = "ha_resources"
  <2>1. Levels(HAHealth(w.ha, Blank)) = Levels(WrongWithSource(w)["ha_resources"])
    BY <1>1 DEF Context, ReadAsMeant, WrongWithSource
  <2>2. ClusterAlerts(s, name) = Raised(s, 0, name, HAHealth(w.ha, Blank))
    BY <1>5 DEF ClusterAlerts, SourceVerdict
  <2>3. QED
    BY <1>2, <1>3, <1>5, <2>1, <2>2, VerdictType
<1>6. CASE name = "ceph"
  <2>1. Levels(CephHealth(w.ceph)) = Levels(WrongWithSource(w)["ceph"])
    BY <1>1 DEF Context, ReadAsMeant, WrongWithSource
  <2>2. ClusterAlerts(s, name) = Raised(s, 0, name, CephHealth(w.ceph))
    BY <1>6 DEF ClusterAlerts, SourceVerdict
  <2>3. QED
    BY <1>2, <1>3, <1>6, <2>1, <2>2, VerdictType
<1>7. QED
  BY <1>4, <1>5, <1>6

LEMMA OtherSourceRead ==
  ASSUME NEW s, NEW name, name \notin {"cluster_status", "ha_resources", "ceph"}
  PROVE  ClusterAlerts(s, name) = {}
BY DEF ClusterAlerts, SourceVerdict, Raised

LEMMA SourceVerdictType ==
  ASSUME NEW s, NEW name
  PROVE  SourceVerdict(s, name) \in Health
<1>1. ClusterHealth(source[s].quorate, Cardinality(NodesOf(s)),
                    Cardinality({n \in NodesOf(s) : node[n].online})) \in Health
  BY VerdictType
<1>2. QED
  BY <1>1, VerdictType DEF SourceVerdict, Health

\* What the m-th request from the end about a cluster makes of job j.
SourceAnswer(L, E, s, j, i, new, m, name) ==
  /\ j.at = "source" /\ Len(j.left) = m /\ m \in 1..6 /\ name = SourceRequests[7 - m]
  /\ i \in JobType(s) /\ i.at = IF m = 1 THEN "nodes" ELSE "source"
  /\ Len(i.left) = m - 1 /\ Rest(SourceRequests, i.left)
  /\ i.todo = j.todo /\ i.hosts = j.hosts /\ i.lost = j.lost
  /\ i.alerts = j.alerts \cup new /\ j.down \subseteq i.down
  /\ \A e \in new : AlertTrue(E, e)
  /\ name \in {"cluster_status", "ha_resources", "ceph"} => Heard(L, s, 0, name, i.alerts, i.down)

LEMMA SourceStep ==
  ASSUME NEW L, NEW E, NEW s, NEW j, NEW i, NEW new, NEW m, NEW name,
         JobOK(L, E, s, j), SourceAnswer(L, E, s, j, i, new, m, name)
  PROVE  JobOK(L, E, s, i)
<1> USE DEF SourceAnswer
<1>1. /\ j \in JobType(s) /\ ~j.lost /\ Begun(j) /\ j.todo = NodesOf(s)
      /\ j.hosts \in [NodesOf(s) -> HostType]
  BY DEF JobOK, JobShape, Begun, JobType
<1>2. JobTells(L, E, s, j)
  BY <1>1 DEF JobOK
<1>3. /\ i.at \in {"nodes", "source"}
      /\ i.at = "source" => Len(i.left) \in 1..6
      /\ i.at = "nodes" => m = 1
  OBVIOUS
<1>4. JobShape(s, i)
  BY <1>1, <1>3 DEF JobShape
<1>5. \A n, k : Heard(L, s, n, k, j.alerts, j.down) => Heard(L, s, n, k, i.alerts, i.down)
  <2>1. j.alerts \subseteq i.alerts
    OBVIOUS
  <2>2. QED
    BY <2>1, HeardLater
<1>6. SourceHeard(L, s, i)
  <2>1. SourceHeard(L, s, j)
    BY <1>2 DEF JobTells
  <2>2. /\ m = 6 => name = "cluster_status"
        /\ m = 3 => name = "ha_resources"
        /\ m = 2 => name = "ceph"
    BY Lists
  <2>3. /\ m = 6 => Heard(L, s, 0, "cluster_status", i.alerts, i.down)
        /\ m = 3 => Heard(L, s, 0, "ha_resources", i.alerts, i.down)
        /\ m = 2 => Heard(L, s, 0, "ceph", i.alerts, i.down)
    BY <2>2
  <2>4. /\ m < 6 => Heard(L, s, 0, "cluster_status", i.alerts, i.down)
        /\ m < 3 => Heard(L, s, 0, "ha_resources", i.alerts, i.down)
        /\ m < 2 => Heard(L, s, 0, "ceph", i.alerts, i.down)
    <3>1. /\ m < 6 => Heard(L, s, 0, "cluster_status", j.alerts, j.down)
          /\ m < 3 => Heard(L, s, 0, "ha_resources", j.alerts, j.down)
          /\ m < 2 => Heard(L, s, 0, "ceph", j.alerts, j.down)
      BY <2>1 DEF SourceHeard
    <3>2. QED
      BY <3>1, <1>5
  <2>5. /\ (i.at = "source" /\ Len(i.left) >= 3) \/ m <= 3
        /\ (i.at = "source" /\ Len(i.left) >= 2) \/ m <= 2
        /\ m <= 6
    <3>1. CASE m = 1
      BY <3>1
    <3>2. CASE m # 1
      <4>1. i.at = "source" /\ Len(i.left) = m - 1 /\ m \in 1..6
        BY <3>2
      <4>2. QED
        BY <4>1
    <3>3. QED
      BY <3>1, <3>2
  <2>6. QED
    BY <1>1, <1>3, <2>3, <2>4, <2>5 DEF SourceHeard
<1>7. JobTells(L, E, s, i)
  <2>1. \A e \in i.alerts : AlertTrue(E, e)
    BY <1>2 DEF JobTells
  <2>2. \A n \in NodesOf(s) : HostReads(L, E, s, n, i.hosts[n]) /\ HostHeard(L, s, n, i)
    BY <1>2, <1>3, <1>5 DEF JobTells, HostHeard
  <2>3. \A n \in NodesOf(s) : /\ NodeHeard(L, s, n, i) /\ StorageHeard(L, s, n, i)
                              /\ GuestHeard(L, s, n, i)
    BY <1>1, <1>3 DEF NodeHeard, Unread, StorageHeard, GuestHeard, AskedAbout
  <2>4. QED
    BY <1>3, <1>6, <2>1, <2>2, <2>3 DEF JobTells, PoolRead
<1>8. QED
  BY <1>4, <1>7 DEF JobOK

\* A request, and what its answer changes of a job.
Fields(s, at, left, todo, cur, hosts, health, alerts) ==
  /\ at \in Places /\ left \in Seq(Names) /\ todo \in SUBSET NodesOf(s) /\ cur \in NodesOf(s) \cup {0}
  /\ hosts \in [{} -> HostType] \cup [NodesOf(s) -> HostType] /\ health \in Health
  /\ alerts \in SUBSET AlertType(s)

Change(a, at, left, todo, cur, hosts, health, alerts) ==
  [a EXCEPT !.at = at, !.left = left, !.todo = todo, !.cur = cur, !.hosts = hosts,
            !.health = health, !.alerts = alerts]

\* A goroutine that goes to another place with other nodes to do.
Elsewhere(a, at, todo) == [a EXCEPT !.at = at, !.todo = todo]

LEMMA ElsewhereIs ==
  ASSUME NEW s, NEW a \in JobType(s), NEW at, NEW todo
  PROVE  Elsewhere(a, at, todo)
           = Change(a, at, a.left, todo, a.cur, a.hosts, a.health, a.alerts)
<1>1. PICK left, cur, hosts, health, alerts :
        /\ left = a.left /\ cur = a.cur /\ hosts = a.hosts
        /\ health = a.health /\ alerts = a.alerts
  OBVIOUS
<1>2. Elsewhere(a, at, todo) = Change(a, at, left, todo, cur, hosts, health, alerts)
  BY <1>1 DEF Elsewhere, Change, JobType
<1>3. QED
  BY <1>1, <1>2

\* A goroutine that goes on in its list, with a new verdict and new alerts.
ReadOn(a, at, left, health, alerts) ==
  [a EXCEPT !.left = left, !.at = at, !.health = health, !.alerts = alerts]

LEMMA ReadOnIs ==
  ASSUME NEW s, NEW a \in JobType(s), NEW at, NEW left, NEW health, NEW alerts
  PROVE  ReadOn(a, at, left, health, alerts)
           = Change(a, at, left, a.todo, a.cur, a.hosts, health, alerts)
<1>1. PICK todo, cur, hosts : todo = a.todo /\ cur = a.cur /\ hosts = a.hosts
  OBVIOUS
<1>2. ReadOn(a, at, left, health, alerts) = Change(a, at, left, todo, cur, hosts, health, alerts)
  BY <1>1 DEF ReadOn, Change, JobType
<1>3. QED
  BY <1>1, <1>2

\* A goroutine that goes to another place with a new verdict.
Judged(a, at, todo, health, alerts) ==
  [a EXCEPT !.at = at, !.todo = todo, !.health = health, !.alerts = alerts]

LEMMA JudgedIs ==
  ASSUME NEW s, NEW a \in JobType(s), NEW at, NEW todo, NEW health, NEW alerts
  PROVE  Judged(a, at, todo, health, alerts)
           = Change(a, at, a.left, todo, a.cur, a.hosts, health, alerts)
<1>1. PICK left, cur, hosts : left = a.left /\ cur = a.cur /\ hosts = a.hosts
  OBVIOUS
<1>2. Judged(a, at, todo, health, alerts) = Change(a, at, left, todo, cur, hosts, health, alerts)
  BY <1>1 DEF Judged, Change, JobType
<1>3. QED
  BY <1>1, <1>2

\* A goroutine that goes on in its list and knows more of a host.
Learnt(a, at, left, hosts, alerts) ==
  [a EXCEPT !.left = left, !.at = at, !.hosts = hosts, !.alerts = alerts]

LEMMA LearntIs ==
  ASSUME NEW s, NEW a \in JobType(s), NEW at, NEW left, NEW hosts, NEW alerts
  PROVE  Learnt(a, at, left, hosts, alerts)
           = Change(a, at, left, a.todo, a.cur, hosts, a.health, alerts)
<1>1. PICK todo, cur, health : todo = a.todo /\ cur = a.cur /\ health = a.health
  OBVIOUS
<1>2. Learnt(a, at, left, hosts, alerts) = Change(a, at, left, todo, cur, hosts, health, alerts)
  BY <1>1 DEF Learnt, Change, JobType
<1>3. QED
  BY <1>1, <1>2

LEMMA Changed ==
  ASSUME NEW s, NEW a \in JobType(s), NEW at, NEW left, NEW todo, NEW cur, NEW hosts, NEW health,
         NEW alerts, Fields(s, at, left, todo, cur, hosts, health, alerts), NEW i,
         i = Change(a, at, left, todo, cur, hosts, health, alerts)
  PROVE  /\ i \in JobType(s)
         /\ i.at = at /\ i.left = left /\ i.todo = todo /\ i.cur = cur /\ i.hosts = hosts
         /\ i.health = health /\ i.alerts = alerts /\ i.lost = a.lost /\ i.down = a.down
BY DEF JobType, Fields, Change

LEMMA ReadSourceOK ==
  ASSUME Context, NEW s \in Sources, OK(s), ReadSource(s)
  PROVE  Alone(s) /\ JobOK(lasting, ever, s, job'[s])
<1> DEFINE name == Head(job[s].left)
           m == Len(job[s].left)
<1>1. job[s].at = "source" /\ job[s] \in JobType(s) /\ JobOK(lasting, ever, s, job[s])
  BY DEF ReadSource, OK, JobOK, JobShape
<1>2. m \in 1..6 /\ Rest(SourceRequests, job[s].left) /\ job[s].left \in Seq(Names)
  BY <1>1 DEF JobOK, JobShape, JobType
<1>3. /\ name = SourceRequests[7 - m] /\ name \in Names
      /\ Tail(job[s].left) \in Seq(Names) /\ Len(Tail(job[s].left)) = m - 1
      /\ Rest(SourceRequests, Tail(job[s].left))
  <2>1. m \in 1..Len(SourceRequests) /\ Len(SourceRequests) + 1 - m = 7 - m
    BY <1>2, Lists
  <2>2. /\ Head(job[s].left) = SourceRequests[Len(SourceRequests) + 1 - Len(job[s].left)]
        /\ Head(job[s].left) \in Names
        /\ Tail(job[s].left) \in Seq(Names) /\ Len(Tail(job[s].left)) = Len(job[s].left) - 1
        /\ Rest(SourceRequests, Tail(job[s].left))
    BY <1>2, <2>1, Lists, RestOf
  <2>3. QED
    BY <2>1, <2>2
<1>4. PICK http \in Outcomes :
        Proceed(s, [Asked(s, 0, name, http, job[s]) EXCEPT
              !.left = Tail(@),
              !.at = IF Len(Asked(s, 0, name, http, job[s]).left) = 1 THEN "nodes" ELSE @,
              !.health = IF http = 200 THEN MaxHealth(@, SourceVerdict(s, name)) ELSE @,
              !.alerts = IF http = 200 THEN @ \cup ClusterAlerts(s, name) ELSE @])
  BY DEF ReadSource
<1> DEFINE new == IF http = 200 THEN ClusterAlerts(s, name) ELSE {}
           health == IF http = 200 THEN MaxHealth(job[s].health, SourceVerdict(s, name))
                     ELSE job[s].health
           at == IF m = 1 THEN "nodes" ELSE "source"
<1>5. PICK a : a = Asked(s, 0, name, http, job[s])
  OBVIOUS
<1>6. /\ a \in JobType(s)
      /\ a.at = job[s].at /\ a.left = job[s].left /\ a.todo = job[s].todo /\ a.cur = job[s].cur
      /\ a.hosts = job[s].hosts /\ a.health = job[s].health /\ a.alerts = job[s].alerts
      /\ a.lost = job[s].lost
      /\ job[s].down \subseteq a.down
      /\ http # 200 => <<0, name>> \in a.down
  <2>1. http \in Nat /\ 0 \in NodesOf(s) \cup {0}
    BY OutcomeType
  <2>2. job[s] \in JobType(s) /\ name \in Names
    BY <1>1, <1>3
  <2> HIDE DEF name, m, new, health, at
  <2>3. QED
    BY <2>1, <2>2, <1>5, AskedIs
<1>7. Proceed(s, Change(a, at, Tail(a.left), a.todo, a.cur, a.hosts, health, a.alerts \cup new))
  <2>1. Proceed(s, [a EXCEPT
              !.left = Tail(a.left),
              !.at = IF Len(a.left) = 1 THEN "nodes" ELSE a.at,
              !.health = IF http = 200 THEN MaxHealth(a.health, SourceVerdict(s, name)) ELSE a.health,
              !.alerts = IF http = 200 THEN a.alerts \cup ClusterAlerts(s, name) ELSE a.alerts])
    BY <1>4, <1>5
  <2> HIDE DEF name, m
  <2>2. /\ at = IF Len(a.left) = 1 THEN "nodes" ELSE a.at
        /\ health = IF http = 200 THEN MaxHealth(a.health, SourceVerdict(s, name)) ELSE a.health
        /\ a.alerts \cup new = IF http = 200 THEN a.alerts \cup ClusterAlerts(s, name) ELSE a.alerts
    BY <1>1, <1>6 DEF m
  <2> HIDE DEF at, health, new
  <2>3. Proceed(s, ReadOn(a, at, Tail(a.left), health, a.alerts \cup new))
    BY <2>1, <2>2 DEF ReadOn
  <2>4. QED
    BY <2>3, <1>6, ReadOnIs
<1>8. new \subseteq AlertType(s) /\ \A e \in new : AlertTrue(ever, e)
  <2>1. CASE name \in {"cluster_status", "ha_resources", "ceph"}
    <3>1. PICK h \in Health : /\ ClusterAlerts(s, name) = Raised(s, 0, name, h)
                              /\ Between(lasting, ever, s, 0, name, h)
      BY <2>1, SourceRead
    <3>2. name \in Tells(name) /\ name # "offline"
      BY <2>1, TellsAndLearns
    <3> HIDE DEF name
    <3>3. QED
      BY <1>3, <3>1, <3>2, RaisedTrue, RaisedType DEF AlertType
  <2>2. QED
    BY <2>1, OtherSourceRead
<1>9. health \in Health /\ at \in Places /\ a.alerts \cup new \in SUBSET AlertType(s)
  BY <1>1, <1>6, <1>8, SourceVerdictType DEF JobType, MaxHealth, Places
<1> DEFINE i == job'[s]
<1>10. /\ Alone(s) /\ i \in JobType(s)
       /\ i.at = at /\ i.left = Tail(job[s].left) /\ i.todo = job[s].todo
       /\ i.hosts = job[s].hosts /\ i.alerts = job[s].alerts \cup new
       /\ i.lost = job[s].lost /\ i.down = a.down
  <2> HIDE DEF at, health, new, name, m
  <2>1. Alone(s) /\ i = Change(a, at, Tail(a.left), a.todo, a.cur, a.hosts, health, a.alerts \cup new)
    BY <1>7, ProceedIs
  <2>2. a \in JobType(s) /\ Tail(a.left) = Tail(job[s].left)
    BY <1>6
  <2>3. Fields(s, at, Tail(a.left), a.todo, a.cur, a.hosts, health, a.alerts \cup new)
    <3>1. /\ a.todo \in SUBSET NodesOf(s) /\ a.cur \in NodesOf(s) \cup {0}
          /\ a.hosts \in [{} -> HostType] \cup [NodesOf(s) -> HostType]
      BY <2>2 DEF JobType
    <3>2. Tail(a.left) \in Seq(Names)
      BY <1>3, <2>2
    <3>3. QED
      BY <1>9, <3>1, <3>2 DEF Fields
  <2> DEFINE alerts == a.alerts \cup new
  <2> HIDE DEF i, alerts
  <2>4. /\ i \in JobType(s) /\ i.at = at /\ i.left = Tail(a.left) /\ i.todo = a.todo /\ i.hosts = a.hosts
        /\ i.alerts = alerts /\ i.lost = a.lost /\ i.down = a.down
    <3>1. /\ Fields(s, at, Tail(a.left), a.todo, a.cur, a.hosts, health, alerts)
          /\ i = Change(a, at, Tail(a.left), a.todo, a.cur, a.hosts, health, alerts)
      BY <2>1, <2>3 DEF alerts
    <3>2. QED
      BY <2>2, <3>1, Changed
  <2>5. QED
    BY <1>6, <2>1, <2>4 DEF alerts
<1>11. ASSUME name \in {"cluster_status", "ha_resources", "ceph"}
       PROVE  Heard(lasting, s, 0, name, i.alerts, i.down)
  <2>1. name \in Tells(name) /\ name \in LearntFrom(name) /\ Shows(name)
    BY <1>11, TellsAndLearns, ShownFailures
  <2>2. CASE http = 200
    <3>1. PICK h \in Health : /\ ClusterAlerts(s, name) = Raised(s, 0, name, h)
                              /\ Between(lasting, ever, s, 0, name, h)
      BY <1>11, SourceRead
    <3>2. Raised(s, 0, name, h) \subseteq i.alerts
      BY <2>2, <3>1, <1>10
    <3> HIDE DEF name, i
    <3>3. QED
      BY <2>1, <3>1, <3>2, HeardByAlert
  <2>3. CASE http # 200
    <3> HIDE DEF name, i
    <3>1. QED
      BY <2>1, <2>3, <1>6, <1>10, HeardByFailure
  <2>4. QED
    BY <2>2, <2>3
<1>12. QED
  <2> HIDE DEF name, i, new, at, m
  <2>1. SourceAnswer(lasting, ever, s, job[s], i, new, m, name)
    BY <1>1, <1>2, <1>3, <1>6, <1>8, <1>10, <1>11 DEF SourceAnswer, at, m
  <2>2. JobOK(lasting, ever, s, i)
    BY <1>1, <2>1, SourceStep
  <2>3. QED
    BY <1>10, <2>2 DEF i

(***************************************************************************)
(* The steps that send no request.                                         *)
(***************************************************************************)
\* Only where the goroutine is changes.
Same(s, j, i) ==
  /\ i \in JobType(s) /\ i.hosts = j.hosts /\ i.alerts = j.alerts /\ i.down = j.down /\ i.lost = j.lost

Where(s, at, left, todo, cur) ==
  at \in Places /\ left \in Seq(Names) /\ todo \in SUBSET NodesOf(s) /\ cur \in NodesOf(s) \cup {0}

Move(j, at, left, todo, cur) == [j EXCEPT !.at = at, !.left = left, !.todo = todo, !.cur = cur]

LEMMA Moved ==
  ASSUME Context, NEW s \in Sources, job[s] \in JobType(s), NEW at, NEW left, NEW todo, NEW cur,
         Where(s, at, left, todo, cur), Proceed(s, Move(job[s], at, left, todo, cur))
  PROVE  /\ Alone(s) /\ Same(s, job[s], job'[s])
         /\ job'[s].at = at /\ job'[s].left = left /\ job'[s].todo = todo /\ job'[s].cur = cur
<1>1. Alone(s) /\ job'[s] = Move(job[s], at, left, todo, cur)
  BY ProceedIs
<1>2. QED
  BY <1>1 DEF Same, JobType, Move, Where

\* What stays when nothing new is told.
LEMMA SameTells ==
  ASSUME NEW L, NEW E, NEW s, NEW j, NEW i, JobOK(L, E, s, j), Begun(j), Same(s, j, i),
         i.at \notin {"idle", "resources", "done"}, i.lost = j.lost
  PROVE  /\ i.hosts \in [NodesOf(s) -> HostType]
         /\ JobTells(L, E, s, j)
         /\ \A a \in i.alerts : AlertTrue(E, a)
         /\ \A n \in NodesOf(s) : HostReads(L, E, s, n, i.hosts[n])
         /\ \A n \in NodesOf(s) : HostHeard(L, s, n, i)
         /\ \A n, k : Heard(L, s, n, k, i.alerts, i.down) <=> Heard(L, s, n, k, j.alerts, j.down)
BY DEF JobOK, JobShape, JobTells, Same, HostHeard

BeginsNode(s, j, i, n) ==
  /\ Same(s, j, i)
  /\ j.at = "nodes" /\ n \in j.todo
  /\ i.at = "node" /\ i.left = NodeRequests /\ i.todo = j.todo \ {n} /\ i.cur = n

LEMMA NextNodeStep ==
  ASSUME NEW L, NEW E, NEW s, NEW j, NEW i, NEW n, JobOK(L, E, s, j), BeginsNode(s, j, i, n)
  PROVE  JobOK(L, E, s, i)
<1> USE DEF BeginsNode
<1>1. Begun(j) /\ i.at \notin {"idle", "resources", "done"} /\ i.lost = j.lost /\ j \in JobType(s) /\ i \in JobType(s)
  BY DEF JobOK, JobShape, Begun, Same
<1>2. /\ i.hosts \in [NodesOf(s) -> HostType]
      /\ JobTells(L, E, s, j)
      /\ \A a \in i.alerts : AlertTrue(E, a)
      /\ \A m \in NodesOf(s) : HostReads(L, E, s, m, i.hosts[m])
      /\ \A m \in NodesOf(s) : HostHeard(L, s, m, i)
      /\ \A m, k : Heard(L, s, m, k, i.alerts, i.down) <=> Heard(L, s, m, k, j.alerts, j.down)
  BY <1>1, SameTells
<1>3. i.cur \in NodesOf(s) \ i.todo /\ Len(i.left) = 12 /\ Rest(NodeRequests, i.left)
  BY <1>1, Lists, AllLeft DEF JobType
<1>4. JobShape(s, i)
  BY <1>1, <1>2, <1>3 DEF JobShape, Begun
<1>5. ASSUME NEW m \in NodesOf(s) PROVE NodeHeard(L, s, m, i)
  <2>1. NodeHeard(L, s, m, j)
    BY <1>2 DEF JobTells
  <2>2. \A x \in 1..12 : Unread(j, m, x) => Unread(i, m, x)
    BY <1>3 DEF Unread
  <2>3. QED
    BY <1>2, <2>1, <2>2 DEF NodeHeard
<1>6. JobTells(L, E, s, i)
  BY <1>2, <1>3, <1>5 DEF JobTells, PoolRead, StorageHeard, GuestHeard, AskedAbout, SourceHeard
<1>7. QED
  BY <1>4, <1>6 DEF JobOK

BeginsStorages(s, j, i) ==
  /\ Same(s, j, i)
  /\ j.at = "nodes" /\ j.todo = {}
  /\ i.at = "storages" /\ i.todo = NodesOf(s) \cap Storages

LEMMA ToStoragesStep ==
  ASSUME NEW L, NEW E, NEW s, NEW j, NEW i, JobOK(L, E, s, j), BeginsStorages(s, j, i)
  PROVE  JobOK(L, E, s, i)
<1> USE DEF BeginsStorages
<1>1. Begun(j) /\ i.at \notin {"idle", "resources", "done"} /\ i.lost = j.lost /\ i \in JobType(s)
  BY DEF JobOK, JobShape, Begun, Same
<1>2. /\ i.hosts \in [NodesOf(s) -> HostType]
      /\ JobTells(L, E, s, j)
      /\ \A a \in i.alerts : AlertTrue(E, a)
      /\ \A m \in NodesOf(s) : HostReads(L, E, s, m, i.hosts[m])
      /\ \A m \in NodesOf(s) : HostHeard(L, s, m, i)
      /\ \A m, k : Heard(L, s, m, k, i.alerts, i.down) <=> Heard(L, s, m, k, j.alerts, j.down)
  BY <1>1, SameTells
<1>3. JobShape(s, i)
  BY <1>1, <1>2 DEF JobShape, Begun
<1>4. ASSUME NEW m \in NodesOf(s) PROVE NodeHeard(L, s, m, i)
  <2>1. NodeHeard(L, s, m, j)
    BY <1>2 DEF JobTells
  <2>2. QED
    BY <1>2, <2>1 DEF NodeHeard, Unread
<1>5. JobTells(L, E, s, i)
  BY <1>2, <1>4 DEF JobTells, PoolRead, StorageHeard, GuestHeard, AskedAbout, SourceHeard
<1>6. QED
  BY <1>3, <1>5 DEF JobOK

BeginsGuests(s, j, i) ==
  /\ Same(s, j, i)
  /\ j.at = "storages" /\ j.todo = {}
  /\ i.at = "guests"
  /\ i.todo = {n \in NodesOf(s) \cap Guests : j.hosts[n].listed.guest # "GONE"}

\* A guest that is in no list has nothing wrong with its status.
LEMMA ToGuestsStep ==
  ASSUME NEW L, NEW E, NEW s, NEW j, NEW i, JobOK(L, E, s, j), BeginsGuests(s, j, i)
  PROVE  JobOK(L, E, s, i)
<1> USE DEF BeginsGuests
<1>1. Begun(j) /\ i.at \notin {"idle", "resources", "done"} /\ i.lost = j.lost /\ i \in JobType(s)
  BY DEF JobOK, JobShape, Begun, Same
<1>2. /\ i.hosts \in [NodesOf(s) -> HostType]
      /\ JobTells(L, E, s, j)
      /\ \A a \in i.alerts : AlertTrue(E, a)
      /\ \A m \in NodesOf(s) : HostReads(L, E, s, m, i.hosts[m])
      /\ \A m \in NodesOf(s) : HostHeard(L, s, m, i)
      /\ \A m, k : Heard(L, s, m, k, i.alerts, i.down) <=> Heard(L, s, m, k, j.alerts, j.down)
  BY <1>1, SameTells
<1>3. JobShape(s, i)
  BY <1>1, <1>2 DEF JobShape, Begun
<1>4. ASSUME NEW m \in NodesOf(s) PROVE NodeHeard(L, s, m, i)
  <2>1. NodeHeard(L, s, m, j)
    BY <1>2 DEF JobTells
  <2>2. QED
    BY <1>2, <2>1 DEF NodeHeard, Unread
<1>5. ASSUME NEW m \in NodesOf(s) \cap Guests PROVE GuestHeard(L, s, m, i)
  <2>0. i.hosts = j.hosts
    BY DEF Same
  <2>1. CASE m \in i.todo
    BY <2>0, <2>1 DEF GuestHeard, AskedAbout
  <2>2. CASE m \notin i.todo
    <3>1. j.hosts[m].listed.guest = "GONE"
      BY <2>2
    <3>2. Between(L, E, s, m, "guest_status", "ok")
      BY <1>2, <3>1 DEF JobTells, HostReads
    <3>3. \A l : <<s, m, "guest_status", l>> \notin L
      BY <3>2, LevelsOf DEF Between
    <3>4. QED
      BY <2>2, <3>3 DEF GuestHeard, AskedAbout, Heard
  <2>3. QED
    BY <2>1, <2>2
<1>6. ASSUME NEW m \in NodesOf(s) \cap Storages PROVE StorageHeard(L, s, m, i)
  <2>1. StorageHeard(L, s, m, j)
    BY <1>2 DEF JobTells
  <2>2. QED
    BY <1>2, <2>1 DEF StorageHeard
<1>7. SourceHeard(L, s, i) /\ PoolRead(L, E, s, i)
  BY <1>2 DEF JobTells, SourceHeard, PoolRead
<1>8. JobTells(L, E, s, i)
  BY <1>2, <1>4, <1>5, <1>6, <1>7 DEF JobTells
<1>9. QED
  BY <1>3, <1>8 DEF JobOK

BeginsGuest(s, j, i, n) ==
  /\ Same(s, j, i)
  /\ j.at = "guests" /\ n \in j.todo
  /\ i.at = "guest" /\ i.left = GuestRequests /\ i.todo = j.todo \ {n} /\ i.cur = n

LEMMA NextGuestStep ==
  ASSUME NEW L, NEW E, NEW s, NEW j, NEW i, NEW n, JobOK(L, E, s, j), BeginsGuest(s, j, i, n)
  PROVE  JobOK(L, E, s, i)
<1> USE DEF BeginsGuest
<1>1. Begun(j) /\ i.at \notin {"idle", "resources", "done"} /\ i.lost = j.lost /\ j \in JobType(s) /\ i \in JobType(s)
      /\ j.todo \subseteq Guests
  BY DEF JobOK, JobShape, Begun, Same
<1>2. /\ i.hosts \in [NodesOf(s) -> HostType]
      /\ JobTells(L, E, s, j)
      /\ \A a \in i.alerts : AlertTrue(E, a)
      /\ \A m \in NodesOf(s) : HostReads(L, E, s, m, i.hosts[m])
      /\ \A m \in NodesOf(s) : HostHeard(L, s, m, i)
      /\ \A m, k : Heard(L, s, m, k, i.alerts, i.down) <=> Heard(L, s, m, k, j.alerts, j.down)
  BY <1>1, SameTells
<1>3. i.cur \in (NodesOf(s) \cap Guests) \ i.todo /\ Len(i.left) = 5 /\ Rest(GuestRequests, i.left)
      /\ i.todo \subseteq Guests
  BY <1>1, Lists, AllLeft DEF JobType
<1>4. JobShape(s, i)
  BY <1>1, <1>2, <1>3 DEF JobShape, Begun
<1>5. ASSUME NEW m \in NodesOf(s) PROVE NodeHeard(L, s, m, i)
  <2>1. NodeHeard(L, s, m, j)
    BY <1>2 DEF JobTells
  <2>2. QED
    BY <1>2, <2>1 DEF NodeHeard, Unread
<1>6. ASSUME NEW m \in NodesOf(s) \cap Storages PROVE StorageHeard(L, s, m, i)
  <2>1. StorageHeard(L, s, m, j)
    BY <1>2 DEF JobTells
  <2>2. QED
    BY <1>2, <2>1 DEF StorageHeard
<1>7. ASSUME NEW m \in NodesOf(s) \cap Guests PROVE GuestHeard(L, s, m, i)
  <2>1. GuestHeard(L, s, m, j) /\ i.hosts = j.hosts
    BY <1>2 DEF JobTells, Same
  <2>2. AskedAbout(i, m) <=> AskedAbout(j, m)
    BY DEF AskedAbout
  <2>3. QED
    BY <1>2, <2>1, <2>2 DEF GuestHeard
<1>8. SourceHeard(L, s, i) /\ PoolRead(L, E, s, i)
  BY <1>2 DEF JobTells, SourceHeard, PoolRead
<1>9. JobTells(L, E, s, i)
  BY <1>2, <1>5, <1>6, <1>7, <1>8 DEF JobTells
<1>10. QED
  BY <1>4, <1>9 DEF JobOK

LEMMA NextNodeOK ==
  ASSUME Context, NEW s \in Sources, OK(s), NextNode(s)
  PROVE  Alone(s) /\ JobOK(lasting, ever, s, job'[s])
<1>1. JobOK(lasting, ever, s, job[s]) /\ job[s] \in JobType(s) /\ job[s].at = "nodes"
  BY DEF OK, JobOK, JobShape, NextNode
<1>2. PICK n \in job[s].todo :
        Proceed(s, [job[s] EXCEPT !.at = "node", !.left = NodeRequests,
                                  !.todo = job[s].todo \ {n}, !.cur = n])
  BY DEF NextNode
<1>3. PICK todo : todo = job[s].todo \ {n}
  OBVIOUS
<1>4. Where(s, "node", NodeRequests, todo, n)
  BY <1>1, <1>3, Lists DEF JobType, Places, Where
<1>5. Proceed(s, Move(job[s], "node", NodeRequests, todo, n))
  BY <1>2, <1>3 DEF Move
<1>6. /\ Alone(s) /\ Same(s, job[s], job'[s])
      /\ job'[s].at = "node" /\ job'[s].left = NodeRequests /\ job'[s].todo = todo /\ job'[s].cur = n
  BY <1>1, <1>4, <1>5, Moved
<1>7. BeginsNode(s, job[s], job'[s], n)
  BY <1>1, <1>2, <1>3, <1>6 DEF BeginsNode
<1>8. QED
  BY <1>1, <1>6, <1>7, NextNodeStep

LEMMA ToStoragesOK ==
  ASSUME Context, NEW s \in Sources, OK(s), ToStorages(s)
  PROVE  Alone(s) /\ JobOK(lasting, ever, s, job'[s])
<1>1. /\ JobOK(lasting, ever, s, job[s]) /\ job[s] \in JobType(s)
      /\ job[s].at = "nodes" /\ job[s].todo = {}
  BY DEF OK, JobOK, JobShape, ToStorages
<1>2. PICK todo : todo = NodesOf(s) \cap Storages
  OBVIOUS
<1>3. Where(s, "storages", job[s].left, todo, job[s].cur)
  BY <1>1, <1>2 DEF JobType, Places, Where
<1>4. Proceed(s, Move(job[s], "storages", job[s].left, todo, job[s].cur))
  BY <1>1, <1>2 DEF ToStorages, JobType, Move
<1>5. Alone(s) /\ Same(s, job[s], job'[s]) /\ job'[s].at = "storages" /\ job'[s].todo = todo
  BY <1>1, <1>3, <1>4, Moved
<1>6. BeginsStorages(s, job[s], job'[s])
  BY <1>1, <1>2, <1>5 DEF BeginsStorages
<1>7. QED
  BY <1>1, <1>5, <1>6, ToStoragesStep

LEMMA ToGuestsOK ==
  ASSUME Context, NEW s \in Sources, OK(s), ToGuests(s)
  PROVE  Alone(s) /\ JobOK(lasting, ever, s, job'[s])
<1>1. /\ JobOK(lasting, ever, s, job[s]) /\ job[s] \in JobType(s)
      /\ job[s].at = "storages" /\ job[s].todo = {}
  BY DEF OK, JobOK, JobShape, ToGuests
<1>2. PICK todo : todo = {n \in NodesOf(s) \cap Guests : job[s].hosts[n].listed.guest # "GONE"}
  OBVIOUS
<1>3. Where(s, "guests", job[s].left, todo, job[s].cur)
  BY <1>1, <1>2 DEF JobType, Places, Where
<1>4. Proceed(s, Move(job[s], "guests", job[s].left, todo, job[s].cur))
  BY <1>1, <1>2 DEF ToGuests, JobType, Move
<1>5. Alone(s) /\ Same(s, job[s], job'[s]) /\ job'[s].at = "guests" /\ job'[s].todo = todo
  BY <1>1, <1>3, <1>4, Moved
<1>6. BeginsGuests(s, job[s], job'[s])
  BY <1>1, <1>2, <1>5 DEF BeginsGuests
<1>7. QED
  BY <1>1, <1>5, <1>6, ToGuestsStep

LEMMA NextGuestOK ==
  ASSUME Context, NEW s \in Sources, OK(s), NextGuest(s)
  PROVE  Alone(s) /\ JobOK(lasting, ever, s, job'[s])
<1>1. JobOK(lasting, ever, s, job[s]) /\ job[s] \in JobType(s) /\ job[s].at = "guests"
  BY DEF OK, JobOK, JobShape, NextGuest
<1>2. PICK n \in job[s].todo :
        Proceed(s, [job[s] EXCEPT !.at = "guest", !.left = GuestRequests,
                                  !.todo = job[s].todo \ {n}, !.cur = n])
  BY DEF NextGuest
<1>3. PICK todo : todo = job[s].todo \ {n}
  OBVIOUS
<1>4. Where(s, "guest", GuestRequests, todo, n)
  BY <1>1, <1>3, Lists DEF JobType, Places, Where
<1>5. Proceed(s, Move(job[s], "guest", GuestRequests, todo, n))
  BY <1>2, <1>3 DEF Move
<1>6. /\ Alone(s) /\ Same(s, job[s], job'[s])
      /\ job'[s].at = "guest" /\ job'[s].left = GuestRequests /\ job'[s].todo = todo /\ job'[s].cur = n
  BY <1>1, <1>4, <1>5, Moved
<1>7. BeginsGuest(s, job[s], job'[s], n)
  BY <1>1, <1>2, <1>3, <1>6 DEF BeginsGuest
<1>8. QED
  BY <1>1, <1>6, <1>7, NextGuestStep

(***************************************************************************)
(* The steps that send a request.                                          *)
(***************************************************************************)
Request(s, n, name, http) == n \in NodesOf(s) \cup {0} /\ name \in Names /\ http \in Nat

\* What a request makes of job j, whatever the answer changes.
Answered(s, n, name, http, j, i) ==
  /\ i \in JobType(s) /\ i.lost = j.lost
  /\ j.down \subseteq i.down
  /\ http # 200 => <<n, name>> \in i.down

\* What asking makes of job j.
HasAsked(s, n, name, http, j, a) ==
  /\ a \in JobType(s)
  /\ a.at = j.at /\ a.left = j.left /\ a.todo = j.todo /\ a.cur = j.cur
  /\ a.hosts = j.hosts /\ a.health = j.health /\ a.alerts = j.alerts /\ a.lost = j.lost
  /\ j.down \subseteq a.down
  /\ http # 200 => <<n, name>> \in a.down

LEMMA AskedType ==
  ASSUME NEW s \in Sources, NEW j \in JobType(s), NEW n, NEW name, NEW http, Request(s, n, name, http)
  PROVE  HasAsked(s, n, name, http, j, Asked(s, n, name, http, j))
<1>1. /\ n \in NodesOf(s) \cup {0} /\ name \in Names /\ http \in Nat
  BY DEF Request
<1>2. QED
  BY <1>1, AskedIs DEF HasAsked

LEMMA AskedAndChanged ==
  ASSUME Context, NEW s \in Sources, job[s] \in JobType(s),
         NEW n, NEW name, NEW http, Request(s, n, name, http),
         NEW at, NEW left, NEW todo, NEW cur, NEW hosts, NEW health, NEW alerts,
         Fields(s, at, left, todo, cur, hosts, health, alerts),
         Proceed(s, Change(Asked(s, n, name, http, job[s]), at, left, todo, cur, hosts, health, alerts))
  PROVE  /\ Alone(s) /\ Answered(s, n, name, http, job[s], job'[s])
         /\ job'[s].at = at /\ job'[s].left = left /\ job'[s].todo = todo /\ job'[s].cur = cur
         /\ job'[s].hosts = hosts /\ job'[s].alerts = alerts
<1>1. PICK a : a = Asked(s, n, name, http, job[s])
  OBVIOUS
<1>2. /\ a \in JobType(s) /\ a.lost = job[s].lost /\ job[s].down \subseteq a.down
      /\ http # 200 => <<n, name>> \in a.down
  <2>1. HasAsked(s, n, name, http, job[s], a)
    BY <1>1, AskedType
  <2>2. QED
    BY <2>1 DEF HasAsked
<1>3. Alone(s) /\ job'[s] = Change(a, at, left, todo, cur, hosts, health, alerts)
  BY <1>1, ProceedIs
<1>4. /\ job'[s] \in JobType(s)
      /\ job'[s].at = at /\ job'[s].left = left /\ job'[s].todo = todo /\ job'[s].cur = cur
      /\ job'[s].hosts = hosts /\ job'[s].alerts = alerts
      /\ job'[s].lost = a.lost /\ job'[s].down = a.down
  BY <1>2, <1>3, Changed
<1>5. QED
  BY <1>2, <1>3, <1>4 DEF Answered

\* What the m-th request from the end about node n makes of job j: h is the host now.
NodeAnswer(L, E, s, j, i, new, m, n, h, http) ==
  /\ j.at = "node" /\ n = j.cur /\ Len(j.left) = m /\ m \in 1..12
  /\ i \in JobType(s) /\ i.lost = j.lost /\ i.todo = j.todo /\ i.cur = n
  /\ Rest(NodeRequests, i.left)
  /\ Len(i.left) = IF m = 6 /\ http # 200 THEN 4 ELSE m - 1
  /\ i.at = IF Len(i.left) = 0 THEN "nodes" ELSE "node"
  /\ i.hosts = [j.hosts EXCEPT ![n] = h]
  /\ h \in HostType /\ HostReads(L, E, s, n, h) /\ h.named = j.hosts[n].named
  /\ i.alerts = j.alerts \cup new /\ j.down \subseteq i.down
  /\ \A e \in new : AlertTrue(E, e)
  /\ m = 11 => Heard(L, s, n, "node_certificates", i.alerts, i.down)
  /\ m = 7 => Heard(L, s, n, "services", i.alerts, i.down)
  /\ m = 5 \/ (m = 6 /\ http # 200) => /\ Heard(L, s, n, "zfs_pools", i.alerts, i.down)
                                   /\ Heard(L, s, n, "zfs_pool_detail", i.alerts, i.down)
  /\ m = 6 /\ http = 200 => Between(L, E, s, n, "zfs_pools", HealthFromText(h.listed.pool))

LEMMA NodeStep ==
  ASSUME NEW L, NEW E, NEW s, NEW j, NEW i, NEW new, NEW m, NEW n, NEW h, NEW http,
         JobOK(L, E, s, j), NodeAnswer(L, E, s, j, i, new, m, n, h, http)
  PROVE  JobOK(L, E, s, i)
<1>a. /\ j.at = "node" /\ n = j.cur /\ Len(j.left) = m /\ m \in 1..12
      /\ i \in JobType(s) /\ i.lost = j.lost /\ i.todo = j.todo /\ i.cur = n
      /\ Rest(NodeRequests, i.left)
      /\ i.at = IF Len(i.left) = 0 THEN "nodes" ELSE "node"
  BY DEF NodeAnswer
<1>b. m \in 1..12 /\ Len(i.left) = IF m = 6 /\ http # 200 THEN 4 ELSE m - 1
  BY DEF NodeAnswer
<1>c. /\ i.hosts = [j.hosts EXCEPT ![n] = h]
      /\ h \in HostType /\ HostReads(L, E, s, n, h) /\ h.named = j.hosts[n].named
  BY DEF NodeAnswer
<1>d. i.alerts = j.alerts \cup new /\ j.down \subseteq i.down /\ \A e \in new : AlertTrue(E, e)
  BY DEF NodeAnswer
<1>e. /\ m = 11 => Heard(L, s, n, "node_certificates", i.alerts, i.down)
      /\ m = 7 => Heard(L, s, n, "services", i.alerts, i.down)
      /\ m = 5 \/ (m = 6 /\ http # 200) => /\ Heard(L, s, n, "zfs_pools", i.alerts, i.down)
                                       /\ Heard(L, s, n, "zfs_pool_detail", i.alerts, i.down)
  BY DEF NodeAnswer
<1>f. m = 6 /\ http = 200 => Between(L, E, s, n, "zfs_pools", HealthFromText(h.listed.pool))
  BY DEF NodeAnswer
<1>1. /\ j \in JobType(s) /\ i \in JobType(s) /\ ~j.lost /\ Begun(j)
      /\ j.hosts \in [NodesOf(s) -> HostType]
      /\ n \in NodesOf(s) /\ n \notin j.todo
  BY <1>a DEF JobOK, JobShape, Begun
<1>2. JobTells(L, E, s, j)
  BY <1>1 DEF JobOK
<1>3. i.hosts \in [NodesOf(s) -> HostType] /\ i.hosts[n] = h
      /\ \A x \in NodesOf(s) \ {n} : i.hosts[x] = j.hosts[x]
  BY <1>1, <1>c
<1>4. /\ i.at \in {"nodes", "node"}
      /\ i.at = "node" => Len(i.left) \in 1..12
      /\ Len(i.left) \in 0..11 /\ m \in 1..12
      /\ i.at = "nodes" => Len(i.left) = 0
  <2>1. CASE m = 6 /\ http # 200
    BY <1>a, <1>b, <2>1
  <2>2. CASE ~(m = 6 /\ http # 200)
    BY <1>a, <1>b, <2>2
  <2>3. QED
    BY <2>1, <2>2
<1>5. JobShape(s, i)
  BY <1>1, <1>3, <1>4, <1>a DEF JobShape
<1>6. \A x, k : Heard(L, s, x, k, j.alerts, j.down) => Heard(L, s, x, k, i.alerts, i.down)
  <2>1. j.alerts \subseteq i.alerts /\ j.down \subseteq i.down
    BY <1>d
  <2>2. QED
    BY <2>1, HeardLater
<1>7. ASSUME NEW x \in NodesOf(s) PROVE NodeHeard(L, s, x, i)
  <2>1. NodeHeard(L, s, x, j)
    BY <1>2 DEF JobTells
  <2>2. CASE x # n
    <3>1. \A y \in 1..12 : Unread(j, x, y) => Unread(i, x, y)
      BY <1>4, <1>a, <2>2 DEF Unread
    <3>2. QED
      BY <1>4, <1>6, <2>1, <3>1 DEF NodeHeard
  <2>3. CASE x = n
    <3>1. \A y \in 1..12 : Unread(j, n, y) => m >= y
      BY <1>1, <1>a DEF Unread
    <3>2. \A y \in 1..12 : Len(i.left) >= y => Unread(i, n, y)
      BY <1>4, <1>a DEF Unread
    <3>3. Unread(i, n, 11) \/ Heard(L, s, n, "node_certificates", i.alerts, i.down)
      <4>1. CASE m = 12
        <5>1. Len(i.left) >= 11
          BY <1>b, <4>1
        <5>2. QED
          BY <3>2, <5>1
      <4>2. CASE m < 11
        <5>1. ~Unread(j, n, 11)
          BY <1>b, <3>1, <4>2
        <5>2. QED
          BY <1>6, <2>1, <2>3, <5>1 DEF NodeHeard
      <4>4. CASE m = 11
        BY <1>e, <4>4
      <4>3. QED
        BY <1>4, <4>1, <4>2, <4>4
    <3>4. Unread(i, n, 7) \/ Heard(L, s, n, "services", i.alerts, i.down)
      <4>1. CASE m >= 8
        <5>1. Len(i.left) >= 7
          BY <1>b, <4>1
        <5>2. QED
          BY <3>2, <5>1
      <4>2. CASE m < 7
        <5>1. ~Unread(j, n, 7)
          BY <1>b, <3>1, <4>2
        <5>2. QED
          BY <1>6, <2>1, <2>3, <5>1 DEF NodeHeard
      <4>3. CASE m = 7
        BY <1>e, <4>3
      <4>4. QED
        BY <1>4, <4>1, <4>2, <4>3
    <3>5. \/ Unread(i, n, 5)
          \/ /\ Heard(L, s, n, "zfs_pools", i.alerts, i.down)
             /\ Heard(L, s, n, "zfs_pool_detail", i.alerts, i.down)
      <4>1. CASE m >= 6 /\ ~(m = 6 /\ http # 200)
        <5>1. Len(i.left) >= 5
          BY <1>b, <4>1
        <5>2. QED
          BY <3>2, <5>1
      <4>2. CASE m <= 4
        <5>1. ~Unread(j, n, 5)
          BY <1>b, <3>1, <4>2
        <5>2. QED
          BY <1>6, <2>1, <2>3, <5>1 DEF NodeHeard
      <4>3. CASE m = 5 \/ (m = 6 /\ http # 200)
        BY <1>e, <4>3
      <4>4. QED
        BY <1>4, <4>1, <4>2, <4>3
    <3>6. Heard(L, s, n, "tasks", i.alerts, i.down) \/ i.at \notin {"done", "tasks"}
      BY <1>4
    <3>7. QED
      BY <2>3, <3>3, <3>4, <3>5, <3>6 DEF NodeHeard
  <2>4. QED
    BY <2>2, <2>3
<1>8. PoolRead(L, E, s, i)
  <2> SUFFICES ASSUME i.at = "node", Len(i.left) = 5
               PROVE  Between(L, E, s, n, "zfs_pools", HealthFromText(h.listed.pool))
    BY <1>3, <1>a DEF PoolRead
  <2>1. m = 6 /\ http = 200
    <3>1. CASE m = 6 /\ http # 200
      BY <1>b, <3>1
    <3>2. CASE ~(m = 6 /\ http # 200)
      <4>1. m \in 1..12 /\ 5 = m - 1
        BY <1>b, <3>2
      <4>2. QED
        BY <3>2, <4>1
    <3>3. QED
      BY <3>1, <3>2
  <2>2. QED
    BY <1>f, <2>1
<1>9. \A x \in NodesOf(s) : HostReads(L, E, s, x, i.hosts[x]) /\ HostHeard(L, s, x, i)
  <2>1. \A x \in NodesOf(s) : HostReads(L, E, s, x, j.hosts[x]) /\ HostHeard(L, s, x, j)
    BY <1>2 DEF JobTells
  <2>2. \A x \in NodesOf(s) : i.hosts[x].named = j.hosts[x].named
    BY <1>3, <1>c
  <2>3. \A x \in NodesOf(s) : HostReads(L, E, s, x, i.hosts[x])
    BY <1>3, <1>c, <2>1
  <2>4. QED
    BY <1>4, <1>6, <2>1, <2>2, <2>3 DEF HostHeard
<1>10. SourceHeard(L, s, i)
  BY <1>2, <1>4, <1>6, <1>a DEF JobTells, SourceHeard
<1>11. JobTells(L, E, s, i)
  <2>1. \A e \in i.alerts : AlertTrue(E, e)
    BY <1>2, <1>d DEF JobTells
  <2>2. \A x \in NodesOf(s) : StorageHeard(L, s, x, i) /\ GuestHeard(L, s, x, i)
    BY <1>4, <1>a DEF StorageHeard, GuestHeard, AskedAbout
  <2>3. QED
    BY <1>7, <1>8, <1>9, <1>10, <2>1, <2>2 DEF JobTells
<1>12. QED
  BY <1>5, <1>11 DEF JobOK

(***************************************************************************)
(* Answers about a node.                                                   *)
(***************************************************************************)
\* Any verdict on what a node is like now.
LEMMA OnNode ==
  ASSUME Context, NEW s \in Sources, NEW n \in NodesOf(s), NEW k \in DOMAIN WrongOnNode(node[n]), NEW h,
         Levels(h) = Levels(WrongOnNode(node[n])[k])
  PROVE  Between(lasting, ever, s, n, k, h)
BY NodeNow DEF Context, NodesOf

\* What ails a node, by name.
LEMMA AilsNode ==
  ASSUME NEW w
  PROVE  /\ {"offline", "mem", "root", "node_certificates", "services", "zfs_pools", "zfs_pool_detail",
             "tasks"} \subseteq DOMAIN WrongOnNode(w)
         /\ WrongOnNode(w)["offline"] = IF w.online THEN "ok" ELSE "critical"
         /\ WrongOnNode(w)["mem"] = Level(w.mem, MemWarn, MemCrit)
         /\ WrongOnNode(w)["root"] = Level(w.root, StoWarn, StoCrit)
         /\ WrongOnNode(w)["node_certificates"] =
              IF w.until <= 0 THEN "critical" ELSE IF w.until < 31 * 24 THEN "warning" ELSE "ok"
         /\ WrongOnNode(w)["zfs_pool_detail"] = IF w.device = "ONLINE" THEN "ok" ELSE "warning"
<1>1. DOMAIN WrongOnNode(w) = {"offline", "mem", "root", "node_certificates", "services", "zfs_pools",
                               "pool_unavail", "zfs_pool_detail", "disks", "tasks"}
  BY DEF WrongOnNode
<1>2. WrongOnNode(w)["offline"] = IF w.online THEN "ok" ELSE "critical"
  BY DEF WrongOnNode
<1>3. /\ WrongOnNode(w)["mem"] = Level(w.mem, MemWarn, MemCrit)
      /\ WrongOnNode(w)["root"] = Level(w.root, StoWarn, StoCrit)
  BY DEF WrongOnNode
<1>4. WrongOnNode(w)["node_certificates"] =
        IF w.until <= 0 THEN "critical" ELSE IF w.until < 31 * 24 THEN "warning" ELSE "ok"
  BY DEF WrongOnNode
<1>5. WrongOnNode(w)["zfs_pool_detail"] = IF w.device = "ONLINE" THEN "ok" ELSE "warning"
  BY DEF WrongOnNode
<1>6. QED
  BY <1>1, <1>2, <1>3, <1>4, <1>5

\* An answer about certificates, services or tasks makes an alert of what it tells.
LEMMA NodeRead ==
  ASSUME Context, NEW s \in Sources, NEW n \in NodesOf(s),
         NEW name \in {"node_certificates", "services", "tasks"}
  PROVE  \E h \in Health : /\ NodeAlerts(s, n, name, 200) = Raised(s, n, name, h)
                          /\ Between(lasting, ever, s, n, name, h)
<1> DEFINE w == node[n]
<1>1. n \in Nodes /\ w \in NodeWorlds /\ w.until \in Int /\ w.until # 0
  BY NodeTyped DEF NodesOf
<1>2. CASE name = "node_certificates"
  <2>1. WrongOnNode(w)["node_certificates"] = CertificateHealth(w.until, 0)
    BY <1>1, AilsNode, CertificateRead
  <2>2. "node_certificates" \in DOMAIN WrongOnNode(w)
    BY AilsNode
  <2>3. Between(lasting, ever, s, n, name, CertificateHealth(w.until, 0))
    BY <1>2, <2>1, <2>2, OnNode
  <2>4. NodeAlerts(s, n, name, 200) = Raised(s, n, name, CertificateHealth(w.until, 0))
    BY <1>2 DEF NodeAlerts, NodeVerdict
  <2>5. QED
    BY <2>3, <2>4, VerdictType
<1>3. CASE name = "services"
  <2>1. Levels(ServiceHealth(w.service)) = Levels(WrongOnNode(w)["services"])
    BY <1>1 DEF Context, ReadAsMeant
  <2>2. "services" \in DOMAIN WrongOnNode(w)
    BY AilsNode
  <2>3. Between(lasting, ever, s, n, name, ServiceHealth(w.service))
    BY <1>3, <2>1, <2>2, OnNode
  <2>4. NodeAlerts(s, n, name, 200) = Raised(s, n, name, ServiceHealth(w.service))
    BY <1>3 DEF NodeAlerts, NodeVerdict
  <2>5. QED
    BY <2>3, <2>4, VerdictType
<1>4. CASE name = "tasks"
  <2>1. Levels(TaskHealth(w.task)) = Levels(WrongOnNode(w)["tasks"])
    BY <1>1 DEF Context, ReadAsMeant
  <2>2. "tasks" \in DOMAIN WrongOnNode(w)
    BY AilsNode
  <2>3. Between(lasting, ever, s, n, name, TaskHealth(w.task))
    BY <1>4, <2>1, <2>2, OnNode
  <2>4. NodeAlerts(s, n, name, 200) = Raised(s, n, name, TaskHealth(w.task))
    BY <1>4 DEF NodeAlerts, NodeVerdict
  <2>5. QED
    BY <2>3, <2>4, VerdictType
<1>5. QED
  BY <1>2, <1>3, <1>4

\* The other answers raise nothing, but for the detail of a pool.
LEMMA OtherNodeRead ==
  ASSUME NEW s, NEW n, NEW name, NEW http, name # "zfs_pool_detail",
         http # 200 \/ name \notin {"node_certificates", "services", "tasks"}
  PROVE  NodeAlerts(s, n, name, http) = {}
<1>1. CASE name \in {"subscription", "disks"}
  BY <1>1 DEF NodeAlerts
<1>2. CASE name \notin {"subscription", "disks"}
  <2>1. NodeVerdict(s, n, name, http) = "ok"
    BY <1>2 DEF NodeVerdict
  <2>2. QED
    BY <1>2, <2>1 DEF NodeAlerts, Raised
<1>3. QED
  BY <1>1, <1>2

\* A worse verdict tells of the problem, too.
LEMMA HeardByWorse ==
  ASSUME NEW L, NEW E, NEW s, NEW n, NEW k, NEW h, Between(L, E, s, n, k, h),
         NEW v \in Health, Levels(h) \subseteq Levels(v),
         NEW about \in Tells(k), NEW A, Raised(s, n, about, v) \subseteq A, NEW D
  PROVE  Heard(L, s, n, k, A, D)
<1> SUFFICES ASSUME NEW l, <<s, n, k, l>> \in L
             PROVE  \E a \in A : /\ a.source = s /\ a.node = n /\ a.about \in Tells(k)
                                /\ Rank(a.severity) >= Rank(l)
  BY DEF Heard
<1>1. l \in Levels(v)
  BY DEF Between
<1>2. v \in Severities /\ Rank(v) >= Rank(l)
  BY <1>1, RankOfLevels
<1>3. Alert(s, n, about, v) \in A
  BY <1>2 DEF Raised, Severities
<1>4. QED
  BY <1>2, <1>3 DEF Alert

LEMMA OneDevice ==
  ASSUME NEW state, state \notin {Blank, "AVAIL"}
  PROVE  DeviceIssues({[state |-> state, errors |-> FALSE]}) # {} <=> state # "ONLINE"
<1> DEFINE d == [state |-> state, errors |-> FALSE]
<1>1. d.state = state /\ ~d.errors
  OBVIOUS
<1> HIDE DEF d
<1>2. DeviceIssues({d}) # {} <=> state # "ONLINE"
  BY <1>1 DEF DeviceIssues
<1>3. QED
  BY <1>2 DEF d

\* The verdict on a pool: what the list told, what its detail tells, and whether a
\* device is not in order.
LEMMA PoolVerdictIs ==
  ASSUME Context, NEW s \in Sources, NEW n \in NodesOf(s), NEW http,
         NEW listed, listed = HealthFromText(job[s].hosts[n].listed.pool),
         NEW now, now = HealthFromText(node[n].pool),
         NEW device, device = IF node[n].device = "ONLINE" THEN "ok" ELSE "warning",
         NEW v, v = PoolVerdict(s, n, http)
  PROVE  /\ v \in Health
         /\ http # 200 => v = listed
         /\ http = 200 => /\ Levels(v) = Levels(listed) \cup Levels(device) \cup Levels(now)
                          /\ v \in Severities => v \in {listed, device, now}
<1> DEFINE devices == {[state |-> node[n].device, errors |-> FALSE]}
           counted == IF DeviceIssues(devices) # {} THEN MaxHealth(listed, "warning") ELSE listed
<1>1. listed \in Health /\ now \in Health /\ device \in Health /\ "warning" \in Health
  BY VerdictType DEF Health
<1>2. PoolHealth(job[s].hosts[n].listed.pool, Blank) = listed
  BY DEF PoolHealth, FirstText
<1>3. DeviceIssues(devices) # {} <=> node[n].device # "ONLINE"
  <2>1. node[n].device \notin {Blank, "AVAIL"}
    BY NodeTyped DEF Context, ReadAsMeant, NodesOf
  <2>2. QED
    BY <2>1, OneDevice
<1>4. counted \in Health /\ Levels(counted) = Levels(listed) \cup Levels(device)
      /\ (counted \in Severities => counted \in {listed, device})
  <2>1. CASE node[n].device = "ONLINE"
    <3>1. counted = listed /\ device = "ok"
      BY <1>3, <2>1
    <3>2. QED
      BY <1>1, <3>1, LevelsOf
  <2>2. CASE node[n].device # "ONLINE"
    <3>1. counted = MaxHealth(listed, "warning") /\ device = "warning"
      BY <1>3, <2>2
    <3>2. /\ MaxHealth(listed, "warning") \in {listed, "warning"}
          /\ Levels(MaxHealth(listed, "warning")) = Levels(listed) \cup Levels("warning")
      BY <1>1, WorseLevels
    <3> HIDE DEF counted
    <3>3. QED
      BY <1>1, <3>1, <3>2
  <2>3. QED
    BY <2>1, <2>2
<1>5. http # 200 => v = listed
  BY <1>2 DEF PoolVerdict
<1>6. http = 200 => v = IF node[n].pool = Blank THEN counted ELSE MaxHealth(counted, now)
  BY <1>2 DEF PoolVerdict, PoolHealthInDetail
<1> HIDE DEF counted
<1>7. ASSUME http = 200
      PROVE  /\ v \in Health
             /\ Levels(v) = Levels(listed) \cup Levels(device) \cup Levels(now)
             /\ v \in Severities => v \in {listed, device, now}
  <2>1. CASE node[n].pool = Blank
    <3>1. now = "unknown"
      BY <2>1, VerdictAssumption DEF HealthFromText, Says
    <3>2. QED
      BY <1>4, <1>6, <1>7, <2>1, <3>1, LevelsOf
  <2>2. CASE node[n].pool # Blank
    <3>1. v = MaxHealth(counted, now)
      BY <1>6, <1>7, <2>2
    <3>2. v \in {counted, now} /\ Levels(v) = Levels(counted) \cup Levels(now)
      BY <1>1, <1>4, <3>1, WorseLevels
    <3>3. QED
      BY <1>1, <1>4, <3>2
  <2>3. QED
    BY <2>1, <2>2
<1>8. QED
  BY <1>1, <1>5, <1>7

\* The alert on a pool tells of all that ails it.
LEMMA PoolDetailRead ==
  ASSUME Context, NEW s \in Sources, NEW n \in NodesOf(s), NEW http,
         Between(lasting, ever, s, n, "zfs_pools", HealthFromText(job[s].hosts[n].listed.pool)),
         NEW A, NodeAlerts(s, n, "zfs_pool_detail", http) \subseteq A,
         NEW D, http # 200 => <<n, "zfs_pool_detail">> \in D
  PROVE  /\ NodeAlerts(s, n, "zfs_pool_detail", http) \subseteq AlertType(s)
         /\ \A e \in NodeAlerts(s, n, "zfs_pool_detail", http) : AlertTrue(ever, e)
         /\ Heard(lasting, s, n, "zfs_pools", A, D)
         /\ Heard(lasting, s, n, "zfs_pool_detail", A, D)
<1> DEFINE new == NodeAlerts(s, n, "zfs_pool_detail", http)
           about == "zfs_pool_detail"
<1>1. PICK listed, now, device, v :
        /\ listed = HealthFromText(job[s].hosts[n].listed.pool)
        /\ now = HealthFromText(node[n].pool)
        /\ device = IF node[n].device = "ONLINE" THEN "ok" ELSE "warning"
        /\ v = PoolVerdict(s, n, http)
  OBVIOUS
<1>2. /\ v \in Health
      /\ http # 200 => v = listed
      /\ http = 200 => /\ Levels(v) = Levels(listed) \cup Levels(device) \cup Levels(now)
                       /\ v \in Severities => v \in {listed, device, now}
  BY <1>1, PoolVerdictIs
<1>3. new = Raised(s, n, about, v)
  BY <1>1 DEF NodeAlerts, NodeVerdict
<1>4. Between(lasting, ever, s, n, "zfs_pools", listed)
  BY <1>1
<1>5. Between(lasting, ever, s, n, "zfs_pools", now)
  <2>1. Levels(now) = Levels(WrongOnNode(node[n])["zfs_pools"])
    BY <1>1, NodeTyped DEF Context, ReadAsMeant, NodesOf
  <2>2. QED
    BY <2>1, AilsNode, OnNode
<1>6. Between(lasting, ever, s, n, "zfs_pool_detail", device)
  <2>1. Levels(device) = Levels(WrongOnNode(node[n])["zfs_pool_detail"])
    BY <1>1, AilsNode
  <2>2. QED
    BY <2>1, AilsNode, OnNode
<1>7. about \in Tells("zfs_pools") /\ about \in Tells("zfs_pool_detail") /\ about # "offline"
      /\ about \in LearntFrom("zfs_pool_detail") /\ Shows(about)
  BY TellsAndLearns, ShownFailures
<1>8. new \subseteq AlertType(s)
  BY <1>3, RaisedType DEF AlertType, Names
<1>9. ASSUME NEW e \in new PROVE AlertTrue(ever, e)
  <2>1. e = Alert(s, n, about, v) /\ v \in Severities
    BY <1>3 DEF Raised, Severities
  <2>2. v \in {listed, device, now}
    BY <1>2, <2>1
  <2>3. CASE v \in {listed, now}
    BY <1>3, <1>4, <1>5, <1>7, <2>3, RaisedTrue
  <2>4. CASE v = device
    BY <1>3, <1>6, <1>7, <2>4, RaisedTrue
  <2>5. QED
    BY <2>2, <2>3, <2>4
<1>10. Heard(lasting, s, n, "zfs_pools", A, D)
  <2>1. Levels(listed) \subseteq Levels(v)
    BY <1>2
  <2>2. QED
    BY <1>2, <1>3, <1>4, <1>7, <2>1, HeardByWorse
<1>11. Heard(lasting, s, n, "zfs_pool_detail", A, D)
  <2>1. CASE http = 200
    <3>1. Levels(device) \subseteq Levels(v)
      BY <1>2, <2>1
    <3>2. QED
      BY <1>2, <1>3, <1>6, <1>7, <3>1, HeardByWorse
  <2>2. CASE http # 200
    BY <1>7, <2>2, HeardByFailure
  <2>3. QED
    BY <2>1, <2>2
<1>12. QED
  BY <1>8, <1>9, <1>10, <1>11

LEMMA NodeVerdictType ==
  ASSUME Context, NEW s \in Sources, NEW n \in NodesOf(s), NEW name, NEW http
  PROVE  NodeVerdict(s, n, name, http) \in Health
<1>1. CASE name = "zfs_pool_detail"
  BY <1>1, PoolVerdictIs DEF NodeVerdict
<1>2. CASE name # "zfs_pool_detail"
  <2>1. "ok" \in Health
    BY DEF Health
  <2>2. QED
    BY <1>2, <2>1, VerdictType DEF NodeVerdict
<1>3. QED
  BY <1>1, <1>2

\* What an answer tells of a host was so.
LEMMA HostAfterOK ==
  ASSUME Context, NEW s \in Sources, NEW n \in NodesOf(s), NEW name, NEW http,
         job[s].hosts[n] \in HostType, HostReads(lasting, ever, s, n, job[s].hosts[n]),
         NEW h, h = HostAfter(s, n, name, http)
  PROVE  /\ h \in HostType /\ HostReads(lasting, ever, s, n, h) /\ h.named = job[s].hosts[n].named
         /\ name = "zfs_pools" => Between(lasting, ever, s, n, "zfs_pools", HealthFromText(h.listed.pool))
<1> DEFINE g == job[s].hosts[n]
           w == node[n]
<1>1. g = job[s].hosts[n] /\ g \in HostType
  OBVIOUS
<1>2. w = node[n]
  OBVIOUS
<1> HIDE DEF g, w
<1>3. w \in NodeWorlds /\ w.mem \in Nat /\ w.root \in Nat /\ w.pool \in Texts
  BY <1>2, NodeTyped DEF NodesOf, NodeWorld
<1>4. MaxHealth(g.health, NodeVerdict(s, n, name, http)) \in Health
  BY <1>1, NodeVerdictType DEF HostType, MaxHealth
<1>5. /\ h \in HostType
      /\ h.online = g.online /\ h.max = g.max /\ h.named = g.named
      /\ h.mem = IF name = "node_status" /\ http = 200 THEN w.mem ELSE g.mem
      /\ h.root = IF name = "node_status" /\ http = 200 THEN w.root ELSE g.root
      /\ h.listed = [g.listed EXCEPT !.pool = IF name = "zfs_pools" THEN w.pool ELSE g.listed.pool]
  <2> DEFINE mem == IF name = "node_status" /\ http = 200 THEN w.mem ELSE g.mem
             root == IF name = "node_status" /\ http = 200 THEN w.root ELSE g.root
             pool == IF name = "zfs_pools" THEN w.pool ELSE g.listed.pool
             listed == [g.listed EXCEPT !.pool = pool]
             health == MaxHealth(g.health, NodeVerdict(s, n, name, http))
  <2>1. g \in HostType
    BY <1>1
  <2>2. h = [g EXCEPT !.mem = mem, !.root = root, !.listed = listed, !.health = health]
    BY DEF HostAfter, g, w
  <2>3. mem \in Nat /\ root \in Nat /\ pool \in Texts /\ health \in Health
    BY <1>3, <1>4, <2>1 DEF HostType, ListedType
  <2> HIDE DEF pool
  <2>4. listed \in ListedType
    BY <2>1, <2>3 DEF HostType, ListedType
  <2> HIDE DEF mem, root, listed, health
  <2>5. /\ h \in HostType
        /\ h.online = g.online /\ h.max = g.max /\ h.named = g.named
        /\ h.mem = mem /\ h.root = root /\ h.listed = listed
    BY <2>1, <2>2, <2>3, <2>4 DEF HostType
  <2>6. QED
    BY <2>5 DEF mem, root, listed, pool
<1>6. /\ h.listed.stored = g.listed.stored /\ h.listed.storage = g.listed.storage
      /\ h.listed.guest = g.listed.guest
      /\ h.listed.pool = IF name = "zfs_pools" THEN w.pool ELSE g.listed.pool
  <2>1. g.listed \in ListedType
    BY <1>1 DEF HostType
  <2>2. QED
    BY <1>5, <2>1 DEF ListedType
<1>7. /\ Between(lasting, ever, s, n, "mem", Level(w.mem, MemWarn, MemCrit))
      /\ Between(lasting, ever, s, n, "root", Level(w.root, StoWarn, StoCrit))
  BY <1>2, AilsNode, OnNode
<1>8. Between(lasting, ever, s, n, "zfs_pools", HealthFromText(w.pool))
  <2>1. Levels(HealthFromText(w.pool)) = Levels(WrongOnNode(node[n])["zfs_pools"])
    BY <1>2, <1>3 DEF Context, ReadAsMeant
  <2>2. QED
    BY <2>1, AilsNode, OnNode
<1>9. HostReads(lasting, ever, s, n, g)
  BY <1>1
<1>10. Between({}, ever, s, n, "zfs_pools", HealthFromText(h.listed.pool))
  <2>1. CASE name = "zfs_pools"
    BY <1>6, <1>8, <2>1 DEF Between
  <2>2. CASE name # "zfs_pools"
    BY <1>6, <1>9, <2>2 DEF HostReads
  <2>3. QED
    BY <2>1, <2>2
<1>11. /\ Between(lasting, ever, s, n, "mem", Level(h.mem, MemWarn, MemCrit))
       /\ Between(lasting, ever, s, n, "root", Level(h.root, StoWarn, StoCrit))
  <2>1. CASE name = "node_status" /\ http = 200
    BY <1>5, <1>7, <2>1
  <2>2. CASE ~(name = "node_status" /\ http = 200)
    BY <1>5, <1>9, <2>2 DEF HostReads
  <2>3. QED
    BY <2>1, <2>2
<1>12. HostReads(lasting, ever, s, n, h)
  BY <1>5, <1>6, <1>9, <1>10, <1>11 DEF HostReads
<1>13. QED
  BY <1>1, <1>5, <1>6, <1>8, <1>12

\* The requests left after the m-th from the end.
LEMMA NodeRequestsLeft ==
  ASSUME NEW left \in Seq(Names), Len(left) \in 1..12, Rest(NodeRequests, left), NEW http
  PROVE  LET m == Len(left)
             rest == AfterRequest(left, http)
         IN  /\ Head(left) = NodeRequests[13 - m] /\ Head(left) \in Names
             /\ rest \in Seq(Names) /\ Rest(NodeRequests, rest)
             /\ Len(rest) = IF m = 6 /\ http # 200 THEN 4 ELSE m - 1
             /\ rest = <<>> <=> Len(rest) = 0
<1> DEFINE m == Len(left)
           rest == AfterRequest(left, http)
<1>1. /\ m = Len(left) /\ m \in 1..12
      /\ m \in 1..Len(NodeRequests) /\ Len(NodeRequests) + 1 - m = 13 - m /\ NodeRequests \in Seq(Names)
  BY Lists
<1>2. /\ Head(left) = NodeRequests[Len(NodeRequests) + 1 - Len(left)] /\ Head(left) \in Names
      /\ Tail(left) \in Seq(Names) /\ Len(Tail(left)) = Len(left) - 1
      /\ Rest(NodeRequests, Tail(left))
  BY <1>1, RestOf
<1> HIDE DEF m
<1>3. Head(left) = NodeRequests[13 - m] /\ Len(Tail(left)) = m - 1
  BY <1>1, <1>2
<1>4. Head(left) = "zfs_pools" <=> m = 6
  <2>1. \A x \in 1..12 : 13 - x \in 1..12 /\ (13 - x = 7 <=> x = 6)
    OBVIOUS
  <2>2. \A x \in 1..12 : NodeRequests[x] = "zfs_pools" <=> x = 7
    <3>1. \A x \in 1..12 : x \in {1, 2, 6, 7, 8, 11, 12} \/ x \in {3, 4, 5, 9, 10}
      OBVIOUS
    <3>2. \A x \in {3, 4, 5, 9, 10} : NodeRequests[x] # "zfs_pools"
      BY Lists
    <3>3. \A x \in {1, 2, 6, 8, 11, 12} : NodeRequests[x] # "zfs_pools"
      BY Lists
    <3>4. QED
      BY <3>1, <3>2, <3>3, Lists
  <2>3. QED
    BY <1>1, <1>3, <2>1, <2>2
<1>5. ASSUME m = 6, http # 200
      PROVE  rest \in Seq(Names) /\ Rest(NodeRequests, rest) /\ Len(rest) = 4
  <2>1. rest = Tail(Tail(left))
    BY <1>4, <1>5 DEF AfterRequest
  <2>2. Len(Tail(left)) = 5 /\ Len(Tail(left)) \in 1..Len(NodeRequests)
    BY <1>3, <1>5, Lists
  <2>3. /\ Tail(Tail(left)) \in Seq(Names) /\ Len(Tail(Tail(left))) = Len(Tail(left)) - 1
        /\ Rest(NodeRequests, Tail(Tail(left)))
    BY <1>1, <1>2, <2>2, RestOf
  <2>4. QED
    BY <2>1, <2>2, <2>3
<1>6. ASSUME ~(m = 6 /\ http # 200)
      PROVE  rest \in Seq(Names) /\ Rest(NodeRequests, rest) /\ Len(rest) = m - 1
  <2>1. rest = Tail(left)
    BY <1>4, <1>6 DEF AfterRequest
  <2>2. QED
    BY <1>2, <1>3, <2>1
<1> HIDE DEF rest
<1>7. /\ rest \in Seq(Names) /\ Rest(NodeRequests, rest)
      /\ Len(rest) = IF m = 6 /\ http # 200 THEN 4 ELSE m - 1
  BY <1>5, <1>6
<1>8. rest = <<>> <=> Len(rest) = 0
  BY <1>7, EmptySeq
<1>9. QED
  BY <1>2, <1>3, <1>7, <1>8 DEF m, rest

LEMMA ReadNodeOK ==
  ASSUME Context, NEW s \in Sources, OK(s), ReadNode(s)
  PROVE  Alone(s) /\ JobOK(lasting, ever, s, job'[s])
<1>1. /\ JobOK(lasting, ever, s, job[s]) /\ job[s] \in JobType(s) /\ job[s].at = "node"
      /\ Begun(job[s])
      /\ Len(job[s].left) \in 1..12 /\ Rest(NodeRequests, job[s].left) /\ job[s].left \in Seq(Names)
      /\ job[s].cur \in NodesOf(s) \ job[s].todo
      /\ job[s].hosts \in [NodesOf(s) -> HostType]
      /\ job[s].alerts \in SUBSET AlertType(s) /\ job[s].health \in Health
      /\ job[s].todo \in SUBSET NodesOf(s)
  BY DEF OK, JobOK, JobShape, ReadNode, Begun, JobType
<1>2. JobTells(lasting, ever, s, job[s])
  BY <1>1 DEF JobOK
<1>3. PICK http \in Outcomes :
        LET name == Head(job[s].left)
            n == job[s].cur
            j == Asked(s, n, name, http, job[s])
            rest == AfterRequest(j.left, http)
        IN  Proceed(s, [j EXCEPT
                !.left = rest,
                !.at = IF rest = <<>> THEN "nodes" ELSE @,
                !.hosts[n] = HostAfter(s, n, name, http),
                !.alerts = @ \cup NodeAlerts(s, n, name, http)])
  BY DEF ReadNode
<1> DEFINE m == Len(job[s].left)
           n == job[s].cur
           name == Head(job[s].left)
           a == Asked(s, n, name, http, job[s])
           rest == AfterRequest(job[s].left, http)
           h == HostAfter(s, n, name, http)
           new == NodeAlerts(s, n, name, http)
           at == IF rest = <<>> THEN "nodes" ELSE "node"
           hosts == [job[s].hosts EXCEPT ![n] = h]
           alerts == job[s].alerts \cup new
<1>4. /\ name = NodeRequests[13 - m] /\ name \in Names
      /\ rest \in Seq(Names) /\ Rest(NodeRequests, rest)
      /\ Len(rest) = IF m = 6 /\ http # 200 THEN 4 ELSE m - 1
      /\ rest = <<>> <=> Len(rest) = 0
  <2> DEFINE left == job[s].left
  <2>1. left \in Seq(Names) /\ Len(left) \in 1..12 /\ Rest(NodeRequests, left)
    BY <1>1
  <2> HIDE DEF left
  <2>2. /\ Head(left) = NodeRequests[13 - Len(left)] /\ Head(left) \in Names
        /\ AfterRequest(left, http) \in Seq(Names) /\ Rest(NodeRequests, AfterRequest(left, http))
        /\ Len(AfterRequest(left, http)) = IF Len(left) = 6 /\ http # 200 THEN 4 ELSE Len(left) - 1
        /\ AfterRequest(left, http) = <<>> <=> Len(AfterRequest(left, http)) = 0
    BY <2>1, NodeRequestsLeft
  <2>3. QED
    BY <2>2 DEF left
<1>5. n \in NodesOf(s) /\ Request(s, n, name, http)
  BY <1>1, <1>4, OutcomeType DEF Request
<1>6. /\ a \in JobType(s)
      /\ a.at = job[s].at /\ a.left = job[s].left /\ a.todo = job[s].todo /\ a.cur = job[s].cur
      /\ a.hosts = job[s].hosts /\ a.health = job[s].health /\ a.alerts = job[s].alerts
  <2>1. job[s] \in JobType(s) /\ Request(s, n, name, http)
    BY <1>1, <1>5
  <2> HIDE DEF n, name
  <2>2. HasAsked(s, n, name, http, job[s], a)
    BY <2>1, AskedType
  <2> HIDE DEF a
  <2>3. QED
    BY <2>2 DEF HasAsked
<1>7. Proceed(s, Change(a, at, rest, job[s].todo, n, hosts, job[s].health, alerts))
  <2>1. Proceed(s, [a EXCEPT
                !.left = AfterRequest(a.left, http),
                !.at = IF AfterRequest(a.left, http) = <<>> THEN "nodes" ELSE a.at,
                !.hosts = [a.hosts EXCEPT ![n] = h],
                !.alerts = a.alerts \cup new])
    BY <1>3
  <2> HIDE DEF n, name, a, h, new
  <2>2. /\ AfterRequest(a.left, http) = rest /\ [a.hosts EXCEPT ![n] = h] = hosts
        /\ a.alerts \cup new = alerts
        /\ at = IF AfterRequest(a.left, http) = <<>> THEN "nodes" ELSE a.at
    BY <1>1, <1>6
  <2> HIDE DEF rest, hosts, alerts, at
  <2>3. Proceed(s, Learnt(a, at, rest, hosts, alerts))
    BY <2>1, <2>2 DEF Learnt
  <2>4. Learnt(a, at, rest, hosts, alerts)
          = Change(a, at, rest, job[s].todo, n, hosts, job[s].health, alerts)
    BY <1>6, LearntIs DEF n
  <2>5. QED
    BY <2>3, <2>4
<1> HIDE DEF a, h, new, rest, name, n, m
<1>8. /\ h \in HostType /\ HostReads(lasting, ever, s, n, h) /\ h.named = job[s].hosts[n].named
      /\ name = "zfs_pools" => Between(lasting, ever, s, n, "zfs_pools", HealthFromText(h.listed.pool))
  <2>1. job[s].hosts[n] \in HostType /\ HostReads(lasting, ever, s, n, job[s].hosts[n])
    BY <1>1, <1>2, <1>5 DEF JobTells
  <2>2. QED
    BY <1>5, <2>1, HostAfterOK DEF h
<1>9. /\ Between(lasting, ever, s, n, "zfs_pools", HealthFromText(job[s].hosts[n].listed.pool)) \/ m # 5
      /\ m \in 1..12
  BY <1>1, <1>2 DEF JobTells, PoolRead, n, m
<1>10. /\ m = 5 <=> name = "zfs_pool_detail"
       /\ m = 6 <=> name = "zfs_pools"
       /\ m = 7 <=> name = "services"
       /\ m = 11 <=> name = "node_certificates"
       /\ name # "tasks"
  <2>1. 13 - m \in 1..12 /\ name = NodeRequests[13 - m]
    BY <1>4, <1>9
  <2>2. \A x \in 1..12 : /\ NodeRequests[x] = "zfs_pool_detail" <=> x = 8
                         /\ NodeRequests[x] = "zfs_pools" <=> x = 7
                         /\ NodeRequests[x] = "services" <=> x = 6
                         /\ NodeRequests[x] = "node_certificates" <=> x = 2
                         /\ NodeRequests[x] # "tasks"
    <3>1. \A x \in 1..12 : x \in {1, 2, 6, 7, 8, 11, 12} \/ x \in {3, 4, 5, 9, 10}
      OBVIOUS
    <3>2. QED
      BY <3>1, Lists
  <2>3. /\ m = 5 <=> 13 - m = 8
        /\ m = 6 <=> 13 - m = 7
        /\ m = 7 <=> 13 - m = 6
        /\ m = 11 <=> 13 - m = 2
    BY <1>9
  <2>4. QED
    BY <2>1, <2>2, <2>3
<1>11. /\ new \subseteq AlertType(s)
       /\ \A e \in new : AlertTrue(ever, e)
  <2>1. CASE name = "zfs_pool_detail"
    <3>1. Between(lasting, ever, s, n, "zfs_pools", HealthFromText(job[s].hosts[n].listed.pool))
      BY <1>9, <1>10, <2>1
    <3>2. PICK D : <<n, "zfs_pool_detail">> \in D
      <4>1. <<n, "zfs_pool_detail">> \in {<<n, "zfs_pool_detail">>}
        OBVIOUS
      <4>2. QED
        BY <4>1
    <3>3. QED
      BY <1>5, <2>1, <3>1, <3>2, PoolDetailRead DEF new
  <2>2. CASE http = 200 /\ name \in {"node_certificates", "services"}
    <3>1. PICK v \in Health : new = Raised(s, n, name, v) /\ Between(lasting, ever, s, n, name, v)
      BY <1>5, <2>2, NodeRead DEF new
    <3>2. name \in Tells(name) /\ name # "offline"
      BY <2>2, TellsAndLearns
    <3>3. new \subseteq AlertType(s)
      BY <1>5, <1>4, <3>1, RaisedType DEF AlertType
    <3>4. \A e \in new : AlertTrue(ever, e)
      BY <3>1, <3>2, RaisedTrue
    <3>5. QED
      BY <3>3, <3>4
  <2>3. CASE name # "zfs_pool_detail" /\ ~(http = 200 /\ name \in {"node_certificates", "services"})
    <3>1. new = {}
      BY <1>10, <2>3, OtherNodeRead DEF new
    <3>2. QED
      BY <3>1
  <2>4. QED
    BY <2>1, <2>2, <2>3
<1>12. Fields(s, at, rest, job[s].todo, n, hosts, job[s].health, alerts)
  <2>1. hosts \in [NodesOf(s) -> HostType]
    BY <1>1, <1>5, <1>8
  <2>2. alerts \in SUBSET AlertType(s)
    BY <1>1, <1>11
  <2>3. at \in Places
    BY DEF Places
  <2> HIDE DEF hosts, alerts, at
  <2>4. QED
    BY <1>1, <1>4, <1>5, <2>1, <2>2, <2>3 DEF Fields
<1> HIDE DEF at, hosts, alerts
<1>13. /\ Alone(s) /\ Answered(s, n, name, http, job[s], job'[s])
       /\ job'[s].at = at /\ job'[s].left = rest /\ job'[s].todo = job[s].todo /\ job'[s].cur = n
       /\ job'[s].hosts = hosts /\ job'[s].alerts = alerts
  <2>1. Proceed(s, Change(Asked(s, n, name, http, job[s]), at, rest, job[s].todo, n, hosts,
                          job[s].health, alerts))
    BY <1>7 DEF a
  <2>2. QED
    BY <1>1, <1>5, <1>12, <2>1, AskedAndChanged
<1>14. /\ job'[s] \in JobType(s) /\ job'[s].lost = job[s].lost
       /\ job[s].down \subseteq job'[s].down
       /\ http # 200 => <<n, name>> \in job'[s].down
  BY <1>13 DEF Answered
<1>15. /\ new \subseteq job'[s].alerts /\ job'[s].alerts = job[s].alerts \cup new
  BY <1>13 DEF alerts
<1>16. ASSUME m \in {7, 11}
       PROVE  Heard(lasting, s, n, name, job'[s].alerts, job'[s].down)
  <2>1. name \in {"node_certificates", "services"}
    BY <1>10, <1>16
  <2>2. name \in Tells(name) /\ name \in LearntFrom(name) /\ Shows(name)
    BY <2>1, TellsAndLearns, ShownFailures
  <2>3. CASE http = 200
    <3>1. PICK v \in Health : new = Raised(s, n, name, v) /\ Between(lasting, ever, s, n, name, v)
      BY <1>5, <2>1, <2>3, NodeRead DEF new
    <3>2. QED
      BY <1>15, <2>2, <3>1, HeardByAlert
  <2>4. CASE http # 200
    BY <1>14, <2>2, <2>4, HeardByFailure
  <2>5. QED
    BY <2>3, <2>4
<1>17. ASSUME m = 5 \/ (m = 6 /\ http # 200)
       PROVE  /\ Heard(lasting, s, n, "zfs_pools", job'[s].alerts, job'[s].down)
              /\ Heard(lasting, s, n, "zfs_pool_detail", job'[s].alerts, job'[s].down)
  <2>1. CASE m = 5
    <3>1. /\ Between(lasting, ever, s, n, "zfs_pools", HealthFromText(job[s].hosts[n].listed.pool))
          /\ name = "zfs_pool_detail"
      BY <1>9, <1>10, <2>1
    <3>2. PICK A, D : A = job'[s].alerts /\ D = job'[s].down
      OBVIOUS
    <3>3. NodeAlerts(s, n, "zfs_pool_detail", http) \subseteq A
      BY <1>15, <3>1, <3>2 DEF new
    <3>4. http # 200 => <<n, "zfs_pool_detail">> \in D
      BY <1>14, <3>1, <3>2
    <3>5. Heard(lasting, s, n, "zfs_pools", A, D) /\ Heard(lasting, s, n, "zfs_pool_detail", A, D)
      BY <1>5, <3>1, <3>3, <3>4, PoolDetailRead
    <3>6. QED
      BY <3>2, <3>5
  <2>2. CASE m = 6 /\ http # 200
    <3>1. /\ <<n, "zfs_pools">> \in job'[s].down /\ Shows("zfs_pools")
          /\ "zfs_pools" \in LearntFrom("zfs_pools") /\ "zfs_pools" \in LearntFrom("zfs_pool_detail")
      BY <1>10, <1>14, <2>2, TellsAndLearns, ShownFailures
    <3>2. QED
      BY <3>1, HeardByFailure
  <2>3. QED
    BY <1>17, <2>1, <2>2
<1>18. NodeAnswer(lasting, ever, s, job[s], job'[s], new, m, n, h, http)
  <2>1. /\ job[s].at = "node" /\ n = job[s].cur /\ Len(job[s].left) = m /\ m \in 1..12
        /\ job'[s] \in JobType(s) /\ job'[s].lost = job[s].lost /\ job'[s].todo = job[s].todo
        /\ job'[s].cur = n
        /\ Rest(NodeRequests, job'[s].left)
    BY <1>1, <1>4, <1>9, <1>13, <1>14 DEF n, m
  <2>2. /\ Len(job'[s].left) = IF m = 6 /\ http # 200 THEN 4 ELSE m - 1
        /\ job'[s].at = IF Len(job'[s].left) = 0 THEN "nodes" ELSE "node"
    BY <1>4, <1>13 DEF at
  <2>3. /\ job'[s].hosts = [job[s].hosts EXCEPT ![n] = h]
        /\ h \in HostType /\ HostReads(lasting, ever, s, n, h) /\ h.named = job[s].hosts[n].named
    BY <1>8, <1>13 DEF hosts
  <2>4. /\ m = 11 => Heard(lasting, s, n, "node_certificates", job'[s].alerts, job'[s].down)
        /\ m = 7 => Heard(lasting, s, n, "services", job'[s].alerts, job'[s].down)
    BY <1>10, <1>16
  <2>5. m = 6 => Between(lasting, ever, s, n, "zfs_pools", HealthFromText(h.listed.pool))
    BY <1>8, <1>10
  <2>6. /\ m = 5 \/ (m = 6 /\ http # 200)
             => /\ Heard(lasting, s, n, "zfs_pools", job'[s].alerts, job'[s].down)
                /\ Heard(lasting, s, n, "zfs_pool_detail", job'[s].alerts, job'[s].down)
        /\ job'[s].alerts = job[s].alerts \cup new /\ job[s].down \subseteq job'[s].down
        /\ \A e \in new : AlertTrue(ever, e)
    BY <1>11, <1>14, <1>15, <1>17
  <2>7. QED
    BY <2>1, <2>2, <2>3, <2>4, <2>5, <2>6 DEF NodeAnswer
<1>19. QED
  BY <1>1, <1>13, <1>18, NodeStep

(***************************************************************************)
(* Storages.                                                               *)
(***************************************************************************)
\* A step that asks nothing.
LEMMA JustChanged ==
  ASSUME Context, NEW s \in Sources, job[s] \in JobType(s),
         NEW at, NEW left, NEW todo, NEW cur, NEW hosts, NEW health, NEW alerts,
         Fields(s, at, left, todo, cur, hosts, health, alerts),
         Proceed(s, Change(job[s], at, left, todo, cur, hosts, health, alerts))
  PROVE  /\ Alone(s) /\ job'[s] \in JobType(s)
         /\ job'[s].lost = job[s].lost /\ job'[s].down = job[s].down
         /\ job'[s].at = at /\ job'[s].left = left /\ job'[s].todo = todo /\ job'[s].cur = cur
         /\ job'[s].hosts = hosts /\ job'[s].alerts = alerts
<1>1. Alone(s) /\ job'[s] = Change(job[s], at, left, todo, cur, hosts, health, alerts)
  BY ProceedIs
<1>2. QED
  BY <1>1, Changed

\* What the next storage of the resource list makes of job j.
StorageAnswer(s, j, i, n, g, new) ==
  /\ j.at = "storages" /\ n \in j.todo
  /\ g = NameFullest(j.hosts[n]) /\ new = StorageAlerts(s, n, j.hosts[n].listed)
  /\ i \in JobType(s) /\ i.lost = j.lost /\ i.at = "storages" /\ i.todo = j.todo \ {n}
  /\ i.hosts = [j.hosts EXCEPT ![n] = g]
  /\ i.alerts = j.alerts \cup new /\ j.down \subseteq i.down

\* The host that has its fullest storage named, or not.
LEMMA NameFullestIs ==
  ASSUME NEW h \in HostType, NEW g, g = NameFullest(h)
  PROVE  /\ g \in HostType
         /\ g.online = h.online /\ g.mem = h.mem /\ g.root = h.root /\ g.listed = h.listed
         /\ g.health = h.health
         /\ \/ g.named = h.named /\ g.max = h.max
            \/ g.named /\ g.max = h.listed.stored /\ h.listed.stored >= h.max
<1>1. CASE h.listed.stored >= h.max
  <2>1. g = [h EXCEPT !.max = h.listed.stored, !.named = TRUE]
    BY <1>1 DEF NameFullest
  <2>2. h.listed.stored \in Nat
    BY DEF HostType, ListedType
  <2>3. QED
    BY <1>1, <2>1, <2>2 DEF HostType
<1>2. CASE ~(h.listed.stored >= h.max)
  BY <1>2 DEF NameFullest
<1>3. QED
  BY <1>1, <1>2

\* The alerts of a storage are true, and tell what there is to tell; a storage that
\* is named is as full as its alert says.
LEMMA StorageRead ==
  ASSUME NEW L, NEW E, NEW s, NEW n \in Storages, NEW h \in HostType, HostReads(L, E, s, n, h),
         NEW new, new = StorageAlerts(s, n, h.listed), NEW A, new \subseteq A, NEW D
  PROVE  /\ \A e \in new : AlertTrue(E, e)
         /\ Heard(L, s, n, "stored", A, D) /\ Heard(L, s, n, "storage", A, D)
         /\ ~h.named /\ h.listed.stored >= h.max => Heard(L, s, n, "root", A, D)
<1> DEFINE stored == Level(h.listed.stored, StoWarn, StoCrit)
           storage == StorageStatusHealth(h.listed.storage)
<1>1. new = Raised(s, n, "storage", storage) \cup Raised(s, n, "stored", stored)
  BY DEF StorageAlerts
<1>2. /\ Between(L, E, s, n, "stored", stored) /\ Between(L, E, s, n, "storage", storage)
      /\ ~h.named => Between(L, E, s, n, "root", Level(h.max, StoWarn, StoCrit))
  BY DEF HostReads
<1>3. stored \in Health /\ storage \in Health
  BY VerdictType
<1>4. ~h.named /\ h.listed.stored >= h.max
        => Levels(Level(h.max, StoWarn, StoCrit)) \subseteq Levels(stored)
  <2>1. h.max \in Nat /\ h.listed.stored \in Nat /\ StoWarn \in Nat /\ StoCrit \in Nat
    BY CollectorAssumption DEF HostType, ListedType
  <2>2. QED
    BY <2>1, LevelGrows
<1> HIDE DEF stored, storage
<1>5. "stored" \in Tells("stored") /\ "storage" \in Tells("storage") /\ "stored" \in Tells("root")
  BY TellsAndLearns
<1>6. ASSUME NEW e \in new PROVE AlertTrue(E, e)
  <2>1. CASE e \in Raised(s, n, "stored", stored)
    BY <1>2, <1>5, <2>1, RaisedTrue
  <2>2. CASE e \in Raised(s, n, "storage", storage)
    BY <1>2, <1>5, <2>2, RaisedTrue
  <2>3. QED
    BY <1>1, <2>1, <2>2
<1>7. Raised(s, n, "storage", storage) \subseteq A /\ Raised(s, n, "stored", stored) \subseteq A
  BY <1>1
<1>8. Heard(L, s, n, "stored", A, D) /\ Heard(L, s, n, "storage", A, D)
  BY <1>2, <1>3, <1>5, <1>7, HeardByAlert
<1>9. ~h.named /\ h.listed.stored >= h.max => Heard(L, s, n, "root", A, D)
  BY <1>2, <1>3, <1>4, <1>5, <1>7, HeardByWorse
<1>10. QED
  BY <1>6, <1>8, <1>9

LEMMA StorageStep ==
  ASSUME NEW L, NEW E, NEW s, NEW j, NEW i, NEW n, NEW g, NEW new,
         JobOK(L, E, s, j), StorageAnswer(s, j, i, n, g, new)
  PROVE  JobOK(L, E, s, i)
<1>a. /\ j.at = "storages" /\ n \in j.todo
      /\ i \in JobType(s) /\ i.lost = j.lost /\ i.at = "storages" /\ i.todo = j.todo \ {n}
  BY DEF StorageAnswer
<1>b. /\ g = NameFullest(j.hosts[n]) /\ new = StorageAlerts(s, n, j.hosts[n].listed)
      /\ i.hosts = [j.hosts EXCEPT ![n] = g]
      /\ i.alerts = j.alerts \cup new /\ j.down \subseteq i.down
  BY DEF StorageAnswer
<1>1. /\ ~j.lost /\ Begun(j) /\ j.hosts \in [NodesOf(s) -> HostType]
      /\ n \in NodesOf(s) /\ n \in Storages /\ i.todo \subseteq Storages
  BY <1>a DEF JobOK, JobShape, Begun, JobType
<1>2. JobTells(L, E, s, j)
  BY <1>1 DEF JobOK
<1>3. PICK h \in HostType : h = j.hosts[n]
  BY <1>1
<1>4. /\ g \in HostType
      /\ g.online = h.online /\ g.mem = h.mem /\ g.root = h.root /\ g.listed = h.listed
      /\ \/ g.named = h.named /\ g.max = h.max
         \/ g.named /\ g.max = h.listed.stored /\ h.listed.stored >= h.max
  BY <1>3, <1>b, NameFullestIs
<1>5. i.hosts \in [NodesOf(s) -> HostType] /\ i.hosts[n] = g
      /\ \A x \in NodesOf(s) \ {n} : i.hosts[x] = j.hosts[x]
  BY <1>1, <1>4, <1>b
<1>6. HostReads(L, E, s, n, h)
  BY <1>1, <1>2, <1>3 DEF JobTells
<1>7. /\ \A e \in new : AlertTrue(E, e)
      /\ Heard(L, s, n, "stored", i.alerts, i.down) /\ Heard(L, s, n, "storage", i.alerts, i.down)
      /\ ~h.named /\ h.listed.stored >= h.max => Heard(L, s, n, "root", i.alerts, i.down)
  <2>1. new = StorageAlerts(s, n, h.listed) /\ new \subseteq i.alerts
    BY <1>3, <1>b
  <2>2. QED
    BY <1>1, <1>6, <2>1, StorageRead
<1>8. \A x, k : Heard(L, s, x, k, j.alerts, j.down) => Heard(L, s, x, k, i.alerts, i.down)
  <2>1. j.alerts \subseteq i.alerts /\ j.down \subseteq i.down
    BY <1>b
  <2>2. QED
    BY <2>1, HeardLater
<1>9. HostReads(L, E, s, n, g)
  BY <1>4, <1>6 DEF HostReads
<1>10. ASSUME NEW x \in NodesOf(s) PROVE HostReads(L, E, s, x, i.hosts[x]) /\ HostHeard(L, s, x, i)
  <2>1. HostReads(L, E, s, x, j.hosts[x]) /\ HostHeard(L, s, x, j)
    BY <1>2 DEF JobTells
  <2>2. HostReads(L, E, s, x, i.hosts[x])
    BY <1>5, <1>9, <2>1
  <2>3. i.hosts[x].named => Heard(L, s, x, "root", i.alerts, i.down)
    <3>1. CASE x # n
      BY <1>5, <1>8, <2>1, <3>1 DEF HostHeard
    <3>2. CASE x = n /\ h.named
      BY <1>3, <1>8, <2>1, <3>2 DEF HostHeard
    <3>3. CASE x = n /\ ~h.named
      BY <1>4, <1>5, <1>7, <3>3
    <3>4. QED
      BY <3>1, <3>2, <3>3 DEF HostType
  <2>4. QED
    BY <1>a, <2>2, <2>3 DEF HostHeard
<1>11. ASSUME NEW x \in NodesOf(s) PROVE NodeHeard(L, s, x, i)
  <2>1. NodeHeard(L, s, x, j)
    BY <1>2 DEF JobTells
  <2>2. QED
    BY <1>8, <1>a, <2>1 DEF NodeHeard, Unread
<1>12. ASSUME NEW x \in NodesOf(s) \cap Storages PROVE StorageHeard(L, s, x, i)
  <2>1. StorageHeard(L, s, x, j)
    BY <1>2 DEF JobTells
  <2>2. QED
    BY <1>7, <1>8, <1>a, <2>1 DEF StorageHeard
<1>13. SourceHeard(L, s, i) /\ PoolRead(L, E, s, i)
  <2>1. SourceHeard(L, s, j)
    BY <1>2 DEF JobTells
  <2>2. QED
    BY <1>8, <1>a, <2>1 DEF SourceHeard, PoolRead
<1>14. JobTells(L, E, s, i)
  <2>1. \A e \in i.alerts : AlertTrue(E, e)
    BY <1>2, <1>7, <1>b DEF JobTells
  <2>2. \A x \in NodesOf(s) : GuestHeard(L, s, x, i)
    BY <1>a DEF GuestHeard, AskedAbout
  <2>3. QED
    BY <1>10, <1>11, <1>12, <1>13, <2>1, <2>2 DEF JobTells
<1>15. JobShape(s, i)
  BY <1>1, <1>5, <1>a DEF JobShape, Begun
<1>16. QED
  BY <1>14, <1>15 DEF JobOK

LEMMA ReadStorageOK ==
  ASSUME Context, NEW s \in Sources, OK(s), ReadStorage(s)
  PROVE  Alone(s) /\ JobOK(lasting, ever, s, job'[s])
<1>1. /\ JobOK(lasting, ever, s, job[s]) /\ job[s] \in JobType(s) /\ job[s].at = "storages"
      /\ job[s].hosts \in [NodesOf(s) -> HostType] /\ job[s].left \in Seq(Names)
      /\ job[s].cur \in NodesOf(s) \cup {0}
      /\ job[s].alerts \in SUBSET AlertType(s) /\ job[s].health \in Health
      /\ job[s].todo \in SUBSET NodesOf(s)
  BY DEF OK, JobOK, JobShape, ReadStorage, Begun, JobType
<1>1a. PICK n \in job[s].todo : \E http :
        LET told == job[s].hosts[n].listed
            asks == StorageContentQueryable(told.storage, "CONTENT")
            j == IF asks THEN Asked(s, n, "storage_content", http, job[s]) ELSE job[s]
        IN  /\ asks => http \in Outcomes
            /\ Proceed(s, [j EXCEPT
                 !.todo = @ \ {n},
                 !.alerts = @ \cup StorageAlerts(s, n, told),
                 !.hosts[n] = NameFullest(@)])
  BY DEF ReadStorage
<1>2. PICK http :
        LET told == job[s].hosts[n].listed
            asks == StorageContentQueryable(told.storage, "CONTENT")
            j == IF asks THEN Asked(s, n, "storage_content", http, job[s]) ELSE job[s]
        IN  /\ asks => http \in Outcomes
            /\ Proceed(s, [j EXCEPT
                 !.todo = @ \ {n},
                 !.alerts = @ \cup StorageAlerts(s, n, told),
                 !.hosts[n] = NameFullest(@)])
  BY <1>1a
<1>3. n \in NodesOf(s) /\ job[s].hosts[n] \in HostType
  BY <1>1
<1> DEFINE told == job[s].hosts[n].listed
           asks == StorageContentQueryable(told.storage, "CONTENT")
           a == IF asks THEN Asked(s, n, "storage_content", http, job[s]) ELSE job[s]
           g == NameFullest(job[s].hosts[n])
           new == StorageAlerts(s, n, told)
           todo == job[s].todo \ {n}
           hosts == [job[s].hosts EXCEPT ![n] = g]
           alerts == job[s].alerts \cup new
<1>4. g \in HostType
  BY <1>3, NameFullestIs
<1>5. new \subseteq AlertType(s)
  BY <1>3, RaisedType DEF StorageAlerts, AlertType, Names
<1>6. asks => Request(s, n, "storage_content", http)
  BY <1>2, <1>3, OutcomeType DEF Request, Names
<1>7. /\ a \in JobType(s)
      /\ a.at = "storages" /\ a.left = job[s].left /\ a.todo = job[s].todo /\ a.cur = job[s].cur
      /\ a.hosts = job[s].hosts /\ a.health = job[s].health /\ a.alerts = job[s].alerts
  <2>1. CASE asks
    <3>1. HasAsked(s, n, "storage_content", http, job[s], Asked(s, n, "storage_content", http, job[s]))
      BY <1>1, <1>6, <2>1, AskedType
    <3>2. HasAsked(s, n, "storage_content", http, job[s], a)
      BY <2>1, <3>1
    <3> HIDE DEF a
    <3>3. QED
      BY <1>1, <3>2 DEF HasAsked
  <2>2. CASE ~asks
    BY <1>1, <2>2
  <2>3. QED
    BY <2>1, <2>2
<1>8. Proceed(s, Change(a, "storages", job[s].left, todo, job[s].cur, hosts, job[s].health, alerts))
  <2>1. Proceed(s, [a EXCEPT !.todo = a.todo \ {n}, !.alerts = a.alerts \cup new,
                             !.hosts = [a.hosts EXCEPT ![n] = NameFullest(a.hosts[n])]])
    BY <1>2
  <2> HIDE DEF a, new
  <2>2. /\ a.todo \ {n} = todo /\ a.alerts \cup new = alerts
        /\ [a.hosts EXCEPT ![n] = NameFullest(a.hosts[n])] = hosts
    BY <1>7
  <2> HIDE DEF todo, alerts, hosts
  <2>3. Proceed(s, [a EXCEPT !.todo = todo, !.alerts = alerts, !.hosts = hosts])
    BY <2>1, <2>2
  <2>4. QED
    BY <1>7, <2>3 DEF Change, JobType
<1>9. Fields(s, "storages", job[s].left, todo, job[s].cur, hosts, job[s].health, alerts)
  <2>1. hosts \in [NodesOf(s) -> HostType]
    BY <1>1, <1>3, <1>4
  <2>2. alerts \in SUBSET AlertType(s) /\ todo \in SUBSET NodesOf(s)
    BY <1>1, <1>5
  <2> HIDE DEF hosts, alerts, todo
  <2>3. QED
    BY <1>1, <2>1, <2>2 DEF Fields, Places
<1> HIDE DEF told, g, new, todo, hosts, alerts
<1>10. /\ Alone(s) /\ job'[s] \in JobType(s) /\ job'[s].lost = job[s].lost
       /\ job[s].down \subseteq job'[s].down
       /\ job'[s].at = "storages" /\ job'[s].todo = todo
       /\ job'[s].hosts = hosts /\ job'[s].alerts = alerts
  <2>1. CASE asks
    <3>1. Proceed(s, Change(Asked(s, n, "storage_content", http, job[s]), "storages", job[s].left,
                            todo, job[s].cur, hosts, job[s].health, alerts))
      BY <1>8, <2>1
    <3> HIDE DEF asks
    <3>2. /\ Alone(s) /\ Answered(s, n, "storage_content", http, job[s], job'[s])
          /\ job'[s].at = "storages" /\ job'[s].todo = todo
          /\ job'[s].hosts = hosts /\ job'[s].alerts = alerts
      BY <1>1, <1>6, <1>9, <2>1, <3>1, AskedAndChanged
    <3>3. QED
      BY <3>2 DEF Answered
  <2>2. CASE ~asks
    <3>1. Proceed(s, Change(job[s], "storages", job[s].left, todo, job[s].cur, hosts,
                            job[s].health, alerts))
      BY <1>8, <2>2
    <3> HIDE DEF asks
    <3>2. QED
      BY <1>1, <1>9, <3>1, JustChanged
  <2>3. QED
    BY <2>1, <2>2
<1>11. StorageAnswer(s, job[s], job'[s], n, g, new)
  BY <1>1, <1>2, <1>10 DEF StorageAnswer, told, g, new, todo, hosts, alerts
<1>12. QED
  BY <1>1, <1>10, <1>11, StorageStep

(***************************************************************************)
(* Guests.                                                                 *)
(***************************************************************************)
GuestVerdict(guest) == IF guest = "STOPPED" THEN "warning" ELSE "ok"

\* What an answer about the guest of node n makes of job j: g is its host now.
GuestAnswer(L, E, s, j, i, n, g, new) ==
  /\ j.at = "guest" /\ n = j.cur
  /\ g \in HostType /\ HostReads(L, E, s, n, g) /\ g.named = j.hosts[n].named
  /\ g.listed.guest # "GONE"
  /\ i \in JobType(s) /\ i.lost = j.lost /\ i.todo = j.todo /\ i.cur = n
  /\ i.at \in {"guest", "guests"}
  /\ i.at = "guest" => Len(i.left) \in 1..5 /\ Rest(GuestRequests, i.left)
  /\ new = IF i.at = "guest" THEN {} ELSE Raised(s, n, "guest_status", GuestVerdict(g.listed.guest))
  /\ i.hosts = [j.hosts EXCEPT ![n] = g]
  /\ i.alerts = j.alerts \cup new /\ j.down \subseteq i.down

LEMMA GuestStep ==
  ASSUME NEW L, NEW E, NEW s, NEW j, NEW i, NEW n, NEW g, NEW new,
         JobOK(L, E, s, j), GuestAnswer(L, E, s, j, i, n, g, new)
  PROVE  JobOK(L, E, s, i)
<1>a. /\ j.at = "guest" /\ n = j.cur
      /\ i \in JobType(s) /\ i.lost = j.lost /\ i.todo = j.todo /\ i.cur = n
      /\ i.at \in {"guest", "guests"}
      /\ i.at = "guest" => Len(i.left) \in 1..5 /\ Rest(GuestRequests, i.left)
  BY DEF GuestAnswer
<1>b. /\ g \in HostType /\ HostReads(L, E, s, n, g) /\ g.named = j.hosts[n].named
      /\ g.listed.guest # "GONE"
      /\ i.hosts = [j.hosts EXCEPT ![n] = g]
  BY DEF GuestAnswer
<1>c. /\ new = IF i.at = "guest" THEN {}
               ELSE Raised(s, n, "guest_status", GuestVerdict(g.listed.guest))
      /\ i.alerts = j.alerts \cup new /\ j.down \subseteq i.down
  BY DEF GuestAnswer
<1>1. /\ ~j.lost /\ Begun(j) /\ j.hosts \in [NodesOf(s) -> HostType]
      /\ n \in (NodesOf(s) \cap Guests) \ j.todo /\ i.todo \subseteq Guests
  BY <1>a DEF JobOK, JobShape, Begun, JobType
<1>2. JobTells(L, E, s, j)
  BY <1>1 DEF JobOK
<1>3. i.hosts \in [NodesOf(s) -> HostType] /\ i.hosts[n] = g
      /\ \A x \in NodesOf(s) \ {n} : i.hosts[x] = j.hosts[x]
  BY <1>1, <1>b
<1>4. \A x, k : Heard(L, s, x, k, j.alerts, j.down) => Heard(L, s, x, k, i.alerts, i.down)
  <2>1. j.alerts \subseteq i.alerts /\ j.down \subseteq i.down
    BY <1>c
  <2>2. QED
    BY <2>1, HeardLater
<1> DEFINE v == GuestVerdict(g.listed.guest)
<1>5. Between(L, E, s, n, "guest_status", v) /\ v \in Health
  BY <1>1, <1>b DEF HostReads, GuestVerdict, Health
<1> HIDE DEF v
<1>6. "guest_status" \in Tells("guest_status") /\ "guest_status" # "offline"
  BY TellsAndLearns
<1>7. \A e \in new : AlertTrue(E, e)
  <2>1. \A e \in Raised(s, n, "guest_status", v) : AlertTrue(E, e)
    BY <1>5, <1>6, RaisedTrue
  <2>2. QED
    BY <1>c, <2>1 DEF v
<1>8. i.at = "guests" => Heard(L, s, n, "guest_status", i.alerts, i.down)
  <2>1. i.at = "guests" => Raised(s, n, "guest_status", v) \subseteq i.alerts
    BY <1>c DEF v
  <2>2. QED
    BY <1>5, <1>6, <2>1, HeardByAlert
<1>9. \A x \in NodesOf(s) : HostReads(L, E, s, x, i.hosts[x]) /\ HostHeard(L, s, x, i)
  <2>1. \A x \in NodesOf(s) : HostReads(L, E, s, x, j.hosts[x]) /\ HostHeard(L, s, x, j)
    BY <1>2 DEF JobTells
  <2>2. \A x \in NodesOf(s) : i.hosts[x].named = j.hosts[x].named
    BY <1>3, <1>b
  <2>3. \A x \in NodesOf(s) : HostReads(L, E, s, x, i.hosts[x])
    BY <1>3, <1>b, <2>1
  <2>4. QED
    BY <1>4, <1>a, <2>1, <2>2, <2>3 DEF HostHeard
<1>10. ASSUME NEW x \in NodesOf(s) PROVE NodeHeard(L, s, x, i)
  <2>1. NodeHeard(L, s, x, j)
    BY <1>2 DEF JobTells
  <2>2. QED
    BY <1>4, <1>a, <2>1 DEF NodeHeard, Unread
<1>11. ASSUME NEW x \in NodesOf(s) \cap Storages PROVE StorageHeard(L, s, x, i)
  <2>1. StorageHeard(L, s, x, j)
    BY <1>2 DEF JobTells
  <2>2. QED
    BY <1>4, <1>a, <2>1 DEF StorageHeard
<1>12. ASSUME NEW x \in NodesOf(s) \cap Guests PROVE GuestHeard(L, s, x, i)
  <2>1. GuestHeard(L, s, x, j)
    BY <1>2 DEF JobTells
  <2>2. CASE x = n
    <3>1. i.hosts[x].listed.guest # "GONE"
      BY <1>3, <1>b, <2>2
    <3>2. AskedAbout(i, x) \/ Heard(L, s, x, "guest_status", i.alerts, i.down)
      BY <1>8, <1>a, <2>2 DEF AskedAbout
    <3>3. QED
      BY <3>1, <3>2 DEF GuestHeard
  <2>3. CASE x # n
    <3>1. AskedAbout(i, x) <=> AskedAbout(j, x)
      BY <1>a, <2>3 DEF AskedAbout
    <3>2. i.hosts[x] = j.hosts[x]
      BY <1>3, <2>3
    <3>3. QED
      BY <1>4, <1>a, <2>1, <3>1, <3>2 DEF GuestHeard
  <2>4. QED
    BY <2>2, <2>3
<1>13. SourceHeard(L, s, i) /\ PoolRead(L, E, s, i)
  <2>1. SourceHeard(L, s, j)
    BY <1>2 DEF JobTells
  <2>2. QED
    BY <1>4, <1>a, <2>1 DEF SourceHeard, PoolRead
<1>14. JobTells(L, E, s, i)
  <2>1. \A e \in i.alerts : AlertTrue(E, e)
    BY <1>2, <1>7, <1>c DEF JobTells
  <2>2. QED
    BY <1>9, <1>10, <1>11, <1>12, <1>13, <2>1 DEF JobTells
<1>15. JobShape(s, i)
  BY <1>1, <1>3, <1>a DEF JobShape, Begun
<1>16. QED
  BY <1>14, <1>15 DEF JobOK

WithGuest(h, guest) == [h EXCEPT !.listed.guest = guest]

\* A guest that answers is there.
LEMMA GuestThere ==
  ASSUME NEW n, NEW http \in GuestOutcomes(n)
  PROVE  http \in Nat /\ (http = 200 => node[n].guest # "GONE")
BY OutcomeType DEF GuestOutcomes, Outcomes

LEMMA GuestAfterOK ==
  ASSUME Context, NEW s \in Sources, NEW n \in NodesOf(s) \cap Guests, NEW name,
         NEW http \in GuestOutcomes(n),
         NEW h \in HostType, h = job[s].hosts[n], HostReads(lasting, ever, s, n, h),
         h.listed.guest # "GONE",
         NEW guest, guest = GuestAfter(s, n, name, http),
         NEW g, g = WithGuest(h, guest)
  PROVE  /\ g \in HostType /\ HostReads(lasting, ever, s, n, g) /\ g.named = h.named
         /\ g.listed.guest = guest /\ guest \in {"RUNNING", "STOPPED"}
<1>1. n \in Nodes /\ node[n] \in NodeWorlds /\ node[n].guest \in {"RUNNING", "STOPPED", "GONE"}
      /\ node[n].guest \in Texts \cup {"GONE"}
  BY NodeTyped DEF NodesOf, Context, ReadAsMeant, NodeWorld
<1>2. Between(lasting, ever, s, n, "guest_status", GuestVerdict(node[n].guest))
  <2>1. /\ "guest_status" \in DOMAIN WrongWithGuest(node[n])
        /\ WrongWithGuest(node[n])["guest_status"] = GuestVerdict(node[n].guest)
    BY DEF WrongWithGuest, GuestVerdict
  <2>2. Home[n] = s /\ n \in Guests
    BY DEF NodesOf
  <2>3. QED
    BY <2>1, <2>2, GuestNow DEF Context
<1>3. /\ h.listed.guest \in {"RUNNING", "STOPPED"} /\ h.listed.guest \in Texts \cup {"GONE"}
      /\ Between(lasting, ever, s, n, "guest_status", GuestVerdict(h.listed.guest))
  BY DEF HostReads, HostType, ListedType, GuestVerdict
<1>4. /\ guest \in {"RUNNING", "STOPPED"} /\ guest \in Texts \cup {"GONE"}
      /\ Between(lasting, ever, s, n, "guest_status", GuestVerdict(guest))
  <2>1. CASE name = "guest_status" /\ http = 200
    <3>1. guest = node[n].guest /\ guest # "GONE"
      BY <2>1, GuestThere DEF GuestAfter
    <3>2. QED
      BY <1>1, <1>2, <3>1
  <2>2. CASE ~(name = "guest_status" /\ http = 200)
    <3>1. guest = h.listed.guest
      BY <2>2 DEF GuestAfter
    <3>2. QED
      BY <1>3, <3>1
  <2>3. QED
    BY <2>1, <2>2
<1> DEFINE listed == [h.listed EXCEPT !.guest = guest]
<1>5. /\ listed \in ListedType /\ listed.guest = guest /\ listed.stored = h.listed.stored
      /\ listed.storage = h.listed.storage /\ listed.pool = h.listed.pool
  <2>1. h.listed \in ListedType
    BY DEF HostType
  <2>2. QED
    BY <1>4, <2>1 DEF ListedType
<1>6. g = [h EXCEPT !.listed = listed]
  BY DEF WithGuest
<1> HIDE DEF listed
<1>7. /\ g \in HostType /\ g.listed = listed /\ g.online = h.online /\ g.mem = h.mem
      /\ g.root = h.root /\ g.max = h.max /\ g.named = h.named
  BY <1>5, <1>6 DEF HostType
<1>8. HostReads(lasting, ever, s, n, g)
  BY <1>4, <1>5, <1>7 DEF HostReads, GuestVerdict
<1>9. QED
  BY <1>4, <1>5, <1>7, <1>8

\* The requests left after one about a guest.
LEMMA GuestRequestsLeft ==
  ASSUME NEW left \in Seq(Names), Len(left) \in 1..5, Rest(GuestRequests, left),
         NEW s, NEW n, NEW guest, NEW rest, rest = GuestRest(s, n, left, guest)
  PROVE  /\ Head(left) \in Names /\ rest \in Seq(Names)
         /\ rest # <<>> => Len(rest) \in 1..5 /\ Rest(GuestRequests, rest)
<1>1. /\ Head(left) \in Names /\ Tail(left) \in Seq(Names) /\ Len(Tail(left)) = Len(left) - 1
      /\ Rest(GuestRequests, Tail(left))
  BY Lists, RestOf
<1>2. rest = <<>> \/ rest = Tail(left)
  BY DEF GuestRest
<1>3. CASE rest = <<>>
  BY <1>1, <1>3
<1>4. CASE rest = Tail(left)
  <2>1. rest \in Seq(Names)
    BY <1>1, <1>4
  <2>2. rest # <<>> => Len(rest) # 0
    BY <2>1, EmptySeq
  <2>3. Len(rest) = Len(left) - 1
    BY <1>1, <1>4
  <2>4. QED
    BY <1>1, <1>4, <2>2, <2>3
<1>5. QED
  BY <1>2, <1>3, <1>4

LEMMA ReadGuestOK ==
  ASSUME Context, NEW s \in Sources, OK(s), ReadGuest(s)
  PROVE  Alone(s) /\ JobOK(lasting, ever, s, job'[s])
<1>1. /\ JobOK(lasting, ever, s, job[s]) /\ job[s] \in JobType(s) /\ job[s].at = "guest"
      /\ Begun(job[s])
      /\ Len(job[s].left) \in 1..5 /\ Rest(GuestRequests, job[s].left) /\ job[s].left \in Seq(Names)
      /\ job[s].cur \in (NodesOf(s) \cap Guests) \ job[s].todo
      /\ job[s].hosts \in [NodesOf(s) -> HostType]
      /\ job[s].alerts \in SUBSET AlertType(s) /\ job[s].health \in Health
      /\ job[s].todo \in SUBSET NodesOf(s)
  BY DEF OK, JobOK, JobShape, ReadGuest, Begun, JobType
<1>2. JobTells(lasting, ever, s, job[s])
  BY <1>1 DEF JobOK
<1> DEFINE n == job[s].cur
           name == Head(job[s].left)
<1>3. PICK http \in GuestOutcomes(n) :
        LET guest == GuestAfter(s, n, name, http)
            j == Asked(s, n, name, http, job[s])
            rest == GuestRest(s, n, j.left, guest)
        IN  Proceed(s, [j EXCEPT
                !.left = rest,
                !.at = IF rest = <<>> THEN "guests" ELSE @,
                !.hosts[n].listed.guest = guest,
                !.alerts = IF rest = <<>> /\ guest # "RUNNING"
                           THEN @ \cup {Alert(s, n, "guest_status", "warning")} ELSE @])
  BY DEF ReadGuest
<1> DEFINE guest == GuestAfter(s, n, name, http)
           a == Asked(s, n, name, http, job[s])
           rest == GuestRest(s, n, job[s].left, guest)
           g == [job[s].hosts[n] EXCEPT !.listed.guest = guest]
           at == IF rest = <<>> THEN "guests" ELSE "guest"
           new == IF at = "guest" THEN {} ELSE Raised(s, n, "guest_status", GuestVerdict(guest))
           hosts == [job[s].hosts EXCEPT ![n] = g]
           alerts == job[s].alerts \cup new
<1>4. http \in Nat /\ n \in NodesOf(s) \cap Guests
  BY <1>1, <1>3, GuestThere
<1>5. /\ name \in Names /\ rest \in Seq(Names)
      /\ rest # <<>> => Len(rest) \in 1..5 /\ Rest(GuestRequests, rest)
  <2> HIDE DEF n, guest
  <2>1. QED
    BY <1>1, GuestRequestsLeft
<1>6. Request(s, n, name, http)
  BY <1>4, <1>5 DEF Request
<1>7. /\ a \in JobType(s)
      /\ a.at = job[s].at /\ a.left = job[s].left /\ a.todo = job[s].todo /\ a.cur = job[s].cur
      /\ a.hosts = job[s].hosts /\ a.health = job[s].health /\ a.alerts = job[s].alerts
  <2>1. job[s] \in JobType(s) /\ Request(s, n, name, http)
    BY <1>1, <1>6
  <2> HIDE DEF n, name
  <2>2. HasAsked(s, n, name, http, job[s], a)
    BY <2>1, AskedType
  <2> HIDE DEF a
  <2>3. QED
    BY <2>2 DEF HasAsked
<1>8. /\ g \in HostType /\ HostReads(lasting, ever, s, n, g) /\ g.named = job[s].hosts[n].named
      /\ g.listed.guest = guest /\ guest \in {"RUNNING", "STOPPED"}
  <2>1. GuestHeard(lasting, s, n, job[s]) /\ HostReads(lasting, ever, s, n, job[s].hosts[n])
    BY <1>2, <1>4 DEF JobTells
  <2>2. job[s].hosts[n].listed.guest # "GONE"
    BY <1>1, <2>1 DEF GuestHeard, AskedAbout
  <2>3. job[s].hosts[n] \in HostType /\ http \in GuestOutcomes(n)
    BY <1>1, <1>3, <1>4
  <2>4. PICK h, x, y : h = job[s].hosts[n] /\ x = guest /\ y = WithGuest(h, x)
    OBVIOUS
  <2>5. g = y
    BY <2>4 DEF WithGuest
  <2> HIDE DEF n, name, g
  <2>6. x = GuestAfter(s, n, name, http)
    BY <2>4
  <2> HIDE DEF guest
  <2>7. /\ y \in HostType /\ HostReads(lasting, ever, s, n, y) /\ y.named = h.named
        /\ y.listed.guest = x /\ x \in {"RUNNING", "STOPPED"}
    BY <1>4, <2>1, <2>2, <2>3, <2>4, <2>6, GuestAfterOK
  <2>8. QED
    BY <2>4, <2>5, <2>7
<1>9. Proceed(s, Change(a, at, rest, job[s].todo, n, hosts, job[s].health, alerts))
  <2> DEFINE told == IF GuestRest(s, n, a.left, guest) = <<>> /\ guest # "RUNNING"
                     THEN a.alerts \cup {Alert(s, n, "guest_status", "warning")} ELSE a.alerts
  <2>1. Proceed(s, [a EXCEPT
                !.left = GuestRest(s, n, a.left, guest),
                !.at = IF GuestRest(s, n, a.left, guest) = <<>> THEN "guests" ELSE a.at,
                !.hosts = [a.hosts EXCEPT ![n] = [a.hosts[n] EXCEPT !.listed.guest = guest]],
                !.alerts = told])
    BY <1>3
  <2>2. told = alerts
    <3>1. GuestRest(s, n, a.left, guest) = rest /\ a.alerts = job[s].alerts
      BY <1>7
    <3> HIDE DEF rest, guest, a, n
    <3>2. CASE rest = <<>> /\ guest = "STOPPED"
      BY <3>1, <3>2 DEF GuestVerdict, Raised
    <3>3. CASE rest = <<>> /\ guest = "RUNNING"
      BY <3>1, <3>3 DEF GuestVerdict, Raised
    <3>4. CASE rest # <<>>
      BY <3>1, <3>4
    <3>5. QED
      BY <1>8, <3>2, <3>3, <3>4
  <2> HIDE DEF n, name, a, guest, told
  <2>3. /\ GuestRest(s, n, a.left, guest) = rest
        /\ [a.hosts EXCEPT ![n] = [a.hosts[n] EXCEPT !.listed.guest = guest]] = hosts
        /\ at = IF GuestRest(s, n, a.left, guest) = <<>> THEN "guests" ELSE a.at
    BY <1>1, <1>7
  <2> HIDE DEF rest, hosts, alerts, at, g
  <2>4. Proceed(s, Learnt(a, at, rest, hosts, alerts))
    BY <2>1, <2>2, <2>3 DEF Learnt
  <2>5. Learnt(a, at, rest, hosts, alerts)
          = Change(a, at, rest, job[s].todo, n, hosts, job[s].health, alerts)
    BY <1>7, LearntIs DEF n
  <2>6. QED
    BY <2>4, <2>5
<1> HIDE DEF n, name, guest, a, rest, g
<1>10. new \subseteq AlertType(s)
  BY <1>4, RaisedType DEF AlertType, Names
<1>11. Fields(s, at, rest, job[s].todo, n, hosts, job[s].health, alerts)
  <2>1. hosts \in [NodesOf(s) -> HostType]
    BY <1>1, <1>4, <1>8
  <2>2. alerts \in SUBSET AlertType(s)
    BY <1>1, <1>10
  <2>3. at \in Places
    BY DEF Places
  <2> HIDE DEF hosts, alerts, at
  <2>4. QED
    BY <1>1, <1>4, <1>5, <2>1, <2>2, <2>3 DEF Fields
<1>12. at \in {"guest", "guests"} /\ (at = "guest" => rest # <<>>)
  OBVIOUS
<1> HIDE DEF new, at, hosts, alerts
<1>13. /\ Alone(s) /\ Answered(s, n, name, http, job[s], job'[s])
       /\ job'[s].at = at /\ job'[s].left = rest /\ job'[s].todo = job[s].todo /\ job'[s].cur = n
       /\ job'[s].hosts = hosts /\ job'[s].alerts = alerts
  <2>1. Proceed(s, Change(Asked(s, n, name, http, job[s]), at, rest, job[s].todo, n, hosts,
                          job[s].health, alerts))
    BY <1>9 DEF a
  <2>2. QED
    BY <1>1, <1>6, <1>11, <2>1, AskedAndChanged
<1>14. GuestAnswer(lasting, ever, s, job[s], job'[s], n, g, new)
  <2>1. job[s].at = "guest" /\ n = job[s].cur
    BY <1>1 DEF n
  <2>2. /\ g \in HostType /\ HostReads(lasting, ever, s, n, g) /\ g.named = job[s].hosts[n].named
        /\ g.listed.guest # "GONE"
    BY <1>8
  <2>3. /\ job'[s] \in JobType(s) /\ job'[s].lost = job[s].lost
        /\ job[s].down \subseteq job'[s].down
    BY <1>13 DEF Answered
  <2>4. /\ job'[s].todo = job[s].todo /\ job'[s].cur = n
        /\ job'[s].at \in {"guest", "guests"}
        /\ job'[s].at = "guest" => Len(job'[s].left) \in 1..5 /\ Rest(GuestRequests, job'[s].left)
    BY <1>5, <1>12, <1>13
  <2>5. /\ new = IF job'[s].at = "guest" THEN {}
                 ELSE Raised(s, n, "guest_status", GuestVerdict(g.listed.guest))
        /\ job'[s].hosts = [job[s].hosts EXCEPT ![n] = g]
        /\ job'[s].alerts = job[s].alerts \cup new
    BY <1>8, <1>13 DEF new, hosts, alerts
  <2>6. QED
    BY <2>1, <2>2, <2>3, <2>4, <2>5 DEF GuestAnswer
<1>15. QED
  BY <1>1, <1>13, <1>14, GuestStep

(***************************************************************************)
(* Replication and tasks.                                                  *)
(***************************************************************************)
\* What the list of replication jobs, or the status of its job, makes of job j.
ReplicationAnswer(L, E, s, j, i, new) ==
  /\ j.at \in {"guests", "replication"} /\ (j.at = "guests" => j.todo = {})
  /\ i \in JobType(s) /\ i.lost = j.lost /\ i.hosts = j.hosts
  /\ i.at \in {"replication", "tasks"}
  /\ i.at = "tasks" => i.todo = NodesOf(s) /\ Heard(L, s, 0, "replication", i.alerts, i.down)
  /\ i.alerts = j.alerts \cup new /\ j.down \subseteq i.down
  /\ \A e \in new : AlertTrue(E, e)

LEMMA ReplicationStep ==
  ASSUME NEW L, NEW E, NEW s, NEW j, NEW i, NEW new,
         JobOK(L, E, s, j), ReplicationAnswer(L, E, s, j, i, new)
  PROVE  JobOK(L, E, s, i)
<1>a. /\ j.at \in {"guests", "replication"} /\ (j.at = "guests" => j.todo = {})
      /\ i \in JobType(s) /\ i.lost = j.lost /\ i.hosts = j.hosts
      /\ i.at \in {"replication", "tasks"}
      /\ i.at = "tasks" => i.todo = NodesOf(s) /\ Heard(L, s, 0, "replication", i.alerts, i.down)
  BY DEF ReplicationAnswer
<1>b. /\ i.alerts = j.alerts \cup new /\ j.down \subseteq i.down
      /\ \A e \in new : AlertTrue(E, e)
  BY DEF ReplicationAnswer
<1>1. ~j.lost /\ Begun(j) /\ j.hosts \in [NodesOf(s) -> HostType]
  BY <1>a DEF JobOK, JobShape, Begun, JobType
<1>2. JobTells(L, E, s, j)
  BY <1>1 DEF JobOK
<1>3. \A x, k : Heard(L, s, x, k, j.alerts, j.down) => Heard(L, s, x, k, i.alerts, i.down)
  <2>1. j.alerts \subseteq i.alerts /\ j.down \subseteq i.down
    BY <1>b
  <2>2. QED
    BY <2>1, HeardLater
<1>4. \A x \in NodesOf(s) : HostReads(L, E, s, x, i.hosts[x]) /\ HostHeard(L, s, x, i)
  <2>1. \A x \in NodesOf(s) : HostReads(L, E, s, x, j.hosts[x]) /\ HostHeard(L, s, x, j)
    BY <1>2 DEF JobTells
  <2>2. QED
    BY <1>3, <1>a, <2>1 DEF HostHeard
<1>5. ASSUME NEW x \in NodesOf(s) PROVE NodeHeard(L, s, x, i)
  <2>1. NodeHeard(L, s, x, j)
    BY <1>2 DEF JobTells
  <2>2. QED
    BY <1>3, <1>a, <2>1 DEF NodeHeard, Unread
<1>6. ASSUME NEW x \in NodesOf(s) \cap Storages PROVE StorageHeard(L, s, x, i)
  <2>1. StorageHeard(L, s, x, j)
    BY <1>2 DEF JobTells
  <2>2. QED
    BY <1>3, <1>a, <2>1 DEF StorageHeard
<1>7. ASSUME NEW x \in NodesOf(s) \cap Guests PROVE GuestHeard(L, s, x, i)
  <2>1. GuestHeard(L, s, x, j) /\ ~AskedAbout(j, x)
    BY <1>2, <1>a DEF JobTells, AskedAbout
  <2>2. QED
    BY <1>3, <1>a, <2>1 DEF GuestHeard, AskedAbout
<1>8. SourceHeard(L, s, i) /\ PoolRead(L, E, s, i)
  <2>1. SourceHeard(L, s, j)
    BY <1>2 DEF JobTells
  <2>2. QED
    BY <1>3, <1>a, <2>1 DEF SourceHeard, PoolRead
<1>9. JobTells(L, E, s, i)
  <2>1. \A e \in i.alerts : AlertTrue(E, e)
    BY <1>2, <1>b DEF JobTells
  <2>2. QED
    BY <1>4, <1>5, <1>6, <1>7, <1>8, <2>1 DEF JobTells
<1>10. JobShape(s, i)
  BY <1>1, <1>a DEF JobShape, Begun
<1>11. QED
  BY <1>9, <1>10 DEF JobOK

LEMMA ReadReplicationOK ==
  ASSUME Context, NEW s \in Sources, OK(s), ReadReplication(s)
  PROVE  Alone(s) /\ JobOK(lasting, ever, s, job'[s])
<1>1. /\ JobOK(lasting, ever, s, job[s]) /\ job[s] \in JobType(s)
      /\ job[s].at = "guests" /\ job[s].todo = {}
      /\ job[s].left \in Seq(Names) /\ job[s].cur \in NodesOf(s) \cup {0}
      /\ job[s].hosts \in [NodesOf(s) -> HostType]
      /\ job[s].alerts \in SUBSET AlertType(s) /\ job[s].health \in Health
  BY DEF OK, JobOK, JobShape, ReadReplication, Begun, JobType
<1>2. PICK http \in Outcomes :
        Proceed(s, [Asked(s, 0, "replication", http, job[s]) EXCEPT
            !.at = IF http = 200 THEN "replication" ELSE "tasks",
            !.todo = IF http = 200 THEN {} ELSE NodesOf(s)])
  BY DEF ReadReplication
<1> DEFINE a == Asked(s, 0, "replication", http, job[s])
           at == IF http = 200 THEN "replication" ELSE "tasks"
           todo == IF http = 200 THEN {} ELSE NodesOf(s)
<1>3. Request(s, 0, "replication", http)
  BY OutcomeType DEF Request, Names
<1>4. HasAsked(s, 0, "replication", http, job[s], a)
  BY <1>1, <1>3, AskedType
<1>5. Fields(s, at, job[s].left, todo, job[s].cur, job[s].hosts, job[s].health, job[s].alerts)
  BY <1>1 DEF Fields, Places
<1>6. Proceed(s, Change(a, at, job[s].left, todo, job[s].cur, job[s].hosts, job[s].health,
                        job[s].alerts))
  <2>1. Proceed(s, Elsewhere(a, at, todo))
    BY <1>2 DEF Elsewhere
  <2> HIDE DEF a, at, todo
  <2>2. /\ a \in JobType(s) /\ a.left = job[s].left /\ a.cur = job[s].cur
        /\ a.hosts = job[s].hosts /\ a.health = job[s].health /\ a.alerts = job[s].alerts
    BY <1>4 DEF HasAsked
  <2>3. Elsewhere(a, at, todo)
          = Change(a, at, job[s].left, todo, job[s].cur, job[s].hosts, job[s].health, job[s].alerts)
    BY <2>2, ElsewhereIs
  <2>4. QED
    BY <2>1, <2>3
<1> HIDE DEF at, todo
<1>7. /\ Alone(s) /\ Answered(s, 0, "replication", http, job[s], job'[s])
      /\ job'[s].at = at /\ job'[s].todo = todo
      /\ job'[s].hosts = job[s].hosts /\ job'[s].alerts = job[s].alerts
  BY <1>1, <1>3, <1>5, <1>6, AskedAndChanged
<1>8. ReplicationAnswer(lasting, ever, s, job[s], job'[s], {})
  <2>1. /\ job'[s] \in JobType(s) /\ job'[s].lost = job[s].lost
        /\ job[s].down \subseteq job'[s].down
        /\ http # 200 => <<0, "replication">> \in job'[s].down
    BY <1>7 DEF Answered
  <2>2. http # 200 => Heard(lasting, s, 0, "replication", job'[s].alerts, job'[s].down)
    BY <2>1, TellsAndLearns, ShownFailures, HeardByFailure
  <2>3. QED
    BY <1>1, <1>7, <2>1, <2>2 DEF ReplicationAnswer, at, todo
<1>9. QED
  BY <1>1, <1>7, <1>8, ReplicationStep

\* The verdict on the replication job.
ReplicationVerdict(s, http) ==
  LET told == [NoError EXCEPT !.status = source[s].replication]
  IN  ReplicationHealth(IF http = 200 THEN WithStatus(NoError, told) ELSE NoError)

LEMMA ReplicationVerdictIs ==
  ASSUME NEW s, NEW http, source[s].replication # Blank
  PROVE  ReplicationVerdict(s, http) =
           IF http = 200 /\ source[s].replication # "OK" THEN "warning" ELSE "ok"
<1> DEFINE r == source[s].replication
           told == [NoError EXCEPT !.status = r]
<1>1. told = [status |-> r, error |-> Blank, failed |-> 0]
  BY DEF NoError
<1> HIDE DEF told, r
<1>2. NoError.status = Blank /\ NoError.error = Blank /\ NoError.failed = 0
  BY DEF NoError
<1>3. told.status = r /\ told.error = Blank /\ told.failed = 0
  BY <1>1
<1>4. WithStatus(NoError, told) = [status |-> r, error |-> Blank, failed |-> 0]
  <2>1. r # Blank
    BY DEF r
  <2>2. QED
    BY <1>2, <1>3, <2>1 DEF WithStatus, FirstText
<1>5. ReplicationVerdict(s, http)
        = ReplicationHealth(IF http = 200 THEN WithStatus(NoError, told) ELSE NoError)
  BY DEF ReplicationVerdict, told, r
<1>6. ReplicationHealth(NoError) = "ok"
  BY <1>2 DEF ReplicationHealth
<1>7. ReplicationHealth([status |-> r, error |-> Blank, failed |-> 0]) = IF r # "OK" THEN "warning" ELSE "ok"
  BY DEF ReplicationHealth, r
<1>8. QED
  BY <1>4, <1>5, <1>6, <1>7 DEF r

LEMMA ReadReplicationStatusOK ==
  ASSUME Context, NEW s \in Sources, OK(s), ReadReplicationStatus(s)
  PROVE  Alone(s) /\ JobOK(lasting, ever, s, job'[s])
<1>1. /\ JobOK(lasting, ever, s, job[s]) /\ job[s] \in JobType(s) /\ job[s].at = "replication"
      /\ job[s].left \in Seq(Names) /\ job[s].cur \in NodesOf(s) \cup {0}
      /\ job[s].hosts \in [NodesOf(s) -> HostType]
      /\ job[s].alerts \in SUBSET AlertType(s) /\ job[s].health \in Health
  BY DEF OK, JobOK, JobShape, ReadReplicationStatus, Begun, JobType
<1>2. PICK http \in Outcomes :
        Proceed(s, [Asked(s, 0, "replication_status", http, job[s]) EXCEPT
                !.at = "tasks", !.todo = NodesOf(s),
                !.health = MaxHealth(@, ReplicationVerdict(s, http)),
                !.alerts = @ \cup Raised(s, 0, "replication", ReplicationVerdict(s, http))])
  BY DEF ReadReplicationStatus, ReplicationVerdict
<1> DEFINE a == Asked(s, 0, "replication_status", http, job[s])
           h == ReplicationVerdict(s, http)
           new == Raised(s, 0, "replication", h)
           health == MaxHealth(job[s].health, h)
           alerts == job[s].alerts \cup new
           todo == NodesOf(s)
<1>3. Request(s, 0, "replication_status", http)
  BY OutcomeType DEF Request, Names
<1>4. HasAsked(s, 0, "replication_status", http, job[s], a)
  BY <1>1, <1>3, AskedType
<1>5. source[s] \in SourceWorlds /\ source[s].replication # Blank
  BY DEF Context, ReadAsMeant
<1>6. h = IF http = 200 /\ source[s].replication # "OK" THEN "warning" ELSE "ok"
  BY <1>5, ReplicationVerdictIs
<1>7. h \in Health /\ (http # 200 => h = "ok")
  BY <1>6 DEF Health
<1>8. http = 200 => Between(lasting, ever, s, 0, "replication", h)
  <2>1. /\ "replication" \in DOMAIN WrongWithSource(source[s])
        /\ http = 200 => WrongWithSource(source[s])["replication"] = h
    BY <1>6 DEF WrongWithSource
  <2> HIDE DEF h
  <2>2. QED
    BY <2>1, SourceNow DEF Context
<1>9. Proceed(s, Change(a, "tasks", job[s].left, todo, job[s].cur, job[s].hosts, health, alerts))
  <2>1. Proceed(s, [a EXCEPT !.at = "tasks", !.todo = NodesOf(s), !.health = MaxHealth(a.health, h),
                             !.alerts = a.alerts \cup new])
    BY <1>2
  <2> HIDE DEF a, h, new
  <2>2. MaxHealth(a.health, h) = health /\ a.alerts \cup new = alerts
    BY <1>4 DEF HasAsked
  <2> HIDE DEF health, alerts, todo
  <2>3. Proceed(s, Judged(a, "tasks", todo, health, alerts))
    BY <2>1, <2>2 DEF Judged, todo
  <2>4. /\ a \in JobType(s) /\ a.left = job[s].left /\ a.cur = job[s].cur
        /\ a.hosts = job[s].hosts
    BY <1>4 DEF HasAsked
  <2>5. Judged(a, "tasks", todo, health, alerts)
          = Change(a, "tasks", job[s].left, todo, job[s].cur, job[s].hosts, health, alerts)
    BY <2>4, JudgedIs
  <2>6. QED
    BY <2>3, <2>5
<1> HIDE DEF h
<1>10. new \subseteq AlertType(s)
  BY RaisedType DEF AlertType, Names
<1>11. Fields(s, "tasks", job[s].left, todo, job[s].cur, job[s].hosts, health, alerts)
  <2>1. health \in Health
    BY <1>1, <1>7 DEF MaxHealth
  <2>2. alerts \in SUBSET AlertType(s)
    BY <1>1, <1>10
  <2> HIDE DEF health, alerts
  <2>3. QED
    BY <1>1, <2>1, <2>2 DEF Fields, Places
<1> HIDE DEF new, alerts, todo, health
<1>12. /\ Alone(s) /\ Answered(s, 0, "replication_status", http, job[s], job'[s])
       /\ job'[s].at = "tasks" /\ job'[s].todo = todo
       /\ job'[s].hosts = job[s].hosts /\ job'[s].alerts = alerts
  BY <1>1, <1>3, <1>9, <1>11, AskedAndChanged
<1>13. ReplicationAnswer(lasting, ever, s, job[s], job'[s], new)
  <2>1. /\ job'[s] \in JobType(s) /\ job'[s].lost = job[s].lost
        /\ job[s].down \subseteq job'[s].down
        /\ http # 200 => <<0, "replication_status">> \in job'[s].down
    BY <1>12 DEF Answered
  <2>2. job'[s].alerts = job[s].alerts \cup new
    BY <1>12 DEF alerts
  <2>3. "replication" \in Tells("replication") /\ "replication" # "offline"
    BY TellsAndLearns
  <2>4. \A e \in new : AlertTrue(ever, e)
    <3>1. CASE http = 200
      BY <1>8, <2>3, <3>1, RaisedTrue DEF new
    <3>2. CASE http # 200
      BY <1>7, <3>2 DEF new, Raised
    <3>3. QED
      BY <3>1, <3>2
  <2>5. Heard(lasting, s, 0, "replication", job'[s].alerts, job'[s].down)
    <3>1. CASE http = 200
      <4>1. Raised(s, 0, "replication", h) \subseteq job'[s].alerts
        BY <2>2 DEF new
      <4>2. QED
        BY <1>7, <1>8, <2>3, <3>1, <4>1, HeardByAlert
    <3>2. CASE http # 200
      BY <2>1, <3>2, TellsAndLearns, ShownFailures, HeardByFailure
    <3>3. QED
      BY <3>1, <3>2
  <2>6. QED
    BY <1>1, <1>12, <2>1, <2>2, <2>4, <2>5 DEF ReplicationAnswer, todo
<1>14. QED
  BY <1>1, <1>12, <1>13, ReplicationStep

\* What the answer about the tasks of node n makes of job j.
TasksAnswer(L, E, s, j, i, n, g, new) ==
  /\ j.at = "tasks" /\ n \in j.todo
  /\ g \in HostType /\ HostReads(L, E, s, n, g) /\ g.named = j.hosts[n].named
  /\ i \in JobType(s) /\ i.lost = j.lost /\ i.at = "tasks" /\ i.todo = j.todo \ {n}
  /\ i.hosts = [j.hosts EXCEPT ![n] = g]
  /\ i.alerts = j.alerts \cup new /\ j.down \subseteq i.down
  /\ \A e \in new : AlertTrue(E, e)
  /\ Heard(L, s, n, "tasks", i.alerts, i.down)

LEMMA TasksStep ==
  ASSUME NEW L, NEW E, NEW s, NEW j, NEW i, NEW n, NEW g, NEW new,
         JobOK(L, E, s, j), TasksAnswer(L, E, s, j, i, n, g, new)
  PROVE  JobOK(L, E, s, i)
<1>a. /\ j.at = "tasks" /\ n \in j.todo
      /\ i \in JobType(s) /\ i.lost = j.lost /\ i.at = "tasks" /\ i.todo = j.todo \ {n}
  BY DEF TasksAnswer
<1>b. /\ g \in HostType /\ HostReads(L, E, s, n, g) /\ g.named = j.hosts[n].named
      /\ i.hosts = [j.hosts EXCEPT ![n] = g]
  BY DEF TasksAnswer
<1>c. /\ i.alerts = j.alerts \cup new /\ j.down \subseteq i.down
      /\ \A e \in new : AlertTrue(E, e)
      /\ Heard(L, s, n, "tasks", i.alerts, i.down)
  BY DEF TasksAnswer
<1>1. ~j.lost /\ Begun(j) /\ j.hosts \in [NodesOf(s) -> HostType] /\ n \in NodesOf(s)
  BY <1>a DEF JobOK, JobShape, Begun, JobType
<1>2. JobTells(L, E, s, j)
  BY <1>1 DEF JobOK
<1>3. i.hosts \in [NodesOf(s) -> HostType] /\ i.hosts[n] = g
      /\ \A x \in NodesOf(s) \ {n} : i.hosts[x] = j.hosts[x]
  BY <1>1, <1>b
<1>4. \A x, k : Heard(L, s, x, k, j.alerts, j.down) => Heard(L, s, x, k, i.alerts, i.down)
  <2>1. j.alerts \subseteq i.alerts /\ j.down \subseteq i.down
    BY <1>c
  <2>2. QED
    BY <2>1, HeardLater
<1>5. \A x \in NodesOf(s) : HostReads(L, E, s, x, i.hosts[x]) /\ HostHeard(L, s, x, i)
  <2>1. \A x \in NodesOf(s) : HostReads(L, E, s, x, j.hosts[x]) /\ HostHeard(L, s, x, j)
    BY <1>2 DEF JobTells
  <2>2. \A x \in NodesOf(s) : i.hosts[x].named = j.hosts[x].named
    BY <1>3, <1>b
  <2>3. \A x \in NodesOf(s) : HostReads(L, E, s, x, i.hosts[x])
    BY <1>3, <1>b, <2>1
  <2>4. QED
    BY <1>4, <1>a, <2>1, <2>2, <2>3 DEF HostHeard
<1>6. ASSUME NEW x \in NodesOf(s) PROVE NodeHeard(L, s, x, i)
  <2>1. NodeHeard(L, s, x, j)
    BY <1>2 DEF JobTells
  <2>2. CASE x = n
    BY <1>4, <1>a, <1>c, <2>1, <2>2 DEF NodeHeard, Unread
  <2>3. CASE x # n
    BY <1>4, <1>a, <2>1, <2>3 DEF NodeHeard, Unread
  <2>4. QED
    BY <2>2, <2>3
<1>7. ASSUME NEW x \in NodesOf(s) \cap Storages PROVE StorageHeard(L, s, x, i)
  <2>1. StorageHeard(L, s, x, j)
    BY <1>2 DEF JobTells
  <2>2. QED
    BY <1>4, <1>a, <2>1 DEF StorageHeard
<1>8. ASSUME NEW x \in NodesOf(s) \cap Guests PROVE GuestHeard(L, s, x, i)
  <2>1. GuestHeard(L, s, x, j)
    BY <1>2 DEF JobTells
  <2>2. QED
    BY <1>4, <1>a, <2>1 DEF GuestHeard, AskedAbout
<1>9. SourceHeard(L, s, i) /\ PoolRead(L, E, s, i)
  <2>1. SourceHeard(L, s, j)
    BY <1>2 DEF JobTells
  <2>2. QED
    BY <1>4, <1>a, <2>1 DEF SourceHeard, PoolRead
<1>10. JobTells(L, E, s, i)
  <2>1. \A e \in i.alerts : AlertTrue(E, e)
    BY <1>2, <1>c DEF JobTells
  <2>2. QED
    BY <1>5, <1>6, <1>7, <1>8, <1>9, <2>1 DEF JobTells
<1>11. JobShape(s, i)
  BY <1>1, <1>3, <1>a DEF JobShape, Begun
<1>12. QED
  BY <1>10, <1>11 DEF JobOK

\* The health of a host is about none of the problems.
WithHealth(h, health) == [h EXCEPT !.health = health]

LEMMA HealthAside ==
  ASSUME NEW L, NEW E, NEW s, NEW n, NEW h \in HostType, HostReads(L, E, s, n, h),
         NEW health \in Health, NEW g, g = WithHealth(h, health)
  PROVE  g \in HostType /\ HostReads(L, E, s, n, g) /\ g.named = h.named /\ g.online = h.online
<1>1. /\ g \in HostType /\ g.online = h.online /\ g.mem = h.mem /\ g.root = h.root
      /\ g.max = h.max /\ g.named = h.named /\ g.listed = h.listed
  BY DEF WithHealth, HostType
<1>2. QED
  BY <1>1 DEF HostReads

LEMMA ReadTasksOK ==
  ASSUME Context, NEW s \in Sources, OK(s), ReadTasks(s)
  PROVE  Alone(s) /\ JobOK(lasting, ever, s, job'[s])
<1>1. /\ JobOK(lasting, ever, s, job[s]) /\ job[s] \in JobType(s) /\ job[s].at = "tasks"
      /\ job[s].left \in Seq(Names) /\ job[s].cur \in NodesOf(s) \cup {0}
      /\ job[s].alerts \in SUBSET AlertType(s) /\ job[s].health \in Health
      /\ job[s].todo \in SUBSET NodesOf(s)
  BY DEF OK, JobOK, JobShape, ReadTasks, JobType
<1>2. PICK n \in job[s].todo, http \in Outcomes :
        Proceed(s, [Asked(s, n, "tasks", http, job[s]) EXCEPT
            !.todo = @ \ {n},
            !.hosts[n].health = MaxHealth(@, NodeVerdict(s, n, "tasks", http)),
            !.alerts = @ \cup NodeAlerts(s, n, "tasks", http)])
  BY DEF ReadTasks
<1>3. n \in NodesOf(s) /\ http \in Nat /\ Begun(job[s]) /\ job[s].hosts \in [NodesOf(s) -> HostType]
  <2>1. Begun(job[s])
    BY <1>1, <1>2 DEF JobOK, JobShape, Begun
  <2>2. QED
    BY <1>1, <2>1, OutcomeType DEF JobOK, JobShape
<1>4. JobTells(lasting, ever, s, job[s])
  BY <1>1, <1>3 DEF JobOK
<1> DEFINE a == Asked(s, n, "tasks", http, job[s])
           health == MaxHealth(job[s].hosts[n].health, NodeVerdict(s, n, "tasks", http))
           g == WithHealth(job[s].hosts[n], health)
           new == NodeAlerts(s, n, "tasks", http)
           todo == job[s].todo \ {n}
           hosts == [job[s].hosts EXCEPT ![n] = g]
           alerts == job[s].alerts \cup new
<1>5. Request(s, n, "tasks", http)
  BY <1>3 DEF Request, Names
<1>6. HasAsked(s, n, "tasks", http, job[s], a)
  BY <1>1, <1>5, AskedType
<1>7. g \in HostType /\ HostReads(lasting, ever, s, n, g) /\ g.named = job[s].hosts[n].named
  <2>1. job[s].hosts[n] \in HostType /\ HostReads(lasting, ever, s, n, job[s].hosts[n])
    BY <1>3, <1>4 DEF JobTells
  <2>2. health \in Health
    BY <1>3, <2>1, NodeVerdictType DEF MaxHealth, HostType
  <2> HIDE DEF health
  <2>3. QED
    BY <2>1, <2>2, HealthAside
<1>8. Proceed(s, Change(a, "tasks", job[s].left, todo, job[s].cur, hosts, job[s].health, alerts))
  <2>1. Proceed(s, [a EXCEPT !.todo = a.todo \ {n},
                             !.hosts = [a.hosts EXCEPT ![n] = [a.hosts[n] EXCEPT !.health =
                                 MaxHealth(a.hosts[n].health, NodeVerdict(s, n, "tasks", http))]],
                             !.alerts = a.alerts \cup new])
    BY <1>2
  <2> HIDE DEF a, new
  <2>2. /\ a.todo \ {n} = todo /\ a.alerts \cup new = alerts
        /\ [a.hosts EXCEPT ![n] = [a.hosts[n] EXCEPT !.health =
               MaxHealth(a.hosts[n].health, NodeVerdict(s, n, "tasks", http))]] = hosts
    BY <1>6 DEF HasAsked, WithHealth
  <2> HIDE DEF todo, alerts, hosts
  <2>3. Proceed(s, [a EXCEPT !.todo = todo, !.hosts = hosts, !.alerts = alerts])
    BY <2>1, <2>2
  <2>4. QED
    BY <1>1, <1>6, <2>3 DEF HasAsked, Change, JobType
<1> HIDE DEF g
<1>9. "tasks" \in Tells("tasks") /\ "tasks" # "offline" /\ "tasks" \in LearntFrom("tasks") /\ Shows("tasks")
  BY TellsAndLearns, ShownFailures
<1>10. PICK v \in Health : /\ http = 200 => /\ new = Raised(s, n, "tasks", v)
                                           /\ Between(lasting, ever, s, n, "tasks", v)
                           /\ http # 200 => new = {}
  <2>1. CASE http = 200
    BY <1>3, <2>1, NodeRead
  <2>2. CASE http # 200
    <3>1. new = {}
      BY <2>2, OtherNodeRead
    <3>2. "ok" \in Health
      BY DEF Health
    <3>3. QED
      BY <2>2, <3>1, <3>2
  <2>3. QED
    BY <2>1, <2>2
<1> HIDE DEF new
<1>11. new \subseteq AlertType(s) /\ \A e \in new : AlertTrue(ever, e)
  <2>1. CASE http = 200
    <3>1. new \subseteq AlertType(s)
      BY <1>3, <1>10, <2>1, RaisedType DEF AlertType, Names
    <3>2. \A e \in new : AlertTrue(ever, e)
      BY <1>9, <1>10, <2>1, RaisedTrue
    <3>3. QED
      BY <3>1, <3>2
  <2>2. CASE http # 200
    BY <1>10, <2>2
  <2>3. QED
    BY <2>1, <2>2
<1>12. Fields(s, "tasks", job[s].left, todo, job[s].cur, hosts, job[s].health, alerts)
  <2>1. hosts \in [NodesOf(s) -> HostType]
    BY <1>3, <1>7
  <2>2. alerts \in SUBSET AlertType(s) /\ todo \in SUBSET NodesOf(s)
    BY <1>1, <1>11
  <2> HIDE DEF hosts, alerts, todo
  <2>3. QED
    BY <1>1, <2>1, <2>2 DEF Fields, Places
<1> HIDE DEF todo, hosts, alerts
<1>13. /\ Alone(s) /\ Answered(s, n, "tasks", http, job[s], job'[s])
       /\ job'[s].at = "tasks" /\ job'[s].todo = todo
       /\ job'[s].hosts = hosts /\ job'[s].alerts = alerts
  BY <1>1, <1>5, <1>8, <1>12, AskedAndChanged
<1>14. TasksAnswer(lasting, ever, s, job[s], job'[s], n, g, new)
  <2>1. /\ job'[s] \in JobType(s) /\ job'[s].lost = job[s].lost
        /\ job[s].down \subseteq job'[s].down
        /\ http # 200 => <<n, "tasks">> \in job'[s].down
    BY <1>13 DEF Answered
  <2>2. job'[s].alerts = job[s].alerts \cup new
    BY <1>13 DEF alerts
  <2>3. Heard(lasting, s, n, "tasks", job'[s].alerts, job'[s].down)
    <3>1. CASE http = 200
      <4>1. Raised(s, n, "tasks", v) \subseteq job'[s].alerts
        BY <1>10, <2>2, <3>1
      <4>2. QED
        BY <1>9, <1>10, <3>1, <4>1, HeardByAlert
    <3>2. CASE http # 200
      BY <1>9, <2>1, <3>2, HeardByFailure
    <3>3. QED
      BY <3>1, <3>2
  <2>4. QED
    BY <1>1, <1>2, <1>7, <1>11, <1>13, <2>1, <2>2, <2>3 DEF TasksAnswer, todo, hosts
<1>15. QED
  BY <1>1, <1>13, <1>14, TasksStep

(***************************************************************************)
(* The end of a goroutine: the alerts about its hosts.                     *)
(***************************************************************************)
\* A host that is offline is told to be no more than that; else there is an alert
\* for its memory and, unless a storage has been named, for its fullest storage.
LEMMA HostAlertsTell ==
  ASSUME NEW L, NEW E, NEW s, NEW n, NEW h \in HostType, HostReads(L, E, s, n, h),
         NEW A, NEW D, h.named => Heard(L, s, n, "root", A, D),
         HostAlerts(s, n, h) \subseteq A
  PROVE  /\ \A e \in HostAlerts(s, n, h) : AlertTrue(E, e)
         /\ Heard(L, s, n, "offline", A, D)
         /\ Heard(L, s, n, "mem", A, D)
         /\ Heard(L, s, n, "root", A, D)
<1> DEFINE mem == Level(h.mem, MemWarn, MemCrit)
           root == Level(StoragePct(h), StoWarn, StoCrit)
<1>1. /\ Between(L, E, s, n, "offline", IF h.online THEN "ok" ELSE "critical")
      /\ Between(L, E, s, n, "mem", mem)
      /\ Between(L, E, s, n, "root", Level(h.root, StoWarn, StoCrit))
      /\ ~h.named => Between(L, E, s, n, "root", Level(h.max, StoWarn, StoCrit))
  BY DEF HostReads
<1>2. ~h.named => Between(L, E, s, n, "root", root)
  BY <1>1 DEF StoragePct
<1>3. mem \in Health /\ root \in Health /\ h.online \in BOOLEAN /\ h.named \in BOOLEAN
  BY VerdictType DEF HostType
<1> HIDE DEF mem, root
<1>4. CASE ~h.online
  <2>1. HostAlerts(s, n, h) = {Alert(s, n, "offline", "critical")}
    BY <1>4 DEF HostAlerts
  <2>2. \A k : "offline" \in Tells(k)
    BY TellsAndLearns
  <2>3. /\ <<s, n, "offline", "critical">> \in E
        /\ \A l : <<s, n, "offline", l>> \in L => l \in Severities
    BY <1>1, <1>4, LevelsOf DEF Between, Severities
  <2>4. AlertTrue(E, Alert(s, n, "offline", "critical"))
    BY <2>2, <2>3 DEF AlertTrue, Alert
  <2>5. \A l \in Severities : Rank("critical") >= Rank(l)
    BY DEF Rank, Severities
  <2>6. /\ \A l : <<s, n, "mem", l>> \in L => l \in Severities
        /\ \A l : <<s, n, "root", l>> \in L => l \in Severities
    BY <1>1, LevelsOf DEF Between
  <2>7. \A k : (\A l : <<s, n, k, l>> \in L => l \in Severities) => Heard(L, s, n, k, A, D)
    <3>1. PICK e \in A : e = Alert(s, n, "offline", "critical")
      BY <2>1
    <3>2. e.source = s /\ e.node = n /\ e.about = "offline" /\ e.severity = "critical"
      BY <3>1 DEF Alert
    <3>3. QED
      BY <2>2, <2>5, <3>2 DEF Heard
  <2>8. QED
    BY <2>1, <2>3, <2>4, <2>6, <2>7
<1>5. CASE h.online
  <2>1. HostAlerts(s, n, h) = Raised(s, n, "mem", mem)
                              \cup (IF h.named THEN {} ELSE Raised(s, n, "root", root))
    BY <1>5 DEF HostAlerts, mem, root
  <2>2. "mem" \in Tells("mem") /\ "root" \in Tells("root") /\ "mem" # "offline" /\ "root" # "offline"
    BY TellsAndLearns
  <2>3. \A e \in Raised(s, n, "mem", mem) : AlertTrue(E, e)
    BY <1>1, <2>2, RaisedTrue
  <2>4. ~h.named => \A e \in Raised(s, n, "root", root) : AlertTrue(E, e)
    BY <1>2, <2>2, RaisedTrue
  <2>5. Raised(s, n, "mem", mem) \subseteq A /\ (~h.named => Raised(s, n, "root", root) \subseteq A)
    BY <2>1
  <2>6. Heard(L, s, n, "mem", A, D)
    BY <1>1, <1>3, <2>2, <2>5, HeardByAlert
  <2>7. Heard(L, s, n, "root", A, D)
    <3>1. ~h.named => Heard(L, s, n, "root", A, D)
      BY <1>2, <1>3, <2>2, <2>5, HeardByAlert
    <3>2. QED
      BY <1>3, <3>1
  <2>8. \A l : <<s, n, "offline", l>> \notin L
    BY <1>1, <1>5, LevelsOf DEF Between
  <2>9. Heard(L, s, n, "offline", A, D)
    BY <2>8 DEF Heard
  <2>10. QED
    BY <2>1, <2>3, <2>4, <2>6, <2>7, <2>9
<1>6. QED
  BY <1>3, <1>4, <1>5

Told(s, hosts) == UNION {HostAlerts(s, n, hosts[n]) : n \in NodesOf(s)}

Finished(s, j, i) ==
  /\ j.at = "tasks" /\ j.todo = {}
  /\ i \in JobType(s) /\ i.lost = j.lost /\ i.at = "done" /\ i.down = j.down
  /\ i.hosts = [n \in NodesOf(s) |-> WithHealth(j.hosts[n], HostHealth(j.hosts[n]))]
  /\ i.alerts = j.alerts \cup Told(s, j.hosts)

LEMMA HostHealthType ==
  ASSUME NEW h \in HostType PROVE HostHealth(h) \in Health
<1>1. /\ h.health \in Health /\ Level(h.mem, MemWarn, MemCrit) \in Health
      /\ Level(StoragePct(h), StoWarn, StoCrit) \in Health
  BY VerdictType DEF HostType
<1>2. QED
  BY <1>1 DEF HostHealth, MaxHealth

LEMMA FinishStep ==
  ASSUME NEW L, NEW E, NEW s, NEW j, NEW i, JobOK(L, E, s, j), Finished(s, j, i)
  PROVE  JobOK(L, E, s, i)
<1>a. /\ j.at = "tasks" /\ j.todo = {}
      /\ i \in JobType(s) /\ i.lost = j.lost /\ i.at = "done" /\ i.down = j.down
  BY DEF Finished
<1>b. /\ i.hosts = [n \in NodesOf(s) |-> WithHealth(j.hosts[n], HostHealth(j.hosts[n]))]
      /\ i.alerts = j.alerts \cup Told(s, j.hosts)
  BY DEF Finished
<1>1. ~j.lost /\ Begun(j) /\ j.hosts \in [NodesOf(s) -> HostType]
  BY <1>a DEF JobOK, JobShape, Begun, JobType
<1>2. JobTells(L, E, s, j)
  BY <1>1 DEF JobOK
<1>3. \A x, k : Heard(L, s, x, k, j.alerts, j.down) => Heard(L, s, x, k, i.alerts, i.down)
  <2>1. j.alerts \subseteq i.alerts /\ j.down \subseteq i.down
    BY <1>a, <1>b
  <2>2. QED
    BY <2>1, HeardLater
<1>4. ASSUME NEW x \in NodesOf(s)
      PROVE  /\ i.hosts[x] \in HostType /\ HostReads(L, E, s, x, i.hosts[x])
             /\ HostHeard(L, s, x, i)
             /\ \A e \in HostAlerts(s, x, j.hosts[x]) : AlertTrue(E, e)
  <2>1. PICK h \in HostType : h = j.hosts[x]
    BY <1>1
  <2>2. HostReads(L, E, s, x, h) /\ HostHeard(L, s, x, j)
    BY <1>2, <2>1 DEF JobTells
  <2>3. PICK v \in Health : v = HostHealth(h)
    BY <2>1, HostHealthType
  <2>4. i.hosts[x] = WithHealth(h, v)
    BY <1>b, <2>1, <2>3
  <2>5. i.hosts[x] \in HostType /\ HostReads(L, E, s, x, i.hosts[x]) /\ i.hosts[x].named = h.named
    BY <2>2, <2>4, HealthAside
  <2>6. h.named => Heard(L, s, x, "root", i.alerts, i.down)
    BY <1>3, <2>1, <2>2 DEF HostHeard
  <2>7. HostAlerts(s, x, h) \subseteq i.alerts
    BY <1>b, <2>1 DEF Told
  <2>8. /\ \A e \in HostAlerts(s, x, h) : AlertTrue(E, e)
        /\ Heard(L, s, x, "offline", i.alerts, i.down)
        /\ Heard(L, s, x, "mem", i.alerts, i.down)
        /\ Heard(L, s, x, "root", i.alerts, i.down)
    BY <2>2, <2>6, <2>7, HostAlertsTell
  <2>9. QED
    BY <2>1, <2>5, <2>8 DEF HostHeard
<1>5. i.hosts \in [NodesOf(s) -> HostType]
  BY <1>4, <1>b
<1>6. ASSUME NEW x \in NodesOf(s) PROVE NodeHeard(L, s, x, i)
  <2>1. NodeHeard(L, s, x, j)
    BY <1>2 DEF JobTells
  <2>2. QED
    BY <1>3, <1>a, <2>1 DEF NodeHeard, Unread
<1>7. ASSUME NEW x \in NodesOf(s) \cap Storages PROVE StorageHeard(L, s, x, i)
  <2>1. StorageHeard(L, s, x, j)
    BY <1>2 DEF JobTells
  <2>2. QED
    BY <1>3, <1>a, <2>1 DEF StorageHeard
<1>8. ASSUME NEW x \in NodesOf(s) \cap Guests PROVE GuestHeard(L, s, x, i)
  <2>1. GuestHeard(L, s, x, j)
    BY <1>2 DEF JobTells
  <2>2. QED
    BY <1>3, <1>a, <2>1 DEF GuestHeard, AskedAbout
<1>9. SourceHeard(L, s, i) /\ PoolRead(L, E, s, i)
  <2>1. SourceHeard(L, s, j)
    BY <1>2 DEF JobTells
  <2>2. QED
    BY <1>3, <1>a, <2>1 DEF SourceHeard, PoolRead
<1>10. JobTells(L, E, s, i)
  <2>1. \A e \in Told(s, j.hosts) : AlertTrue(E, e)
    BY <1>4 DEF Told
  <2>2. \A e \in i.alerts : AlertTrue(E, e)
    BY <1>2, <1>b, <2>1 DEF JobTells
  <2>3. QED
    BY <1>4, <1>6, <1>7, <1>8, <1>9, <2>2 DEF JobTells
<1>11. JobShape(s, i)
  BY <1>1, <1>5, <1>a DEF JobShape, Begun
<1>12. QED
  BY <1>10, <1>11 DEF JobOK

LEMMA FinishOK ==
  ASSUME Context, NEW s \in Sources, OK(s), Finish(s)
  PROVE  Alone(s) /\ JobOK(lasting, ever, s, job'[s])
<1>1. /\ JobOK(lasting, ever, s, job[s]) /\ job[s] \in JobType(s)
      /\ job[s].at = "tasks" /\ job[s].todo = {}
      /\ job[s].left \in Seq(Names) /\ job[s].cur \in NodesOf(s) \cup {0}
      /\ job[s].hosts \in [NodesOf(s) -> HostType]
      /\ job[s].alerts \in SUBSET AlertType(s) /\ job[s].health \in Health
  BY DEF OK, JobOK, JobShape, Finish, Begun, JobType
<1> DEFINE hosts == [n \in NodesOf(s) |-> WithHealth(job[s].hosts[n], HostHealth(job[s].hosts[n]))]
           alerts == job[s].alerts \cup Told(s, job[s].hosts)
<1>2. Proceed(s, [job[s] EXCEPT !.at = "done", !.alerts = alerts, !.hosts = hosts])
  BY DEF Finish, Told, WithHealth
<1>3. hosts \in [NodesOf(s) -> HostType]
  <2>1. \A n \in NodesOf(s) : WithHealth(job[s].hosts[n], HostHealth(job[s].hosts[n])) \in HostType
    BY <1>1, HostHealthType DEF WithHealth, HostType
  <2>2. QED
    BY <2>1
<1>4. alerts \in SUBSET AlertType(s)
  <2>1. ASSUME NEW n \in NodesOf(s) PROVE HostAlerts(s, n, job[s].hosts[n]) \subseteq AlertType(s)
    BY RaisedType DEF HostAlerts, AlertType, Names, Severities, Alert
  <2>2. QED
    BY <1>1, <2>1 DEF Told
<1> HIDE DEF hosts, alerts
<1>5. Proceed(s, Change(job[s], "done", job[s].left, {}, job[s].cur, hosts, job[s].health, alerts))
  BY <1>1, <1>2 DEF Change, JobType
<1>6. Fields(s, "done", job[s].left, {}, job[s].cur, hosts, job[s].health, alerts)
  BY <1>1, <1>3, <1>4 DEF Fields, Places
<1>7. /\ Alone(s) /\ job'[s] \in JobType(s)
      /\ job'[s].lost = job[s].lost /\ job'[s].down = job[s].down
      /\ job'[s].at = "done" /\ job'[s].hosts = hosts /\ job'[s].alerts = alerts
  BY <1>1, <1>5, <1>6, JustChanged
<1>8. Finished(s, job[s], job'[s])
  BY <1>1, <1>7 DEF Finished, hosts, alerts
<1>9. QED
  BY <1>1, <1>7, <1>8, FinishStep

-----------------------------------------------------------------------------
(***************************************************************************)
(* The cluster changes.                                                    *)
(***************************************************************************)
LEMMA HostLater ==
  ASSUME NEW L, NEW E, NEW M, NEW F, M \subseteq L, E \subseteq F,
         NEW s, NEW n, NEW h, HostReads(L, E, s, n, h)
  PROVE  HostReads(M, F, s, n, h)
<1>1. \A k, v : Between(L, E, s, n, k, v) => Between(M, F, s, n, k, v)
  BY BetweenLater
<1>2. \A k, v : Between({}, E, s, n, k, v) => Between({}, F, s, n, k, v)
  BY BetweenLater
<1>3. QED
  BY <1>1, <1>2 DEF HostReads

LEMMA JobLater ==
  ASSUME NEW L, NEW E, NEW M, NEW F, M \subseteq L, E \subseteq F,
         NEW s, NEW j, JobOK(L, E, s, j)
  PROVE  JobOK(M, F, s, j)
<1>1. SUFFICES ASSUME Begun(j) PROVE JobTells(M, F, s, j)
  BY DEF JobOK
<1>2. JobTells(L, E, s, j)
  BY <1>1 DEF JobOK
<1>3. \A n, k : Heard(L, s, n, k, j.alerts, j.down) => Heard(M, s, n, k, j.alerts, j.down)
  BY HeardLater
<1>4. \A a \in j.alerts : AlertTrue(F, a)
  BY <1>2, TrueLater DEF JobTells
<1>5. \A n \in NodesOf(s) : HostReads(M, F, s, n, j.hosts[n])
  BY <1>2, HostLater DEF JobTells
<1>6. PoolRead(M, F, s, j)
  BY <1>2, BetweenLater DEF JobTells, PoolRead
<1>7. \A n \in NodesOf(s) : NodeHeard(M, s, n, j) /\ HostHeard(M, s, n, j)
  BY <1>2, <1>3 DEF JobTells, NodeHeard, HostHeard
<1>8. /\ \A n \in NodesOf(s) \cap Storages : StorageHeard(M, s, n, j)
      /\ \A n \in NodesOf(s) \cap Guests : GuestHeard(M, s, n, j)
      /\ SourceHeard(M, s, j)
  BY <1>2, <1>3 DEF JobTells, StorageHeard, GuestHeard, SourceHeard
<1>9. QED
  BY <1>4, <1>5, <1>6, <1>7, <1>8 DEF JobTells

\* A job that is not under way.
LEMMA StartOK ==
  ASSUME NEW L, NEW E, NEW s \in Sources, NEW at \in {"idle", "resources"}
  PROVE  JobOK(L, E, s, Start(at))
<1> DEFINE j == Start(at)
<1>1. /\ j.at = at /\ j.left = <<>> /\ j.todo = {} /\ j.cur = 0 /\ j.hosts = NoHosts
      /\ j.health = "ok" /\ j.alerts = {} /\ j.caps = <<>> /\ j.down = {} /\ j.lost = FALSE
  BY DEF Start
<1>2. NoHosts \in [{} -> HostType]
  BY DEF NoHosts
<1>3. j \in JobType(s)
  BY <1>2 DEF Start, JobType, Places, Health
<1> HIDE DEF j
<1>4. JobShape(s, j)
  BY <1>1, <1>3 DEF JobShape, Begun, j
<1>5. QED
  BY <1>1, <1>4 DEF JobOK, Begun, j

-----------------------------------------------------------------------------
(***************************************************************************)
(* The merged result.                                                      *)
(***************************************************************************)
LEMMA MergedIs ==
  ASSUME NEW jobs, NEW r, r = Merged(jobs)
  PROVE  /\ r.alerts = UNION {jobs[s].alerts : s \in Sources}
         /\ r.lost = {s \in Sources : jobs[s].lost}
         /\ r.down = UNION {{<<s, d[1], d[2]>> : d \in jobs[s].down} : s \in Sources}
BY DEF Merged

\* The result tells of a problem.
Said(r, p) ==
  \/ p[3] \in Unspoken
  \/ p[1] \in r.lost
  \/ \E a \in r.alerts : /\ a.source = p[1] /\ a.node = p[2] /\ a.about \in Tells(p[3])
                         /\ Rank(a.severity) >= Rank(p[4])
  \/ \E d \in r.down : d[1] = p[1] /\ d[2] \in {0, p[2]} /\ d[3] \in LearntFrom(p[3]) /\ Shows(d[3])

\* What a job tells, the result tells.
LEMMA SaidWhenHeard ==
  ASSUME NEW L, NEW jobs, NEW r, r = Merged(jobs), NEW s \in Sources, NEW n, NEW k, NEW l,
         Heard(L, s, n, k, jobs[s].alerts, jobs[s].down), <<s, n, k, l>> \in L
  PROVE  Said(r, <<s, n, k, l>>)
<1>1. /\ jobs[s].alerts \subseteq r.alerts
      /\ \A d \in jobs[s].down : <<s, d[1], d[2]>> \in r.down
  BY MergedIs
<1>2. CASE \E a \in jobs[s].alerts : /\ a.source = s /\ a.node = n /\ a.about \in Tells(k)
                                     /\ Rank(a.severity) >= Rank(l)
  BY <1>1, <1>2 DEF Said
<1>3. CASE \E d \in jobs[s].down : d[1] \in {0, n} /\ d[2] \in LearntFrom(k) /\ Shows(d[2])
  <2>1. PICK d \in jobs[s].down : d[1] \in {0, n} /\ d[2] \in LearntFrom(k) /\ Shows(d[2])
    BY <1>3
  <2>2. PICK e \in r.down : e = <<s, d[1], d[2]>>
    BY <1>1
  <2>3. e[1] = s /\ e[2] \in {0, n} /\ e[3] \in LearntFrom(k) /\ Shows(e[3])
    BY <2>1, <2>2
  <2>4. QED
    BY <2>3 DEF Said
<1>4. QED
  BY <1>2, <1>3 DEF Heard

\* A job that is done has told of everything.
LEMMA DoneTells ==
  ASSUME NEW L, NEW E, NEW s, NEW j, JobOK(L, E, s, j), j.at = "done", ~j.lost
  PROVE  /\ \A n \in NodesOf(s), k \in {"offline", "mem", "root", "node_certificates", "services",
                                        "zfs_pools", "zfs_pool_detail", "tasks"} :
              Heard(L, s, n, k, j.alerts, j.down)
         /\ \A n \in NodesOf(s) \cap Storages, k \in {"stored", "storage"} :
              Heard(L, s, n, k, j.alerts, j.down)
         /\ \A n \in NodesOf(s) \cap Guests : Heard(L, s, n, "guest_status", j.alerts, j.down)
         /\ \A k \in {"cluster_status", "ha_resources", "ceph", "replication"} :
              Heard(L, s, 0, k, j.alerts, j.down)
         /\ \A a \in j.alerts : AlertTrue(E, a)
<1>1. JobTells(L, E, s, j)
  BY DEF JobOK, Begun
<1>2. ASSUME NEW n \in NodesOf(s)
      PROVE  \A k \in {"offline", "mem", "root", "node_certificates", "services",
                       "zfs_pools", "zfs_pool_detail", "tasks"} : Heard(L, s, n, k, j.alerts, j.down)
  <2>1. NodeHeard(L, s, n, j) /\ HostHeard(L, s, n, j)
    BY <1>1 DEF JobTells
  <2>2. \A i : ~Unread(j, n, i)
    BY DEF Unread
  <2>3. QED
    BY <2>1, <2>2 DEF NodeHeard, HostHeard
<1>3. \A n \in NodesOf(s) \cap Storages, k \in {"stored", "storage"} :
        Heard(L, s, n, k, j.alerts, j.down)
  BY <1>1 DEF JobTells, StorageHeard
<1>4. \A n \in NodesOf(s) \cap Guests : Heard(L, s, n, "guest_status", j.alerts, j.down)
  BY <1>1 DEF JobTells, GuestHeard, AskedAbout
<1>5. \A k \in {"cluster_status", "ha_resources", "ceph", "replication"} :
        Heard(L, s, 0, k, j.alerts, j.down)
  BY <1>1 DEF JobTells, SourceHeard
<1>6. QED
  BY <1>1, <1>2, <1>3, <1>4, <1>5 DEF JobTells

\* Nothing that lasts is left unsaid by the result.
LEMMA AllSaid ==
  ASSUME NEW L, NEW E, NEW N, NEW S, L \subseteq Wrong(N, S),
         NEW jobs, \A s \in Sources : JobOK(L, E, s, jobs[s]) /\ jobs[s].at = "done",
         NEW r, r = Merged(jobs), NEW p \in L
  PROVE  Said(r, p)
<1>1. \A s \in Sources : jobs[s].lost => s \in r.lost
  BY MergedIs
<1>2. \A s \in Sources : \A n, k, l : s \in r.lost \/ k \in Unspoken => Said(r, <<s, n, k, l>>)
  BY DEF Said
<1>3. ASSUME NEW n \in Nodes, NEW k \in DOMAIN WrongOnNode(N[n]), NEW l, p = <<Home[n], n, k, l>>
      PROVE  Said(r, p)
  <2>1. PICK s \in Sources : s = Home[n] /\ n \in NodesOf(s)
    BY CollectorAssumption DEF NodesOf
  <2>2. CASE jobs[s].lost \/ k \in Unspoken
    BY <1>1, <1>2, <1>3, <2>1, <2>2
  <2>3. CASE ~jobs[s].lost /\ k \notin Unspoken
    <3>1. k \in {"offline", "mem", "root", "node_certificates", "services",
                 "zfs_pools", "zfs_pool_detail", "tasks"}
      BY <2>3 DEF WrongOnNode, Unspoken
    <3>2. Heard(L, s, n, k, jobs[s].alerts, jobs[s].down)
      BY <2>1, <2>3, <3>1, DoneTells
    <3>3. QED
      BY <1>3, <2>1, <3>2, SaidWhenHeard
  <2>4. QED
    BY <2>2, <2>3
<1>4. ASSUME NEW n \in Storages, NEW k \in DOMAIN WrongWithStorage(N[n]), NEW l, p = <<Home[n], n, k, l>>
      PROVE  Said(r, p)
  <2>1. PICK s \in Sources : s = Home[n] /\ n \in NodesOf(s) \cap Storages
    BY CollectorAssumption DEF NodesOf
  <2>2. CASE jobs[s].lost
    BY <1>1, <1>2, <1>4, <2>1, <2>2
  <2>3. CASE ~jobs[s].lost
    <3>1. k \in {"stored", "storage"}
      BY DEF WrongWithStorage
    <3>2. Heard(L, s, n, k, jobs[s].alerts, jobs[s].down)
      BY <2>1, <2>3, <3>1, DoneTells
    <3>3. QED
      BY <1>4, <2>1, <3>2, SaidWhenHeard
  <2>4. QED
    BY <2>2, <2>3
<1>5. ASSUME NEW n \in Guests, NEW k \in DOMAIN WrongWithGuest(N[n]), NEW l, p = <<Home[n], n, k, l>>
      PROVE  Said(r, p)
  <2>1. PICK s \in Sources : s = Home[n] /\ n \in NodesOf(s) \cap Guests
    BY CollectorAssumption DEF NodesOf
  <2>2. CASE jobs[s].lost \/ k \in Unspoken
    BY <1>1, <1>2, <1>5, <2>1, <2>2
  <2>3. CASE ~jobs[s].lost /\ k \notin Unspoken
    <3>1. k = "guest_status"
      BY <2>3 DEF WrongWithGuest, Unspoken
    <3>2. Heard(L, s, n, k, jobs[s].alerts, jobs[s].down)
      BY <2>1, <2>3, <3>1, DoneTells
    <3>3. QED
      BY <1>5, <2>1, <3>2, SaidWhenHeard
  <2>4. QED
    BY <2>2, <2>3
<1>6. ASSUME NEW s \in Sources, NEW k \in DOMAIN WrongWithSource(S[s]), NEW l, p = <<s, 0, k, l>>
      PROVE  Said(r, p)
  <2>1. CASE jobs[s].lost \/ k \in Unspoken
    BY <1>1, <1>2, <1>6, <2>1
  <2>2. CASE ~jobs[s].lost /\ k \notin Unspoken
    <3>1. k \in {"cluster_status", "ha_resources", "ceph", "replication"}
      BY <2>2 DEF WrongWithSource, Unspoken
    <3>2. Heard(L, s, 0, k, jobs[s].alerts, jobs[s].down)
      BY <2>2, <3>1, DoneTells
    <3>3. QED
      BY <1>6, <3>2, SaidWhenHeard
  <2>3. QED
    BY <2>1, <2>2
<1>7. p \in Wrong(N, S)
  OBVIOUS
<1>8. QED
  BY <1>3, <1>4, <1>5, <1>6, <1>7, WrongOnly

\* Every alert of the result is true, but for a source that is lost.
LEMMA AllTrue ==
  ASSUME NEW L, NEW E,
         NEW jobs, \A s \in Sources : JobOK(L, E, s, jobs[s]) /\ jobs[s].at = "done",
         NEW r, r = Merged(jobs), NEW a \in r.alerts
  PROVE  a.source \in r.lost \/ AlertTrue(E, a)
<1>1. PICK s \in Sources : a \in jobs[s].alerts
  BY MergedIs
<1>2. a.source = s
  BY <1>1 DEF JobOK, JobShape, JobType, AlertType
<1>3. CASE jobs[s].lost
  BY <1>2, <1>3, MergedIs
<1>4. CASE ~jobs[s].lost
  BY <1>1, <1>4, DoneTells
<1>5. QED
  BY <1>3, <1>4

-----------------------------------------------------------------------------
(***************************************************************************)
(* The invariant holds throughout.                                         *)
(***************************************************************************)
\* A step of one goroutine keeps the invariant when it keeps its own part of it.
LEMMA AloneKeeps ==
  ASSUME CollectInv, NEW s \in Sources, job[s].at # "idle",
         Alone(s), JobOK(lasting, ever, s, job'[s])
  PROVE  CollectInv'
<1>1. ~Returned /\ UNCHANGED result
  BY DEF CollectInv, Alone
<1>2. UNCHANGED <<node, source, lasting, ever>>
  BY DEF Alone, world, history
<1>3. lasting \subseteq Wrong(node, source) /\ Wrong(node, source) \subseteq ever
  BY DEF CollectInv
<1>4. \A t \in Sources : JobOK(lasting, ever, t, job'[t])
  BY DEF CollectInv, Alone
<1>5. ~Returned'
  BY <1>1 DEF Returned
<1>6. job' = [t \in Sources |-> job'[t]]
  BY DEF Alone
<1>7. node' \in [Nodes -> NodeWorlds] /\ source' \in [Sources -> SourceWorlds]
  BY <1>2 DEF CollectInv
<1>8. QED
  BY <1>2, <1>3, <1>4, <1>5, <1>6, <1>7 DEF CollectInv

LEMMA InitInv == Init => CollectInv
<1> SUFFICES ASSUME Init PROVE CollectInv
  OBVIOUS
<1>1. \A s \in Sources : job[s] = Start("idle") /\ job[s].at = "idle"
  BY DEF Init, Start
<1>2. \A s \in Sources : JobOK(lasting, ever, s, job[s])
  BY <1>1, StartOK
<1>3. QED
  BY <1>1, <1>2 DEF Init, CollectInv, Returned

LEMMA GoroutineInv ==
  ASSUME ReadAsMeant, CollectInv, NEW s \in Sources, Goroutine(s)
  PROVE  CollectInv'
<1>1. job[s].at # "idle"
  BY DEF Goroutine, ReadResources, ReadSource, NextNode, ReadNode, ToStorages, ReadStorage, ToGuests,
         NextGuest, ReadGuest, ReadReplication, ReadReplicationStatus, ReadTasks, Finish
<1>2. Context /\ OK(s)
  BY <1>1 DEF CollectInv, Context, OK, History
<1>3. Alone(s) /\ JobOK(lasting, ever, s, job'[s])
  BY <1>2, ReadResourcesOK, ReadSourceOK, NextNodeOK, ReadNodeOK, ToStoragesOK, ReadStorageOK, ToGuestsOK,
     NextGuestOK, ReadGuestOK, ReadReplicationOK, ReadReplicationStatusOK, ReadTasksOK, FinishOK
     DEF Goroutine
<1>4. QED
  BY <1>1, <1>3, AloneKeeps

LEMMA CollectsInv ==
  ASSUME CollectInv, Collect
  PROVE  CollectInv'
<1>1. \A s \in Sources : job'[s] = Start("resources")
  BY DEF Collect
<1>2. \A s \in Sources : JobOK(lasting', ever', s, job'[s])
  BY <1>1, StartOK
<1>3. lasting' \subseteq Wrong(node', source') /\ Wrong(node', source') \subseteq ever'
  BY DEF Collect, world
<1>4. ~Returned'
  BY DEF Collect, Returned
<1>5. QED
  BY <1>2, <1>3, <1>4 DEF CollectInv, Collect, world

LEMMA ReturnInv ==
  ASSUME CollectInv, Return
  PROVE  CollectInv'
<1>1. /\ UNCHANGED <<node, source, lasting, ever>>
      /\ \A s \in Sources : job'[s] = Start("idle")
      /\ job' = [s \in Sources |-> Start("idle")]
      /\ \A s \in Sources : job[s].at = "done"
  BY DEF Return, world, history
<1>2. \A s \in Sources : JobOK(lasting, ever, s, job[s])
  BY DEF CollectInv
<1>3. PICK r : r = Merged(job) /\ r = result'
  BY DEF Return
<1>4. \A p \in lasting : Said(r, p)
  <2>1. lasting \subseteq Wrong(node, source)
    BY DEF CollectInv
  <2>2. QED
    BY <1>1, <1>2, <1>3, <2>1, AllSaid
<1>5. NothingMissed'
  BY <1>1, <1>3, <1>4 DEF NothingMissed, Said
<1>6. \A a \in r.alerts : a.source \in r.lost \/ AlertTrue(ever, a)
  BY <1>1, <1>2, <1>3, AllTrue
<1>7. NoFalseAlarm'
  BY <1>1, <1>3, <1>6 DEF NoFalseAlarm, AlertTrue
<1>8. \A s \in Sources : job'[s].at = "idle" /\ JobOK(lasting', ever', s, job'[s])
  BY <1>1, StartOK DEF Start
<1>9. /\ node' \in [Nodes -> NodeWorlds] /\ source' \in [Sources -> SourceWorlds]
      /\ lasting' \subseteq Wrong(node', source')
  BY <1>1 DEF CollectInv
<1>10. job' = [s \in Sources |-> job'[s]]
  BY <1>1
<1>11. QED
  BY <1>5, <1>7, <1>8, <1>9, <1>10 DEF CollectInv

LEMMA WorldMovesInv ==
  ASSUME CollectInv, WorldMoves
  PROVE  CollectInv'
<1>1. /\ UNCHANGED <<job, result>>
      /\ lasting' \subseteq lasting /\ lasting' \subseteq Wrong(node', source')
      /\ ever \subseteq ever' /\ Wrong(node', source') \subseteq ever'
  BY DEF WorldMoves
<1>2. node' \in [Nodes -> NodeWorlds] /\ source' \in [Sources -> SourceWorlds]
  BY DEF WorldMoves, CollectInv
<1>3. \A s \in Sources : JobOK(lasting', ever', s, job[s])
  BY <1>1, JobLater DEF CollectInv
<1>4. ~Returned'
  BY <1>1 DEF WorldMoves, CollectInv, Returned
<1>5. job = [s \in Sources |-> job[s]] /\ job' = job
  BY <1>1 DEF CollectInv
<1>6. \A s \in Sources : JobOK(lasting', ever', s, job'[s])
  BY <1>3, <1>5
<1>7. job' = [s \in Sources |-> job'[s]]
  BY <1>5
<1>8. QED
  BY <1>1, <1>2, <1>4, <1>6, <1>7 DEF CollectInv

LEMMA SameInv ==
  ASSUME CollectInv, UNCHANGED <<node, source, job, lasting, ever, result>>
  PROVE  CollectInv'
BY DEF CollectInv, Returned, NothingMissed, NoFalseAlarm

\* Every step keeps the invariant.
LEMMA NextInv ==
  ASSUME ReadAsMeant, CollectInv, [Next]_vars
  PROVE  CollectInv'
<1>1. CASE Collect
  BY <1>1, CollectsInv
<1>2. CASE \E s \in Sources : Goroutine(s)
  BY <1>2, GoroutineInv
<1>3. CASE Return
  BY <1>3, ReturnInv
<1>4. CASE Cancel
  BY <1>4, SameInv DEF Cancel, world, history
<1>5. CASE WorldMoves
  BY <1>5, WorldMovesInv
<1>6. CASE UNCHANGED vars
  BY <1>6, SameInv DEF vars
<1>7. QED
  BY <1>1, <1>2, <1>3, <1>4, <1>5, <1>6 DEF Next, Goroutine

\* The rules read each text as it is meant: this is all that has to be known of the
\* texts and of the states of the cluster.
LEMMA AlwaysInv ==
  ASSUME ReadAsMeant
  PROVE  Spec => []CollectInv
<1>1. CollectInv /\ [Next]_vars => CollectInv'
  BY NextInv
<1>2. QED
  BY <1>1, InitInv, PTL DEF Spec

\* Nothing that was wrong all through a collection goes unsaid, whatever requests
\* fail, however the cluster changes meanwhile, and whenever the caller gives up:
\* Collect and the source goroutines of provider.go.
THEOREM Missed ==
  ASSUME ReadAsMeant
  PROVE  Spec => []NothingMissed
<1>1. CollectInv => NothingMissed
  BY DEF CollectInv, NothingMissed
<1>2. QED
  BY <1>1, AlwaysInv, PTL

\* Every alert of a collection is about something that was wrong, to that degree,
\* at some time of the collection: the answers of provider.go's requests are never
\* mixed up, however the cluster changes between them.
THEOREM Truthful ==
  ASSUME ReadAsMeant
  PROVE  Spec => []NoFalseAlarm
<1>1. CollectInv => NoFalseAlarm
  BY DEF CollectInv, NoFalseAlarm
<1>2. QED
  BY <1>1, AlwaysInv, PTL

-----------------------------------------------------------------------------
(***************************************************************************)
(* The capability log.                                                     *)
(***************************************************************************)
\* The request called name about node n, or about the source, has been sent or will
\* not be sent any more.
Sent(j, n, name) ==
  \/ /\ n = 0 /\ name \in ToSet(SourceRequests)
     /\ ~(j.at = "source" /\ name \in ToSet(j.left))
  \/ /\ n # 0 /\ name \in ToSet(NodeRequests)
     /\ j.at # "source" /\ ~(j.at \in {"nodes", "node"} /\ n \in j.todo)
     /\ ~(j.at = "node" /\ n = j.cur /\ name \in ToSet(j.left))
  \/ /\ n # 0 /\ name = "storage_content"
     /\ j.at \notin {"source", "nodes", "node"} /\ ~(j.at = "storages" /\ n \in j.todo)
  \/ /\ n # 0 /\ name \in ToSet(GuestRequests)
     /\ j.at \notin {"source", "nodes", "node", "storages"}
     /\ ~(j.at \in {"guests", "guest"} /\ n \in j.todo)
     /\ ~(j.at = "guest" /\ n = j.cur /\ name \in ToSet(j.left))
  \/ n = 0 /\ name = "replication" /\ j.at \in {"replication", "tasks", "done"}
  \/ n = 0 /\ name = "replication_status" /\ j.at \in {"tasks", "done"}

\* An entry of a log.
EntryOK(j, cap) ==
  /\ Sent(j, cap.node, cap.name) /\ cap.name \in ToSet(Logged)
  /\ Failed(cap) => <<cap.node, cap.name>> \in j.down

\* The failure of a request shows in the log.
InLog(caps, n, name) ==
  \E i \in 1..Len(caps) : Failed(caps[i]) /\ caps[i].node = n /\ caps[i].name = name

Distinct(caps) ==
  \A i, k \in 1..Len(caps) :
    i # k => <<caps[i].node, caps[i].name>> # <<caps[k].node, caps[k].name>>

LogOK(j) ==
  /\ Len(j.caps) <= MaxCapabilities
  /\ \A i \in 1..Len(j.caps) : EntryOK(j, j.caps[i])
  /\ Distinct(j.caps)
  /\ Len(j.caps) < MaxCapabilities =>
       \A d \in j.down : d[2] \in ToSet(Logged) => InLog(j.caps, d[1], d[2])

\* No list names a request twice, and none names a request of another.
LEMMA ListsApart ==
  /\ \A i, k \in 1..6 : SourceRequests[i] = SourceRequests[k] => i = k
  /\ \A i, k \in 1..12 : NodeRequests[i] = NodeRequests[k] => i = k
  /\ \A i, k \in 1..5 : GuestRequests[i] = GuestRequests[k] => i = k
  /\ ToSet(GuestRequests) \cap ToSet(NodeRequests) = {}
  /\ "storage_content" \notin ToSet(NodeRequests) \cup ToSet(GuestRequests)
  /\ {"replication", "replication_status"} \cap ToSet(SourceRequests) = {}
<1>1. \A i, k \in 1..6 : SourceRequests[i] = SourceRequests[k] => i = k
  BY DEF SourceRequests
<1>2. \A i, k \in 1..12 : NodeRequests[i] = NodeRequests[k] => i = k
  BY DEF NodeRequests
<1>3. \A i, k \in 1..5 : GuestRequests[i] = GuestRequests[k] => i = k
  BY DEF GuestRequests
<1>4. ToSet(GuestRequests) =
        {"guest_config", "guest_status", "guest_rrd", "guest_snapshots", "qemu_guest_agent"}
  BY DEF GuestRequests, ToSet
<1>5. ToSet(NodeRequests) =
        {"node_status", "node_certificates", "node_rrd", "pci", "network", "services",
         "zfs_pools", "zfs_pool_detail", "apt_updates", "apt_repositories", "subscription", "disks"}
  BY DEF NodeRequests, ToSet
<1>6. ToSet(SourceRequests) =
        {"cluster_status", "cluster_options", "backup_jobs", "ha_resources", "ceph", "storage_config"}
  BY DEF SourceRequests, ToSet
<1>7. QED
  BY <1>1, <1>2, <1>3, <1>4, <1>5, <1>6

\* The request at the head of what is left of a list is sent once.
LEMMA HeadOnce ==
  ASSUME NEW R \in Seq(Names), \A i, k \in 1..Len(R) : R[i] = R[k] => i = k,
         NEW q \in Seq(Names), Len(q) \in 1..Len(R), Rest(R, q)
  PROVE  /\ Head(q) \in ToSet(q) /\ Head(q) \in ToSet(R)
         /\ Head(q) \notin ToSet(Tail(q))
         /\ ToSet(Tail(q)) \subseteq ToSet(q)
<1> DEFINE m == Len(R) + 1 - Len(q)
<1>1. m \in 1..Len(R) /\ Len(q) \in Nat /\ Len(R) \in Nat /\ q # <<>>
  OBVIOUS
<1>2. \A i \in 1..Len(q) : q[i] = R[m + i - 1] /\ m + i - 1 \in 1..Len(R)
  <2>1. q = SubSeq(R, m, Len(R))
    BY DEF Rest
  <2> HIDE DEF m
  <2>2. \A i \in 1..(Len(R) - m + 1) : SubSeq(R, m, Len(R))[i] = R[m + i - 1]
    BY <1>1
  <2>3. Len(q) = Len(R) - m + 1
    BY <1>1 DEF m
  <2>4. QED
    BY <1>1, <2>1, <2>2, <2>3
<1>3. /\ Head(q) = q[1] /\ 1 \in 1..Len(q)
      /\ Tail(q) \in Seq(Names) /\ Len(Tail(q)) = Len(q) - 1
      /\ \A i \in 1..Len(Tail(q)) : Tail(q)[i] = q[i + 1] /\ i + 1 \in 1..Len(q)
  BY <1>1
<1>4. DOMAIN q = 1..Len(q) /\ DOMAIN R = 1..Len(R) /\ DOMAIN Tail(q) = 1..Len(Tail(q))
  BY <1>3
<1>5. Head(q) = R[m] /\ Head(q) \in ToSet(q) /\ Head(q) \in ToSet(R)
  BY <1>1, <1>2, <1>3, <1>4 DEF ToSet
<1>6. ASSUME NEW i \in 1..Len(Tail(q)) PROVE Tail(q)[i] # Head(q) /\ Tail(q)[i] \in ToSet(q)
  <2>1. Tail(q)[i] = q[i + 1] /\ i + 1 \in 1..Len(q)
    BY <1>3
  <2>2. q[i + 1] = R[m + i] /\ m + i \in 1..Len(R)
    <3>1. m + (i + 1) - 1 = m + i
      BY <1>1
    <3>2. q[i + 1] = R[m + (i + 1) - 1] /\ m + (i + 1) - 1 \in 1..Len(R)
      BY <1>2, <2>1
    <3>3. QED
      BY <3>1, <3>2
  <2>3. m + i # m
    BY <1>1
  <2>4. R[m + i] # R[m]
    BY <1>1, <2>2, <2>3
  <2>5. QED
    BY <1>4, <1>5, <2>1, <2>2, <2>4 DEF ToSet
<1>7. QED
  BY <1>4, <1>5, <1>6 DEF ToSet

\* What a request adds to the log and to the failures.
Entered(s, n, name, http, j, i) ==
  /\ i.caps = Log(j.caps, Capability(s, n, name, http))
  /\ i.down = IF http = 200 THEN j.down ELSE j.down \cup {<<n, name>>}

LEMMA AskedLog ==
  ASSUME NEW s \in Sources, NEW j \in JobType(s), NEW n, NEW name, NEW http,
         NEW i, i = Asked(s, n, name, http, j)
  PROVE  Entered(s, n, name, http, j, i)
<1> DEFINE caps == Log(j.caps, Capability(s, n, name, http))
           down == IF http = 200 THEN j.down ELSE j.down \cup {<<n, name>>}
<1>1. i = [j EXCEPT !.caps = caps, !.down = down]
  BY DEF Asked, JobType
<1> HIDE DEF caps, down
<1>2. i.caps = caps /\ i.down = down
  BY <1>1 DEF JobType
<1>3. QED
  BY <1>2 DEF Entered, caps, down

\* Request after request is sent.
Onward(j, i) == \A n, name : Sent(j, n, name) => Sent(i, n, name)

\* A job after a request about n.
Logs(s, j, i, n, name, http) ==
  /\ Entered(s, n, name, http, j, i)
  /\ name \in ToSet(Logged) => ~Sent(j, n, name) /\ Sent(i, n, name)
  /\ Onward(j, i)

LEMMA LogsOK ==
  ASSUME NEW s \in Sources, NEW j \in JobType(s), NEW i, NEW n, NEW name, NEW http \in Nat,
         LogOK(j), Logs(s, j, i, n, name, http)
  PROVE  LogOK(i)
<1> DEFINE cap == Capability(s, n, name, http)
           q == j.caps
           x == Len(q)
<1>1. q \in Seq(CapType(s)) /\ x \in Nat /\ x <= MaxCapabilities /\ MaxCapabilities \in Nat
  BY CollectorAssumption DEF LogOK, JobType
<1>2. cap.node = n /\ cap.name = name /\ (Failed(cap) <=> http # 200)
  <2>1. cap.status = CapabilityStatus(http)
    BY DEF Capability
  <2>2. CapabilityStatus(http) = "ok" <=> http = 200
    BY DEF CapabilityStatus
  <2>3. cap.node = n /\ cap.name = name
    BY DEF Capability
  <2>4. QED
    BY <2>1, <2>2, <2>3 DEF Failed
<1>3. /\ i.caps = Log(q, cap)
      /\ i.down = IF http = 200 THEN j.down ELSE j.down \cup {<<n, name>>}
      /\ name \in ToSet(Logged) => ~Sent(j, n, name) /\ Sent(i, n, name)
  BY DEF Logs, Entered
<1>4. \A c : EntryOK(j, c) => EntryOK(i, c)
  BY <1>3 DEF EntryOK, Logs, Onward
<1>5. /\ \A k \in 1..x : EntryOK(j, q[k]) /\ EntryOK(i, q[k])
      /\ Distinct(q)
      /\ x < MaxCapabilities =>
           \A d \in j.down : d[2] \in ToSet(Logged) => InLog(q, d[1], d[2])
  BY <1>4 DEF LogOK
<1>6. CASE i.caps = q
  <2>1. ASSUME x < MaxCapabilities, http # 200 PROVE name \notin ToSet(Logged)
    <3>1. SUFFICES ASSUME name \in ToSet(Logged) PROVE FALSE
      OBVIOUS
    <3>2. Log(q, cap) = Append(q, cap)
      <4>1. cap.status # "ok"
        BY <1>2, <2>1 DEF Failed
      <4> HIDE DEF cap, q
      <4>2. QED
        BY <1>1, <1>2, <2>1, <3>1, <4>1 DEF Log, x
    <3>3. Len(Append(q, cap)) = x + 1
      BY <1>1
    <3>4. Append(q, cap) = q
      BY <1>3, <1>6, <3>2
    <3>5. x + 1 = x
      BY <3>3, <3>4
    <3> HIDE DEF x
    <3>6. QED
      BY <1>1, <3>5
  <2>2. ASSUME x < MaxCapabilities, NEW d \in i.down, d[2] \in ToSet(Logged)
        PROVE  InLog(q, d[1], d[2])
    <3>1. d \in j.down \/ (http # 200 /\ d = <<n, name>>)
      BY <1>3
    <3>2. d \in j.down
      BY <2>1, <2>2, <3>1
    <3>3. QED
      BY <1>5, <2>2, <3>2
  <2> HIDE DEF q
  <2>3. QED
    BY <1>1, <1>5, <1>6, <2>2 DEF LogOK
<1>7. CASE i.caps # q
  <2> DEFINE p == Append(q, cap)
  <2>1. i.caps = p /\ name \in ToSet(Logged) /\ x < MaxCapabilities
    BY <1>1, <1>2, <1>3, <1>7 DEF Log
  <2>2. /\ Len(p) = x + 1 /\ p[x + 1] = cap
        /\ \A k \in 1..x : p[k] = q[k]
    BY <1>1
  <2>3. EntryOK(i, cap)
    BY <1>2, <1>3, <2>1 DEF EntryOK
  <2>4. \A k \in 1..x : <<q[k].node, q[k].name>> # <<n, name>>
    <3>1. SUFFICES ASSUME NEW k \in 1..x, q[k].node = n, q[k].name = name PROVE FALSE
      OBVIOUS
    <3>2. Sent(j, q[k].node, q[k].name)
      BY <1>5 DEF EntryOK
    <3>3. QED
      BY <1>3, <2>1, <3>1, <3>2
  <2> HIDE DEF cap, q, p, x
  <2>5. \A k \in 1..Len(p) : EntryOK(i, p[k])
    BY <1>1, <1>5, <2>2, <2>3
  <2>6. Distinct(p)
    <3>1. SUFFICES ASSUME NEW k \in 1..Len(p), NEW l \in 1..Len(p), k # l
                   PROVE  <<p[k].node, p[k].name>> # <<p[l].node, p[l].name>>
      BY DEF Distinct
    <3>2. CASE k \in 1..x /\ l \in 1..x
      BY <1>5, <2>2, <3>1, <3>2 DEF Distinct, x
    <3>3. CASE k = x + 1 /\ l \in 1..x
      BY <1>2, <2>2, <2>4, <3>3
    <3>4. CASE l = x + 1 /\ k \in 1..x
      BY <1>2, <2>2, <2>4, <3>4
    <3>5. QED
      BY <1>1, <2>2, <3>1, <3>2, <3>3, <3>4
  <2>7. ASSUME NEW d \in i.down, d[2] \in ToSet(Logged)
        PROVE  InLog(p, d[1], d[2])
    <3>1. CASE d \in j.down
      <4>1. PICK k \in 1..x : Failed(q[k]) /\ q[k].node = d[1] /\ q[k].name = d[2]
        BY <1>5, <2>1, <2>7, <3>1 DEF InLog, x
      <4>2. k \in 1..Len(p) /\ p[k] = q[k]
        BY <1>1, <2>2
      <4>3. QED
        BY <4>1, <4>2 DEF InLog
    <3>2. CASE d \notin j.down
      <4>1. http # 200 /\ d = <<n, name>>
        BY <1>3, <2>7, <3>2
      <4>2. x + 1 \in 1..Len(p) /\ Failed(p[x + 1])
        BY <1>1, <1>2, <2>2, <4>1
      <4>3. p[x + 1].node = d[1] /\ p[x + 1].name = d[2]
        BY <1>2, <2>2, <4>1
      <4>4. QED
        BY <4>2, <4>3 DEF InLog
    <3>3. QED
      BY <3>1, <3>2
  <2>8. Len(p) <= MaxCapabilities
    BY <1>1, <2>1, <2>2
  <2>9. QED
    BY <2>1, <2>5, <2>6, <2>7, <2>8 DEF LogOK
<1>8. QED
  BY <1>6, <1>7

\* A step that sends no request.
LEMMA QuietOK ==
  ASSUME NEW j, NEW i, LogOK(j), i.caps = j.caps, i.down = j.down, Onward(j, i)
  PROVE  LogOK(i)
BY DEF LogOK, EntryOK, Onward

\* A log with nothing in it.
LEMMA EmptyLogOK ==
  ASSUME NEW j, j.caps = <<>>, j.down = {}
  PROVE  LogOK(j)
BY CollectorAssumption DEF LogOK, Distinct

-----------------------------------------------------------------------------
(***************************************************************************)
(* Every step keeps the type of a job and its log, whatever the texts of   *)
(* the cluster mean.                                                       *)
(***************************************************************************)
Setting ==
  /\ node \in [Nodes -> NodeWorlds] /\ source \in [Sources -> SourceWorlds]
  /\ job = [s \in Sources |-> job[s]]

JobLog(s, j) == JobShape(s, j) /\ LogOK(j)

Kept(s) == Alone(s) /\ JobLog(s, job'[s])

LEMMA Goes ==
  ASSUME Setting, NEW s \in Sources, NEW j, Proceed(s, j)
  PROVE  Alone(s) /\ job'[s] = j
BY DEF Proceed, Setting, Alone, world, history

LEMMA WorldTyped ==
  ASSUME Setting, NEW n \in Nodes
  PROVE  node[n] \in NodeWorld
BY CollectorAssumption DEF Setting

\* A step that changes only where the goroutine is.
LEMMA Moves ==
  ASSUME Setting, NEW s \in Sources, job[s] \in JobType(s), NEW at, NEW left, NEW todo, NEW cur,
         Where(s, at, left, todo, cur), Proceed(s, Move(job[s], at, left, todo, cur))
  PROVE  /\ Alone(s) /\ Same(s, job[s], job'[s])
         /\ job'[s].caps = job[s].caps
         /\ job'[s].at = at /\ job'[s].left = left /\ job'[s].todo = todo /\ job'[s].cur = cur
<1>1. Alone(s) /\ job'[s] = Move(job[s], at, left, todo, cur)
  BY Goes
<1>2. QED
  BY <1>1 DEF Same, JobType, Move, Where

\* A step that sends no request and changes more.
LEMMA Changes ==
  ASSUME Setting, NEW s \in Sources, NEW a \in JobType(s),
         NEW at, NEW left, NEW todo, NEW cur, NEW hosts, NEW health, NEW alerts,
         Fields(s, at, left, todo, cur, hosts, health, alerts),
         Proceed(s, Change(a, at, left, todo, cur, hosts, health, alerts))
  PROVE  /\ Alone(s) /\ job'[s] \in JobType(s)
         /\ job'[s].lost = a.lost /\ job'[s].down = a.down /\ job'[s].caps = a.caps
         /\ job'[s].at = at /\ job'[s].left = left /\ job'[s].todo = todo /\ job'[s].cur = cur
         /\ job'[s].hosts = hosts /\ job'[s].alerts = alerts
<1>1. Alone(s) /\ job'[s] = Change(a, at, left, todo, cur, hosts, health, alerts)
  BY Goes
<1>2. job'[s].caps = a.caps
  BY <1>1 DEF Change, JobType
<1>3. PICK i : i = job'[s]
  OBVIOUS
<1>4. i = Change(a, at, left, todo, cur, hosts, health, alerts)
  BY <1>1, <1>3
<1>5. /\ i \in JobType(s) /\ i.lost = a.lost /\ i.down = a.down
      /\ i.at = at /\ i.left = left /\ i.todo = todo /\ i.cur = cur
      /\ i.hosts = hosts /\ i.alerts = alerts
  BY <1>4, Changed
<1>6. QED
  BY <1>1, <1>2, <1>3, <1>5

\* A step that sends a request.
LEMMA Asks ==
  ASSUME Setting, NEW s \in Sources, job[s] \in JobType(s),
         NEW n, NEW name, NEW http, Request(s, n, name, http),
         NEW at, NEW left, NEW todo, NEW cur, NEW hosts, NEW health, NEW alerts,
         Fields(s, at, left, todo, cur, hosts, health, alerts),
         Proceed(s, Change(Asked(s, n, name, http, job[s]), at, left, todo, cur, hosts, health, alerts))
  PROVE  /\ Alone(s) /\ job'[s] \in JobType(s) /\ job'[s].lost = job[s].lost
         /\ job'[s].at = at /\ job'[s].left = left /\ job'[s].todo = todo /\ job'[s].cur = cur
         /\ job'[s].hosts = hosts /\ job'[s].alerts = alerts
         /\ Entered(s, n, name, http, job[s], job'[s])
<1>1. PICK a : a = Asked(s, n, name, http, job[s])
  OBVIOUS
<1>2. a \in JobType(s) /\ a.lost = job[s].lost
  <2>1. HasAsked(s, n, name, http, job[s], a)
    BY <1>1, AskedType
  <2>2. QED
    BY <2>1 DEF HasAsked
<1>3. /\ a.caps = Log(job[s].caps, Capability(s, n, name, http))
      /\ a.down = IF http = 200 THEN job[s].down ELSE job[s].down \cup {<<n, name>>}
  <2>1. PICK j : j = job[s]
    OBVIOUS
  <2>2. j \in JobType(s) /\ a = Asked(s, n, name, http, j)
    BY <1>1, <2>1
  <2>3. Entered(s, n, name, http, j, a)
    BY <2>2, AskedLog
  <2>4. QED
    BY <2>1, <2>3 DEF Entered
<1>4. Proceed(s, Change(a, at, left, todo, cur, hosts, health, alerts))
  BY <1>1
<1>5. /\ Alone(s) /\ job'[s] \in JobType(s)
      /\ job'[s].lost = a.lost /\ job'[s].down = a.down /\ job'[s].caps = a.caps
      /\ job'[s].at = at /\ job'[s].left = left /\ job'[s].todo = todo /\ job'[s].cur = cur
      /\ job'[s].hosts = hosts /\ job'[s].alerts = alerts
  BY <1>2, <1>4, Changes
<1>6. Entered(s, n, name, http, job[s], job'[s])
  BY <1>3, <1>5 DEF Entered
<1>7. QED
  BY <1>2, <1>5, <1>6

\* The goroutine of a job under way.
LEMMA UnderWay ==
  ASSUME NEW s, NEW j, JobShape(s, j), j.at \notin {"idle", "resources", "done"}
  PROVE  /\ j \in JobType(s) /\ ~j.lost /\ Begun(j) /\ j.hosts \in [NodesOf(s) -> HostType]
         /\ j.left \in Seq(Names) /\ j.cur \in NodesOf(s) \cup {0} /\ j.todo \in SUBSET NodesOf(s)
         /\ j.alerts \in SUBSET AlertType(s) /\ j.health \in Health
BY DEF JobShape, Begun, JobType

LEMMA NextNodeKept ==
  ASSUME Setting, NEW s \in Sources, JobLog(s, job[s]), NextNode(s)
  PROVE  Kept(s)
<1>1. job[s].at = "nodes" /\ JobShape(s, job[s]) /\ LogOK(job[s])
  BY DEF NextNode, JobLog
<1>2. /\ job[s] \in JobType(s) /\ ~job[s].lost /\ job[s].hosts \in [NodesOf(s) -> HostType]
      /\ job[s].todo \in SUBSET NodesOf(s)
  BY <1>1, UnderWay
<1>3. PICK n \in job[s].todo :
        Proceed(s, [job[s] EXCEPT !.at = "node", !.left = NodeRequests,
                                  !.todo = job[s].todo \ {n}, !.cur = n])
  BY DEF NextNode
<1>4. PICK todo : todo = job[s].todo \ {n}
  OBVIOUS
<1>5. Where(s, "node", NodeRequests, todo, n)
  BY <1>2, <1>4, Lists DEF Places, Where
<1>6. Proceed(s, Move(job[s], "node", NodeRequests, todo, n))
  BY <1>3, <1>4 DEF Move
<1>7. /\ Alone(s) /\ Same(s, job[s], job'[s]) /\ job'[s].caps = job[s].caps
      /\ job'[s].at = "node" /\ job'[s].left = NodeRequests /\ job'[s].todo = todo /\ job'[s].cur = n
  BY <1>2, <1>5, <1>6, Moves
<1>8. JobShape(s, job'[s])
  <2>1. /\ job'[s] \in JobType(s) /\ job'[s].hosts = job[s].hosts /\ job'[s].lost = job[s].lost
        /\ n \in NodesOf(s) \ todo
    BY <1>2, <1>4, <1>7 DEF Same
  <2>2. Len(NodeRequests) \in 1..12 /\ Rest(NodeRequests, NodeRequests)
    BY Lists, AllLeft
  <2>3. QED
    BY <1>2, <1>7, <2>1, <2>2 DEF JobShape
<1>9. Onward(job[s], job'[s])
  BY <1>1, <1>3, <1>4, <1>7 DEF Onward, Sent
<1>10. QED
  BY <1>1, <1>7, <1>8, <1>9, QuietOK DEF Kept, JobLog, Same

LEMMA ToStoragesKept ==
  ASSUME Setting, NEW s \in Sources, JobLog(s, job[s]), ToStorages(s)
  PROVE  Kept(s)
<1>1. job[s].at = "nodes" /\ job[s].todo = {} /\ JobShape(s, job[s]) /\ LogOK(job[s])
  BY DEF ToStorages, JobLog
<1>2. /\ job[s] \in JobType(s) /\ ~job[s].lost /\ job[s].hosts \in [NodesOf(s) -> HostType]
  BY <1>1, UnderWay
<1>3. PICK todo : todo = NodesOf(s) \cap Storages
  OBVIOUS
<1>4. Where(s, "storages", job[s].left, todo, job[s].cur)
  BY <1>2, <1>3 DEF JobType, Places, Where
<1>5. Proceed(s, Move(job[s], "storages", job[s].left, todo, job[s].cur))
  BY <1>2, <1>3 DEF ToStorages, JobType, Move
<1>6. /\ Alone(s) /\ Same(s, job[s], job'[s]) /\ job'[s].caps = job[s].caps
      /\ job'[s].at = "storages" /\ job'[s].todo = todo
  BY <1>2, <1>4, <1>5, Moves
<1>7. JobShape(s, job'[s])
  BY <1>2, <1>3, <1>6 DEF JobShape, Same
<1>8. Onward(job[s], job'[s])
  BY <1>1, <1>6 DEF Onward, Sent
<1>9. QED
  BY <1>1, <1>6, <1>7, <1>8, QuietOK DEF Kept, JobLog, Same

LEMMA ToGuestsKept ==
  ASSUME Setting, NEW s \in Sources, JobLog(s, job[s]), ToGuests(s)
  PROVE  Kept(s)
<1>1. job[s].at = "storages" /\ job[s].todo = {} /\ JobShape(s, job[s]) /\ LogOK(job[s])
  BY DEF ToGuests, JobLog
<1>2. /\ job[s] \in JobType(s) /\ ~job[s].lost /\ job[s].hosts \in [NodesOf(s) -> HostType]
  BY <1>1, UnderWay
<1>3. PICK todo : todo = {n \in NodesOf(s) \cap Guests : job[s].hosts[n].listed.guest # "GONE"}
  OBVIOUS
<1>4. Where(s, "guests", job[s].left, todo, job[s].cur)
  BY <1>2, <1>3 DEF JobType, Places, Where
<1>5. Proceed(s, Move(job[s], "guests", job[s].left, todo, job[s].cur))
  BY <1>2, <1>3 DEF ToGuests, JobType, Move
<1>6. /\ Alone(s) /\ Same(s, job[s], job'[s]) /\ job'[s].caps = job[s].caps
      /\ job'[s].at = "guests" /\ job'[s].todo = todo
  BY <1>2, <1>4, <1>5, Moves
<1>7. JobShape(s, job'[s])
  BY <1>2, <1>3, <1>6 DEF JobShape, Same
<1>8. Onward(job[s], job'[s])
  BY <1>1, <1>6 DEF Onward, Sent
<1>9. QED
  BY <1>1, <1>6, <1>7, <1>8, QuietOK DEF Kept, JobLog, Same

LEMMA NextGuestKept ==
  ASSUME Setting, NEW s \in Sources, JobLog(s, job[s]), NextGuest(s)
  PROVE  Kept(s)
<1>1. job[s].at = "guests" /\ JobShape(s, job[s]) /\ LogOK(job[s])
  BY DEF NextGuest, JobLog
<1>2. /\ job[s] \in JobType(s) /\ ~job[s].lost /\ job[s].hosts \in [NodesOf(s) -> HostType]
      /\ job[s].todo \in SUBSET NodesOf(s) /\ job[s].todo \subseteq Guests
  BY <1>1, UnderWay DEF JobShape
<1>3. PICK n \in job[s].todo :
        Proceed(s, [job[s] EXCEPT !.at = "guest", !.left = GuestRequests,
                                  !.todo = job[s].todo \ {n}, !.cur = n])
  BY DEF NextGuest
<1>4. PICK todo : todo = job[s].todo \ {n}
  OBVIOUS
<1>5. Where(s, "guest", GuestRequests, todo, n)
  BY <1>2, <1>4, Lists DEF Places, Where
<1>6. Proceed(s, Move(job[s], "guest", GuestRequests, todo, n))
  BY <1>3, <1>4 DEF Move
<1>7. /\ Alone(s) /\ Same(s, job[s], job'[s]) /\ job'[s].caps = job[s].caps
      /\ job'[s].at = "guest" /\ job'[s].left = GuestRequests /\ job'[s].todo = todo /\ job'[s].cur = n
  BY <1>2, <1>5, <1>6, Moves
<1>8. JobShape(s, job'[s])
  <2>1. /\ job'[s] \in JobType(s) /\ job'[s].hosts = job[s].hosts /\ job'[s].lost = job[s].lost
        /\ n \in (NodesOf(s) \cap Guests) \ todo /\ todo \subseteq Guests
    BY <1>2, <1>4, <1>7 DEF Same
  <2>2. Len(GuestRequests) \in 1..5 /\ Rest(GuestRequests, GuestRequests)
    BY Lists, AllLeft
  <2>3. QED
    BY <1>2, <1>7, <2>1, <2>2 DEF JobShape
<1>9. Onward(job[s], job'[s])
  BY <1>1, <1>3, <1>4, <1>7 DEF Onward, Sent
<1>10. QED
  BY <1>1, <1>7, <1>8, <1>9, QuietOK DEF Kept, JobLog, Same

\* A host in the list of resources.
LEMMA HostOfType ==
  ASSUME Setting, NEW n \in Nodes
  PROVE  HostOf(node[n]) \in HostType
<1>1. PICK w : w = node[n]
  OBVIOUS
<1>2. /\ w.online \in BOOLEAN /\ w.mem \in Nat /\ w.root \in Nat /\ w.stored \in Nat
      /\ w.storage \in Texts /\ w.guest \in Texts \cup {"GONE"}
  BY <1>1, WorldTyped DEF NodeWorld
<1> DEFINE listed == [stored |-> w.stored, storage |-> w.storage, guest |-> w.guest, pool |-> Blank]
           health == IF w.online THEN "ok" ELSE "critical"
<1>3. listed \in ListedType /\ health \in Health
  BY <1>2, VerdictAssumption DEF ListedType, Health
<1>4. HostOf(w) = [online |-> w.online, mem |-> w.mem, root |-> w.root, max |-> w.root,
                   named |-> FALSE, health |-> health, listed |-> listed]
  BY DEF HostOf
<1> HIDE DEF listed, health
<1>5. QED
  BY <1>1, <1>2, <1>3, <1>4 DEF HostType

LEMMA ReadResourcesKept ==
  ASSUME Setting, NEW s \in Sources, JobLog(s, job[s]), ReadResources(s)
  PROVE  Kept(s)
<1> DEFINE i == job'[s]
<1>1. job[s].at = "resources" /\ job[s] = Start("resources") /\ job[s] \in JobType(s)
  BY DEF ReadResources, JobLog, JobShape
<1>2. PICK http \in Outcomes : Proceed(s,
        IF http # 200
        THEN [job[s] EXCEPT !.at = "done", !.lost = TRUE,
                            !.alerts = {Alert(s, 0, "offline", "critical")}]
        ELSE [job[s] EXCEPT
               !.at = "source", !.left = SourceRequests, !.todo = NodesOf(s),
               !.hosts = [n \in NodesOf(s) |-> HostOf(node[n])]])
  BY DEF ReadResources
<1>3. job[s].caps = <<>> /\ job[s].down = {} /\ ~job[s].lost
  BY <1>1 DEF Start
<1>4. CASE http # 200
  <2> DEFINE A == {Alert(s, 0, "offline", "critical")}
  <2>1. Alone(s) /\ i = [job[s] EXCEPT !.at = "done", !.lost = TRUE, !.alerts = A]
    BY <1>2, <1>4, Goes
  <2>2. A \subseteq AlertType(s)
    BY DEF Alert, AlertType, Names, Severities
  <2> HIDE DEF A
  <2>3. i \in JobType(s) /\ i.at = "done" /\ i.lost /\ i.caps = <<>> /\ i.down = {}
    BY <1>1, <1>3, <2>1, <2>2 DEF JobType, Places
  <2>4. LogOK(i)
    BY <2>3, EmptyLogOK
  <2>5. QED
    BY <2>1, <2>3, <2>4 DEF Kept, JobLog, JobShape, Begun
<1>5. CASE http = 200
  <2> DEFINE H == [n \in NodesOf(s) |-> HostOf(node[n])]
  <2>1. /\ Alone(s)
        /\ i = [job[s] EXCEPT !.at = "source", !.left = SourceRequests, !.todo = NodesOf(s),
                              !.hosts = H]
    BY <1>2, <1>5, Goes
  <2>2. H \in [NodesOf(s) -> HostType]
    BY HostOfType DEF NodesOf
  <2> HIDE DEF H
  <2>3. SourceRequests \in Seq(Names) /\ NodesOf(s) \in SUBSET NodesOf(s)
    BY Lists
  <2>4. i \in JobType(s)
    BY <1>1, <2>1, <2>2, <2>3 DEF JobType, Places
  <2>5. /\ i.at = "source" /\ i.left = SourceRequests /\ i.todo = NodesOf(s)
        /\ i.hosts = H /\ ~i.lost /\ i.caps = <<>> /\ i.down = {}
    BY <1>1, <1>3, <2>1 DEF JobType
  <2>6. JobShape(s, i)
    BY <2>2, <2>4, <2>5, Lists, AllLeft DEF JobShape
  <2>7. LogOK(i)
    BY <2>5, EmptyLogOK
  <2>8. QED
    BY <2>1, <2>6, <2>7 DEF Kept, JobLog
<1>6. QED
  BY <1>4, <1>5

\* The alerts of a verdict.
LEMMA RaisedAlerts ==
  ASSUME NEW s \in Sources, NEW n \in NodesOf(s) \cup {0}, NEW about \in Names, NEW h
  PROVE  Raised(s, n, about, h) \subseteq AlertType(s)
BY RaisedType DEF AlertType

\* The order of the requests about a cluster.
LEMMA SourceLogs ==
  ASSUME NEW s, NEW j, NEW i, NEW http, NEW name, NEW rest,
         Entered(s, 0, name, http, j, i), j.at = "source",
         name \in ToSet(SourceRequests), name \in ToSet(j.left), name \notin ToSet(rest),
         ToSet(rest) \subseteq ToSet(j.left),
         i.at \in {"source", "nodes"}, i.left = rest
  PROVE  Logs(s, j, i, 0, name, http)
<1>1. ~Sent(j, 0, name) /\ Sent(i, 0, name)
  BY DEF Sent
<1>2. Onward(j, i)
  BY DEF Onward, Sent
<1>3. QED
  BY <1>1, <1>2 DEF Logs

LEMMA ReadSourceKept ==
  ASSUME Setting, NEW s \in Sources, JobLog(s, job[s]), ReadSource(s)
  PROVE  Kept(s)
<1> DEFINE name == Head(job[s].left)
           m == Len(job[s].left)
           rest == Tail(job[s].left)
<1>1. job[s].at = "source" /\ JobShape(s, job[s]) /\ LogOK(job[s])
  BY DEF ReadSource, JobLog
<1>2. /\ job[s] \in JobType(s) /\ ~job[s].lost /\ job[s].hosts \in [NodesOf(s) -> HostType]
      /\ job[s].left \in Seq(Names) /\ job[s].cur \in NodesOf(s) \cup {0}
      /\ job[s].alerts \in SUBSET AlertType(s) /\ job[s].health \in Health
      /\ job[s].todo = NodesOf(s)
      /\ m \in 1..6 /\ Rest(SourceRequests, job[s].left)
  BY <1>1, UnderWay DEF JobShape
<1>3. /\ name \in Names /\ rest \in Seq(Names) /\ Len(rest) = m - 1
      /\ Rest(SourceRequests, rest)
      /\ name \in ToSet(job[s].left) /\ name \in ToSet(SourceRequests) /\ name \notin ToSet(rest)
      /\ ToSet(rest) \subseteq ToSet(job[s].left)
  <2>1. PICK q : q = job[s].left
    OBVIOUS
  <2>2. /\ SourceRequests \in Seq(Names) /\ Len(SourceRequests) = 6
        /\ \A x, y \in 1..Len(SourceRequests) : SourceRequests[x] = SourceRequests[y] => x = y
    BY Lists, ListsApart
  <2>3. q \in Seq(Names) /\ Len(q) \in 1..Len(SourceRequests) /\ Rest(SourceRequests, q)
    BY <1>2, <2>1, <2>2
  <2>4. /\ Head(q) \in Names /\ Tail(q) \in Seq(Names) /\ Len(Tail(q)) = Len(q) - 1
        /\ Rest(SourceRequests, Tail(q))
    BY <2>2, <2>3, RestOf
  <2>5. /\ Head(q) \in ToSet(q) /\ Head(q) \in ToSet(SourceRequests)
        /\ Head(q) \notin ToSet(Tail(q)) /\ ToSet(Tail(q)) \subseteq ToSet(q)
    BY <2>2, <2>3, HeadOnce
  <2>6. QED
    BY <2>1, <2>4, <2>5
<1>4. PICK http \in Outcomes :
        Proceed(s, [Asked(s, 0, name, http, job[s]) EXCEPT
              !.left = Tail(@),
              !.at = IF Len(Asked(s, 0, name, http, job[s]).left) = 1 THEN "nodes" ELSE @,
              !.health = IF http = 200 THEN MaxHealth(@, SourceVerdict(s, name)) ELSE @,
              !.alerts = IF http = 200 THEN @ \cup ClusterAlerts(s, name) ELSE @])
  BY DEF ReadSource
<1> DEFINE a == Asked(s, 0, name, http, job[s])
           new == IF http = 200 THEN ClusterAlerts(s, name) ELSE {}
           health == IF http = 200 THEN MaxHealth(job[s].health, SourceVerdict(s, name))
                     ELSE job[s].health
           at == IF m = 1 THEN "nodes" ELSE "source"
           alerts == job[s].alerts \cup new
<1>5. Request(s, 0, name, http) /\ http \in Nat
  BY <1>3, OutcomeType DEF Request
<1>6. /\ a \in JobType(s)
      /\ a.at = job[s].at /\ a.left = job[s].left /\ a.todo = job[s].todo /\ a.cur = job[s].cur
      /\ a.hosts = job[s].hosts /\ a.health = job[s].health /\ a.alerts = job[s].alerts
  <2>1. job[s] \in JobType(s) /\ Request(s, 0, name, http)
    BY <1>2, <1>5
  <2> HIDE DEF name
  <2>2. HasAsked(s, 0, name, http, job[s], a)
    BY <2>1, AskedType
  <2> HIDE DEF a
  <2>3. QED
    BY <2>2 DEF HasAsked
<1>7. Proceed(s, Change(a, at, rest, job[s].todo, job[s].cur, job[s].hosts, health, alerts))
  <2>1. Proceed(s, [a EXCEPT
              !.left = Tail(a.left),
              !.at = IF Len(a.left) = 1 THEN "nodes" ELSE a.at,
              !.health = IF http = 200 THEN MaxHealth(a.health, SourceVerdict(s, name)) ELSE a.health,
              !.alerts = IF http = 200 THEN a.alerts \cup ClusterAlerts(s, name) ELSE a.alerts])
    BY <1>4
  <2> HIDE DEF name, m, a
  <2>2. /\ Tail(a.left) = rest /\ at = IF Len(a.left) = 1 THEN "nodes" ELSE a.at
        /\ health = IF http = 200 THEN MaxHealth(a.health, SourceVerdict(s, name)) ELSE a.health
        /\ alerts = IF http = 200 THEN a.alerts \cup ClusterAlerts(s, name) ELSE a.alerts
    BY <1>1, <1>6 DEF m
  <2> HIDE DEF rest, at, health, alerts
  <2>3. Proceed(s, ReadOn(a, at, rest, health, alerts))
    BY <2>1, <2>2 DEF ReadOn
  <2>4. QED
    BY <1>6, <2>3, ReadOnIs
<1>8. Fields(s, at, rest, job[s].todo, job[s].cur, job[s].hosts, health, alerts)
  <2>1. new \subseteq AlertType(s)
    <3>1. name \in Names /\ 0 \in NodesOf(s) \cup {0}
      BY <1>3
    <3> HIDE DEF name
    <3>2. Raised(s, 0, name, SourceVerdict(s, name)) \subseteq AlertType(s)
      BY <3>1, RaisedAlerts
    <3>3. QED
      BY <3>2 DEF ClusterAlerts
  <2>2. alerts \in SUBSET AlertType(s)
    BY <1>2, <2>1
  <2>3. health \in Health /\ at \in Places
    BY <1>2, SourceVerdictType DEF MaxHealth, Places
  <2> HIDE DEF alerts, health, at, name, rest, m
  <2>4. QED
    BY <1>2, <1>3, <2>2, <2>3 DEF Fields
<1>9. at \in {"source", "nodes"} /\ (at = "source" => m # 1)
  OBVIOUS
<1> HIDE DEF name, rest, at, health, alerts, new, m
<1>10. /\ Alone(s) /\ job'[s] \in JobType(s) /\ job'[s].lost = job[s].lost
       /\ job'[s].at = at /\ job'[s].left = rest /\ job'[s].todo = job[s].todo
       /\ job'[s].hosts = job[s].hosts
       /\ Entered(s, 0, name, http, job[s], job'[s])
  <2>1. Proceed(s, Change(Asked(s, 0, name, http, job[s]), at, rest, job[s].todo, job[s].cur,
                          job[s].hosts, health, alerts))
    BY <1>7 DEF a
  <2>2. QED
    BY <1>2, <1>5, <1>8, <2>1, Asks
<1>11. JobShape(s, job'[s])
  <2>1. at = "source" => Len(rest) \in 1..6
    BY <1>2, <1>3, <1>9
  <2>2. QED
    BY <1>2, <1>3, <1>9, <1>10, <2>1 DEF JobShape
<1>12. LogOK(job'[s])
  <2>1. Logs(s, job[s], job'[s], 0, name, http)
    BY <1>1, <1>3, <1>9, <1>10, SourceLogs
  <2>2. QED
    BY <1>1, <1>2, <1>5, <2>1, LogsOK
<1>13. QED
  BY <1>10, <1>11, <1>12 DEF Kept, JobLog

\* The verdicts on a node and its host.
LEMMA AnyNodeVerdict ==
  ASSUME NEW s, NEW n, NEW name, NEW http
  PROVE  NodeVerdict(s, n, name, http) \in Health
<1>1. CASE name = "zfs_pool_detail"
  <2>1. PICK listed, state, devices :
          /\ PoolVerdict(s, n, http) =
               IF http # 200 THEN listed ELSE PoolHealthInDetail(listed, state, devices)
          /\ listed \in Health
    <3>1. PoolHealth(job[s].hosts[n].listed.pool, Blank) \in Health
      BY VerdictType DEF PoolHealth
    <3>2. QED
      BY <3>1 DEF PoolVerdict
  <2>2. PoolHealthInDetail(listed, state, devices) \in Health
    <3>1. "warning" \in Health /\ HealthFromText(state) \in Health
      BY VerdictType DEF Health
    <3>2. \A a \in Health, b \in Health : MaxHealth(a, b) \in Health
      BY DEF MaxHealth
    <3>3. QED
      BY <2>1, <3>1, <3>2 DEF PoolHealthInDetail
  <2>3. QED
    BY <1>1, <2>1, <2>2 DEF NodeVerdict
<1>2. CASE name # "zfs_pool_detail"
  <2>1. "ok" \in Health
    BY DEF Health
  <2>2. QED
    BY <1>2, <2>1, VerdictType DEF NodeVerdict
<1>3. QED
  BY <1>1, <1>2

LEMMA HostAfterType ==
  ASSUME Setting, NEW s \in Sources, NEW n \in NodesOf(s), NEW name, NEW http,
         job[s].hosts[n] \in HostType
  PROVE  HostAfter(s, n, name, http) \in HostType
<1>1. PICK g, w : g = job[s].hosts[n] /\ w = node[n]
  OBVIOUS
<1>2. g \in HostType /\ g.listed \in ListedType
  BY <1>1 DEF HostType
<1>3. w.mem \in Nat /\ w.root \in Nat /\ w.pool \in Texts
  <2>1. w \in NodeWorld
    BY <1>1, WorldTyped DEF NodesOf
  <2>2. QED
    BY <2>1 DEF NodeWorld
<1> DEFINE mem == IF name = "node_status" /\ http = 200 THEN w.mem ELSE g.mem
           root == IF name = "node_status" /\ http = 200 THEN w.root ELSE g.root
           pool == IF name = "zfs_pools" THEN w.pool ELSE g.listed.pool
           listed == [g.listed EXCEPT !.pool = pool]
           health == MaxHealth(g.health, NodeVerdict(s, n, name, http))
<1>4. mem \in Nat /\ root \in Nat /\ pool \in Texts
  BY <1>2, <1>3 DEF HostType, ListedType
<1>5. health \in Health
  <2>1. g.health \in Health
    BY <1>2 DEF HostType
  <2>2. QED
    BY <2>1, AnyNodeVerdict DEF MaxHealth
<1>6. HostAfter(s, n, name, http)
        = [g EXCEPT !.mem = mem, !.root = root, !.listed = listed, !.health = health]
  BY <1>1 DEF HostAfter
<1> HIDE DEF pool
<1>7. listed \in ListedType
  BY <1>2, <1>4 DEF ListedType
<1> HIDE DEF mem, root, listed, health
<1>8. QED
  BY <1>2, <1>4, <1>5, <1>6, <1>7 DEF HostType

\* A request about a node is sent once.
LEMMA NodeOnce ==
  ASSUME NEW left \in Seq(Names), Len(left) \in 1..12, Rest(NodeRequests, left), NEW http,
         NEW rest, rest = AfterRequest(left, http)
  PROVE  /\ Head(left) \in Names /\ rest \in Seq(Names) /\ Rest(NodeRequests, rest)
         /\ rest # <<>> => Len(rest) \in 1..12
         /\ Head(left) \in ToSet(left) /\ Head(left) \in ToSet(NodeRequests)
         /\ Head(left) \notin ToSet(rest) /\ ToSet(rest) \subseteq ToSet(left)
<1> DEFINE m == Len(left)
           once == Tail(left)
<1>1. /\ NodeRequests \in Seq(Names) /\ Len(NodeRequests) = 12 /\ NodeRequests[7] = "zfs_pools"
      /\ \A x, y \in 1..Len(NodeRequests) : NodeRequests[x] = NodeRequests[y] => x = y
  BY Lists, ListsApart
<1>2. /\ m \in 1..12
      /\ Head(left) = NodeRequests[13 - m] /\ Head(left) \in Names
      /\ rest \in Seq(Names) /\ Rest(NodeRequests, rest)
      /\ Len(rest) = IF m = 6 /\ http # 200 THEN 4 ELSE m - 1
      /\ rest = <<>> <=> Len(rest) = 0
  BY NodeRequestsLeft
<1>3. /\ once \in Seq(Names) /\ Len(once) = Len(left) - 1 /\ Rest(NodeRequests, once)
  BY <1>1, RestOf
<1>4. /\ Head(left) \in ToSet(left) /\ Head(left) \in ToSet(NodeRequests)
      /\ Head(left) \notin ToSet(once) /\ ToSet(once) \subseteq ToSet(left)
  BY <1>1, HeadOnce
<1>5. rest # <<>> => Len(rest) \in 1..12
  <2> HIDE DEF m
  <2>1. QED
    BY <1>2
<1>6. CASE rest = once
  BY <1>2, <1>4, <1>5, <1>6
<1>7. CASE rest # once
  <2>1. rest = Tail(once) /\ Head(left) = "zfs_pools"
    BY <1>7 DEF AfterRequest
  <2> HIDE DEF once, m
  <2>2. Len(once) \in 1..Len(NodeRequests)
    <3>1. PICK x, y : x = 13 - m /\ y = Len(NodeRequests)
      OBVIOUS
    <3>2. y = 12 /\ x \in 1..y /\ 7 \in 1..y
      BY <1>1, <1>2, <3>1
    <3>3. NodeRequests[x] = NodeRequests[7]
      BY <1>1, <1>2, <2>1, <3>1
    <3>4. x = 7
      BY <1>1, <3>1, <3>2, <3>3
    <3>5. m = 6
      BY <1>2, <3>1, <3>4
    <3>6. Len(once) = m - 1
      BY <1>3 DEF m
    <3>7. QED
      BY <3>1, <3>2, <3>5, <3>6
  <2>3. once \in Seq(Names) /\ Rest(NodeRequests, once)
    BY <1>3
  <2>4. ToSet(Tail(once)) \subseteq ToSet(once)
    BY <1>1, <2>2, <2>3, HeadOnce
  <2>5. QED
    BY <1>2, <1>4, <1>5, <2>1, <2>4
<1>8. QED
  BY <1>6, <1>7

LEMMA NodeLogs ==
  ASSUME NEW s, NEW j, NEW i, NEW n, NEW http, NEW name, NEW rest, n # 0,
         Entered(s, n, name, http, j, i), j.at = "node", n = j.cur, n \notin j.todo,
         name \in ToSet(NodeRequests), name \in ToSet(j.left), name \notin ToSet(rest),
         ToSet(rest) \subseteq ToSet(j.left),
         i.at \in {"nodes", "node"}, i.left = rest, i.todo = j.todo, i.cur = n
  PROVE  Logs(s, j, i, n, name, http)
<1>1. ~Sent(j, n, name) /\ Sent(i, n, name)
  BY DEF Sent
<1>2. Onward(j, i)
  BY DEF Onward, Sent
<1>3. QED
  BY <1>1, <1>2 DEF Logs

LEMMA NotNone == ASSUME NEW s, NEW n \in NodesOf(s) PROVE n # 0
BY CollectorAssumption DEF NodesOf

LEMMA NodeAlertsType ==
  ASSUME NEW s \in Sources, NEW n \in NodesOf(s), NEW name \in Names, NEW http
  PROVE  NodeAlerts(s, n, name, http) \subseteq AlertType(s)
<1>1. Raised(s, n, name, NodeVerdict(s, n, name, http)) \subseteq AlertType(s)
  BY RaisedAlerts
<1>2. QED
  BY <1>1 DEF NodeAlerts

LEMMA ReadNodeKept ==
  ASSUME Setting, NEW s \in Sources, JobLog(s, job[s]), ReadNode(s)
  PROVE  Kept(s)
<1>1. job[s].at = "node" /\ JobShape(s, job[s]) /\ LogOK(job[s])
  BY DEF ReadNode, JobLog
<1>2. /\ job[s] \in JobType(s) /\ ~job[s].lost /\ job[s].hosts \in [NodesOf(s) -> HostType]
      /\ job[s].left \in Seq(Names) /\ job[s].todo \in SUBSET NodesOf(s)
      /\ job[s].alerts \in SUBSET AlertType(s) /\ job[s].health \in Health
      /\ job[s].cur \in NodesOf(s) \ job[s].todo
      /\ Len(job[s].left) \in 1..12 /\ Rest(NodeRequests, job[s].left)
  BY <1>1, UnderWay DEF JobShape
<1>3. PICK http \in Outcomes :
        LET name == Head(job[s].left)
            n == job[s].cur
            j == Asked(s, n, name, http, job[s])
            rest == AfterRequest(j.left, http)
        IN  Proceed(s, [j EXCEPT
                !.left = rest,
                !.at = IF rest = <<>> THEN "nodes" ELSE @,
                !.hosts[n] = HostAfter(s, n, name, http),
                !.alerts = @ \cup NodeAlerts(s, n, name, http)])
  BY DEF ReadNode
<1> DEFINE n == job[s].cur
           name == Head(job[s].left)
           a == Asked(s, n, name, http, job[s])
           rest == AfterRequest(job[s].left, http)
           h == HostAfter(s, n, name, http)
           new == NodeAlerts(s, n, name, http)
           at == IF rest = <<>> THEN "nodes" ELSE "node"
           hosts == [job[s].hosts EXCEPT ![n] = h]
           alerts == job[s].alerts \cup new
<1>4. /\ name \in Names /\ rest \in Seq(Names) /\ Rest(NodeRequests, rest)
      /\ rest # <<>> => Len(rest) \in 1..12
      /\ name \in ToSet(job[s].left) /\ name \in ToSet(NodeRequests)
      /\ name \notin ToSet(rest) /\ ToSet(rest) \subseteq ToSet(job[s].left)
  <2>1. PICK q, r : q = job[s].left /\ r = AfterRequest(q, http)
    OBVIOUS
  <2>2. q \in Seq(Names) /\ Len(q) \in 1..12 /\ Rest(NodeRequests, q)
    BY <1>2, <2>1
  <2>3. /\ Head(q) \in Names /\ r \in Seq(Names) /\ Rest(NodeRequests, r)
        /\ r # <<>> => Len(r) \in 1..12
        /\ Head(q) \in ToSet(q) /\ Head(q) \in ToSet(NodeRequests)
        /\ Head(q) \notin ToSet(r) /\ ToSet(r) \subseteq ToSet(q)
    BY <2>1, <2>2, NodeOnce
  <2>4. QED
    BY <2>1, <2>3
<1>5. n \in NodesOf(s) /\ n # 0 /\ http \in Nat /\ Request(s, n, name, http)
  BY <1>2, <1>4, OutcomeType, NotNone DEF Request
<1>6. /\ a \in JobType(s)
      /\ a.at = job[s].at /\ a.left = job[s].left /\ a.todo = job[s].todo /\ a.cur = job[s].cur
      /\ a.hosts = job[s].hosts /\ a.health = job[s].health /\ a.alerts = job[s].alerts
  <2>1. job[s] \in JobType(s) /\ Request(s, n, name, http)
    BY <1>2, <1>5
  <2> HIDE DEF n, name
  <2>2. HasAsked(s, n, name, http, job[s], a)
    BY <2>1, AskedType
  <2> HIDE DEF a
  <2>3. QED
    BY <2>2 DEF HasAsked
<1>7. Proceed(s, Change(a, at, rest, job[s].todo, n, hosts, job[s].health, alerts))
  <2>1. Proceed(s, [a EXCEPT
                !.left = AfterRequest(a.left, http),
                !.at = IF AfterRequest(a.left, http) = <<>> THEN "nodes" ELSE a.at,
                !.hosts = [a.hosts EXCEPT ![n] = h],
                !.alerts = a.alerts \cup new])
    BY <1>3
  <2> HIDE DEF n, name, a, h, new
  <2>2. /\ AfterRequest(a.left, http) = rest /\ [a.hosts EXCEPT ![n] = h] = hosts
        /\ a.alerts \cup new = alerts
        /\ at = IF AfterRequest(a.left, http) = <<>> THEN "nodes" ELSE a.at
    BY <1>1, <1>6
  <2> HIDE DEF rest, hosts, alerts, at
  <2>3. Proceed(s, Learnt(a, at, rest, hosts, alerts))
    BY <2>1, <2>2 DEF Learnt
  <2>4. Learnt(a, at, rest, hosts, alerts)
          = Change(a, at, rest, job[s].todo, n, hosts, job[s].health, alerts)
    BY <1>6, LearntIs DEF n
  <2>5. QED
    BY <2>3, <2>4
<1> HIDE DEF a, h, new, rest, name, n
<1>8. Fields(s, at, rest, job[s].todo, n, hosts, job[s].health, alerts)
  <2>1. h \in HostType
    BY <1>2, <1>5, HostAfterType DEF h
  <2>2. hosts \in [NodesOf(s) -> HostType]
    BY <1>2, <1>5, <2>1
  <2>3. alerts \in SUBSET AlertType(s)
    BY <1>2, <1>4, <1>5, NodeAlertsType DEF new
  <2>4. at \in Places
    BY DEF Places
  <2> HIDE DEF hosts, alerts, at
  <2>5. QED
    BY <1>2, <1>4, <1>5, <2>2, <2>3, <2>4 DEF Fields
<1>9. at \in {"nodes", "node"} /\ (at = "node" => rest # <<>>) /\ hosts \in [NodesOf(s) -> HostType]
  <2>1. h \in HostType
    BY <1>2, <1>5, HostAfterType DEF h
  <2>2. QED
    BY <1>2, <1>5, <2>1
<1> HIDE DEF at, hosts, alerts
<1>10. /\ Alone(s) /\ job'[s] \in JobType(s) /\ job'[s].lost = job[s].lost
       /\ job'[s].at = at /\ job'[s].left = rest /\ job'[s].todo = job[s].todo /\ job'[s].cur = n
       /\ job'[s].hosts = hosts
       /\ Entered(s, n, name, http, job[s], job'[s])
  <2>1. Proceed(s, Change(Asked(s, n, name, http, job[s]), at, rest, job[s].todo, n, hosts,
                          job[s].health, alerts))
    BY <1>7 DEF a
  <2>2. QED
    BY <1>2, <1>5, <1>8, <2>1, Asks
<1>11. JobShape(s, job'[s])
  <2>1. n \in NodesOf(s) \ job[s].todo
    BY <1>2 DEF n
  <2>2. QED
    BY <1>2, <1>4, <1>9, <1>10, <2>1 DEF JobShape
<1>12. LogOK(job'[s])
  <2>1. n = job[s].cur /\ n \notin job[s].todo
    BY <1>2 DEF n
  <2>2. Logs(s, job[s], job'[s], n, name, http)
    BY <1>1, <1>4, <1>5, <1>9, <1>10, <2>1, NodeLogs
  <2>3. QED
    BY <1>1, <1>2, <1>5, <2>2, LogsOK
<1>13. QED
  BY <1>10, <1>11, <1>12 DEF Kept, JobLog

LEMMA StorageLogs ==
  ASSUME NEW s, NEW j, NEW i, NEW n, NEW http, n # 0,
         Entered(s, n, "storage_content", http, j, i), j.at = "storages", n \in j.todo,
         i.at = "storages", i.todo = j.todo \ {n}
  PROVE  Logs(s, j, i, n, "storage_content", http)
<1>1. "storage_content" \notin ToSet(NodeRequests) \cup ToSet(GuestRequests)
  BY ListsApart
<1>2. ~Sent(j, n, "storage_content") /\ Sent(i, n, "storage_content")
  BY <1>1 DEF Sent
<1>3. Onward(j, i)
  BY DEF Onward, Sent
<1>4. QED
  BY <1>2, <1>3 DEF Logs

LEMMA ReadStorageKept ==
  ASSUME Setting, NEW s \in Sources, JobLog(s, job[s]), ReadStorage(s)
  PROVE  Kept(s)
<1>1. job[s].at = "storages" /\ JobShape(s, job[s]) /\ LogOK(job[s])
  BY DEF ReadStorage, JobLog
<1>2. /\ job[s] \in JobType(s) /\ ~job[s].lost /\ job[s].hosts \in [NodesOf(s) -> HostType]
      /\ job[s].left \in Seq(Names) /\ job[s].cur \in NodesOf(s) \cup {0}
      /\ job[s].alerts \in SUBSET AlertType(s) /\ job[s].health \in Health
      /\ job[s].todo \in SUBSET NodesOf(s) /\ job[s].todo \subseteq Storages
  BY <1>1, UnderWay DEF JobShape
<1>3a. PICK n \in job[s].todo : \E http :
        LET told == job[s].hosts[n].listed
            asks == StorageContentQueryable(told.storage, "CONTENT")
            j == IF asks THEN Asked(s, n, "storage_content", http, job[s]) ELSE job[s]
        IN  /\ asks => http \in Outcomes
            /\ Proceed(s, [j EXCEPT
                 !.todo = @ \ {n},
                 !.alerts = @ \cup StorageAlerts(s, n, told),
                 !.hosts[n] = NameFullest(@)])
  BY DEF ReadStorage
<1>3. PICK http :
        LET told == job[s].hosts[n].listed
            asks == StorageContentQueryable(told.storage, "CONTENT")
            j == IF asks THEN Asked(s, n, "storage_content", http, job[s]) ELSE job[s]
        IN  /\ asks => http \in Outcomes
            /\ Proceed(s, [j EXCEPT
                 !.todo = @ \ {n},
                 !.alerts = @ \cup StorageAlerts(s, n, told),
                 !.hosts[n] = NameFullest(@)])
  BY <1>3a
<1>4. n \in NodesOf(s) /\ n # 0 /\ job[s].hosts[n] \in HostType
  BY <1>2, NotNone
<1> DEFINE told == job[s].hosts[n].listed
           asks == StorageContentQueryable(told.storage, "CONTENT")
           a == IF asks THEN Asked(s, n, "storage_content", http, job[s]) ELSE job[s]
           g == NameFullest(job[s].hosts[n])
           new == StorageAlerts(s, n, told)
           todo == job[s].todo \ {n}
           hosts == [job[s].hosts EXCEPT ![n] = g]
           alerts == job[s].alerts \cup new
<1>5. asks => http \in Nat /\ Request(s, n, "storage_content", http)
  BY <1>3, <1>4, OutcomeType DEF Request, Names
<1>6. /\ a \in JobType(s)
      /\ a.at = "storages" /\ a.left = job[s].left /\ a.todo = job[s].todo /\ a.cur = job[s].cur
      /\ a.hosts = job[s].hosts /\ a.health = job[s].health /\ a.alerts = job[s].alerts
  <2>1. CASE asks
    <3>1. HasAsked(s, n, "storage_content", http, job[s], Asked(s, n, "storage_content", http, job[s]))
      BY <1>2, <1>5, <2>1, AskedType
    <3>2. HasAsked(s, n, "storage_content", http, job[s], a)
      BY <2>1, <3>1
    <3> HIDE DEF a
    <3>3. QED
      BY <1>1, <3>2 DEF HasAsked
  <2>2. CASE ~asks
    BY <1>1, <1>2, <2>2
  <2>3. QED
    BY <2>1, <2>2
<1>7. Proceed(s, Change(a, "storages", job[s].left, todo, job[s].cur, hosts, job[s].health, alerts))
  <2>1. Proceed(s, [a EXCEPT !.todo = a.todo \ {n}, !.alerts = a.alerts \cup new,
                             !.hosts = [a.hosts EXCEPT ![n] = NameFullest(a.hosts[n])]])
    BY <1>3
  <2> HIDE DEF a, new
  <2>2. /\ a.todo \ {n} = todo /\ a.alerts \cup new = alerts
        /\ [a.hosts EXCEPT ![n] = NameFullest(a.hosts[n])] = hosts
    BY <1>6
  <2> HIDE DEF todo, alerts, hosts
  <2>3. Proceed(s, [a EXCEPT !.todo = todo, !.alerts = alerts, !.hosts = hosts])
    BY <2>1, <2>2
  <2>4. QED
    BY <1>6, <2>3 DEF Change, JobType
<1>8. hosts \in [NodesOf(s) -> HostType]
  <2>1. g \in HostType
    BY <1>4, NameFullestIs
  <2>2. QED
    BY <1>2, <1>4, <2>1
<1>9. Fields(s, "storages", job[s].left, todo, job[s].cur, hosts, job[s].health, alerts)
  <2>1. new \subseteq AlertType(s)
    BY <1>4, RaisedType DEF StorageAlerts, AlertType, Names
  <2>2. alerts \in SUBSET AlertType(s) /\ todo \in SUBSET NodesOf(s)
    BY <1>2, <2>1
  <2> HIDE DEF hosts, alerts, todo
  <2>3. QED
    BY <1>2, <1>8, <2>2 DEF Fields, Places
<1>10. todo = job[s].todo \ {n} /\ todo \subseteq Storages
  BY <1>2
<1> HIDE DEF told, g, new, todo, hosts, alerts
<1>11. CASE asks
  <2>1. Proceed(s, Change(Asked(s, n, "storage_content", http, job[s]), "storages", job[s].left,
                          todo, job[s].cur, hosts, job[s].health, alerts))
    BY <1>7, <1>11
  <2> HIDE DEF asks, a
  <2>2. /\ Alone(s) /\ job'[s] \in JobType(s) /\ job'[s].lost = job[s].lost
        /\ job'[s].at = "storages" /\ job'[s].todo = todo /\ job'[s].hosts = hosts
        /\ Entered(s, n, "storage_content", http, job[s], job'[s])
    BY <1>2, <1>5, <1>9, <1>11, <2>1, Asks
  <2>3. JobShape(s, job'[s])
    BY <1>2, <1>8, <1>10, <2>2 DEF JobShape
  <2>4. Logs(s, job[s], job'[s], n, "storage_content", http)
    BY <1>1, <1>4, <1>10, <2>2, StorageLogs
  <2>5. LogOK(job'[s])
    BY <1>1, <1>2, <1>5, <1>11, <2>4, LogsOK
  <2>6. QED
    BY <2>2, <2>3, <2>5 DEF Kept, JobLog
<1>12. CASE ~asks
  <2>1. Proceed(s, Change(job[s], "storages", job[s].left, todo, job[s].cur, hosts,
                          job[s].health, alerts))
    BY <1>7, <1>12
  <2> HIDE DEF asks, a
  <2>2. /\ Alone(s) /\ job'[s] \in JobType(s) /\ job'[s].lost = job[s].lost
        /\ job'[s].at = "storages" /\ job'[s].todo = todo /\ job'[s].hosts = hosts
        /\ job'[s].caps = job[s].caps /\ job'[s].down = job[s].down
    BY <1>2, <1>9, <2>1, Changes
  <2>3. JobShape(s, job'[s])
    BY <1>2, <1>8, <1>10, <2>2 DEF JobShape
  <2>4. Onward(job[s], job'[s])
    BY <1>1, <1>10, <2>2 DEF Onward, Sent
  <2>5. QED
    BY <1>1, <2>2, <2>3, <2>4, QuietOK DEF Kept, JobLog
<1>13. QED
  BY <1>11, <1>12

\* A request about a guest is sent once.
LEMMA GuestOnce ==
  ASSUME NEW left \in Seq(Names), Len(left) \in 1..5, Rest(GuestRequests, left),
         NEW s, NEW n, NEW guest, NEW rest, rest = GuestRest(s, n, left, guest)
  PROVE  /\ Head(left) \in ToSet(left) /\ Head(left) \in ToSet(GuestRequests)
         /\ Head(left) \notin ToSet(rest) /\ ToSet(rest) \subseteq ToSet(left)
<1>1. /\ GuestRequests \in Seq(Names) /\ Len(GuestRequests) = 5
      /\ \A x, y \in 1..Len(GuestRequests) : GuestRequests[x] = GuestRequests[y] => x = y
  BY Lists, ListsApart
<1>2. /\ Head(left) \in ToSet(left) /\ Head(left) \in ToSet(GuestRequests)
      /\ Head(left) \notin ToSet(Tail(left)) /\ ToSet(Tail(left)) \subseteq ToSet(left)
  BY <1>1, HeadOnce
<1>3. rest = <<>> \/ rest = Tail(left)
  BY DEF GuestRest
<1>4. ToSet(<<>>) = {}
  BY DEF ToSet
<1>5. QED
  BY <1>2, <1>3, <1>4

LEMMA GuestLogs ==
  ASSUME NEW s, NEW j, NEW i, NEW n, NEW http, NEW name, NEW rest, n # 0,
         Entered(s, n, name, http, j, i), j.at = "guest", n = j.cur, n \notin j.todo,
         name \in ToSet(GuestRequests), name \in ToSet(j.left), name \notin ToSet(rest),
         ToSet(rest) \subseteq ToSet(j.left),
         i.at \in {"guests", "guest"}, i.left = rest, i.todo = j.todo, i.cur = n
  PROVE  Logs(s, j, i, n, name, http)
<1>1. name \notin ToSet(NodeRequests) /\ name # "storage_content"
  BY ListsApart
<1>2. ~Sent(j, n, name) /\ Sent(i, n, name)
  BY <1>1 DEF Sent
<1>3. Onward(j, i)
  BY DEF Onward, Sent
<1>4. QED
  BY <1>2, <1>3 DEF Logs

LEMMA GuestAfterType ==
  ASSUME Setting, NEW s \in Sources, NEW n \in NodesOf(s), NEW name, NEW http,
         NEW h \in HostType, h = job[s].hosts[n],
         NEW guest, guest = GuestAfter(s, n, name, http), NEW g, g = WithGuest(h, guest)
  PROVE  g \in HostType
<1>1. node[n] \in NodeWorld
  BY WorldTyped DEF NodesOf
<1>2. node[n].guest \in Texts \cup {"GONE"}
  BY <1>1 DEF NodeWorld
<1>3. h.listed \in ListedType
  BY DEF HostType
<1>4. guest \in Texts \cup {"GONE"}
  BY <1>2, <1>3 DEF GuestAfter, ListedType
<1> DEFINE listed == [h.listed EXCEPT !.guest = guest]
<1>5. listed \in ListedType
  BY <1>3, <1>4 DEF ListedType
<1>6. g = [h EXCEPT !.listed = listed]
  BY DEF WithGuest
<1> HIDE DEF listed
<1>7. QED
  BY <1>5, <1>6 DEF HostType

LEMMA ReadGuestKept ==
  ASSUME Setting, NEW s \in Sources, JobLog(s, job[s]), ReadGuest(s)
  PROVE  Kept(s)
<1>1. job[s].at = "guest" /\ JobShape(s, job[s]) /\ LogOK(job[s])
  BY DEF ReadGuest, JobLog
<1>2. /\ job[s] \in JobType(s) /\ ~job[s].lost /\ job[s].hosts \in [NodesOf(s) -> HostType]
      /\ job[s].left \in Seq(Names) /\ job[s].todo \in SUBSET NodesOf(s)
      /\ job[s].alerts \in SUBSET AlertType(s) /\ job[s].health \in Health
      /\ job[s].cur \in (NodesOf(s) \cap Guests) \ job[s].todo /\ job[s].todo \subseteq Guests
      /\ Len(job[s].left) \in 1..5 /\ Rest(GuestRequests, job[s].left)
  BY <1>1, UnderWay DEF JobShape
<1> DEFINE n == job[s].cur
           name == Head(job[s].left)
<1>3. PICK http \in GuestOutcomes(n) :
        LET guest == GuestAfter(s, n, name, http)
            j == Asked(s, n, name, http, job[s])
            rest == GuestRest(s, n, j.left, guest)
        IN  Proceed(s, [j EXCEPT
                !.left = rest,
                !.at = IF rest = <<>> THEN "guests" ELSE @,
                !.hosts[n].listed.guest = guest,
                !.alerts = IF rest = <<>> /\ guest # "RUNNING"
                           THEN @ \cup {Alert(s, n, "guest_status", "warning")} ELSE @])
  BY DEF ReadGuest
<1> DEFINE guest == GuestAfter(s, n, name, http)
           a == Asked(s, n, name, http, job[s])
           rest == GuestRest(s, n, job[s].left, guest)
           g == [job[s].hosts[n] EXCEPT !.listed.guest = guest]
           at == IF rest = <<>> THEN "guests" ELSE "guest"
           hosts == [job[s].hosts EXCEPT ![n] = g]
           alerts == IF rest = <<>> /\ guest # "RUNNING"
                     THEN job[s].alerts \cup {Alert(s, n, "guest_status", "warning")}
                     ELSE job[s].alerts
<1>4. http \in Nat /\ n \in NodesOf(s) \cap Guests /\ n \notin job[s].todo /\ n # 0
  BY <1>2, <1>3, GuestThere, NotNone
<1>5. /\ name \in Names /\ rest \in Seq(Names)
      /\ rest # <<>> => Len(rest) \in 1..5 /\ Rest(GuestRequests, rest)
      /\ name \in ToSet(job[s].left) /\ name \in ToSet(GuestRequests)
      /\ name \notin ToSet(rest) /\ ToSet(rest) \subseteq ToSet(job[s].left)
  <2>1. PICK q, r : q = job[s].left /\ r = rest
    OBVIOUS
  <2>2. q \in Seq(Names) /\ Len(q) \in 1..5 /\ Rest(GuestRequests, q) /\ r = GuestRest(s, n, q, guest)
    BY <1>2, <2>1
  <2> HIDE DEF n, guest
  <2>3. /\ Head(q) \in Names /\ r \in Seq(Names)
        /\ r # <<>> => Len(r) \in 1..5 /\ Rest(GuestRequests, r)
    BY <2>2, GuestRequestsLeft
  <2>4. /\ Head(q) \in ToSet(q) /\ Head(q) \in ToSet(GuestRequests)
        /\ Head(q) \notin ToSet(r) /\ ToSet(r) \subseteq ToSet(q)
    BY <2>2, GuestOnce
  <2>5. QED
    BY <2>1, <2>3, <2>4
<1>6. Request(s, n, name, http)
  BY <1>4, <1>5 DEF Request
<1>7. /\ a \in JobType(s)
      /\ a.at = job[s].at /\ a.left = job[s].left /\ a.todo = job[s].todo /\ a.cur = job[s].cur
      /\ a.hosts = job[s].hosts /\ a.health = job[s].health /\ a.alerts = job[s].alerts
  <2>1. job[s] \in JobType(s) /\ Request(s, n, name, http)
    BY <1>2, <1>6
  <2> HIDE DEF n, name
  <2>2. HasAsked(s, n, name, http, job[s], a)
    BY <2>1, AskedType
  <2> HIDE DEF a
  <2>3. QED
    BY <2>2 DEF HasAsked
<1>8. g \in HostType
  <2>1. PICK h, x, y : h = job[s].hosts[n] /\ x = guest /\ y = WithGuest(h, x)
    OBVIOUS
  <2>2. g = y /\ h \in HostType
    BY <1>2, <1>4, <2>1 DEF WithGuest
  <2> HIDE DEF n, name, g
  <2>3. x = GuestAfter(s, n, name, http)
    BY <2>1
  <2> HIDE DEF guest
  <2>4. y \in HostType
    BY <1>4, <2>1, <2>2, <2>3, GuestAfterType
  <2>5. QED
    BY <2>2, <2>4
<1>9. Proceed(s, Change(a, at, rest, job[s].todo, n, hosts, job[s].health, alerts))
  <2> DEFINE told == IF GuestRest(s, n, a.left, guest) = <<>> /\ guest # "RUNNING"
                     THEN a.alerts \cup {Alert(s, n, "guest_status", "warning")} ELSE a.alerts
  <2>1. Proceed(s, [a EXCEPT
                !.left = GuestRest(s, n, a.left, guest),
                !.at = IF GuestRest(s, n, a.left, guest) = <<>> THEN "guests" ELSE a.at,
                !.hosts = [a.hosts EXCEPT ![n] = [a.hosts[n] EXCEPT !.listed.guest = guest]],
                !.alerts = told])
    BY <1>3
  <2> HIDE DEF n, name, a, guest
  <2>2. told = alerts
    BY <1>7
  <2> HIDE DEF told
  <2>3. /\ GuestRest(s, n, a.left, guest) = rest
        /\ [a.hosts EXCEPT ![n] = [a.hosts[n] EXCEPT !.listed.guest = guest]] = hosts
        /\ at = IF GuestRest(s, n, a.left, guest) = <<>> THEN "guests" ELSE a.at
    BY <1>1, <1>7
  <2> HIDE DEF rest, hosts, alerts, at, g
  <2>4. Proceed(s, Learnt(a, at, rest, hosts, alerts))
    BY <2>1, <2>2, <2>3 DEF Learnt
  <2>5. Learnt(a, at, rest, hosts, alerts)
          = Change(a, at, rest, job[s].todo, n, hosts, job[s].health, alerts)
    BY <1>7, LearntIs DEF n
  <2>6. QED
    BY <2>4, <2>5
<1> HIDE DEF n, name, guest, a, rest, g
<1>10. hosts \in [NodesOf(s) -> HostType]
  BY <1>2, <1>4, <1>8
<1>11. Fields(s, at, rest, job[s].todo, n, hosts, job[s].health, alerts)
  <2>1. Alert(s, n, "guest_status", "warning") \in AlertType(s)
    BY <1>4 DEF Alert, AlertType, Names, Severities
  <2>2. alerts \in SUBSET AlertType(s)
    BY <1>2, <2>1
  <2>3. at \in Places
    BY DEF Places
  <2> HIDE DEF hosts, alerts, at
  <2>4. QED
    BY <1>2, <1>4, <1>5, <1>10, <2>2, <2>3 DEF Fields
<1>12. at \in {"guest", "guests"} /\ (at = "guest" => rest # <<>>)
  OBVIOUS
<1> HIDE DEF at, hosts, alerts
<1>13. /\ Alone(s) /\ job'[s] \in JobType(s) /\ job'[s].lost = job[s].lost
       /\ job'[s].at = at /\ job'[s].left = rest /\ job'[s].todo = job[s].todo /\ job'[s].cur = n
       /\ job'[s].hosts = hosts
       /\ Entered(s, n, name, http, job[s], job'[s])
  <2>1. Proceed(s, Change(Asked(s, n, name, http, job[s]), at, rest, job[s].todo, n, hosts,
                          job[s].health, alerts))
    BY <1>9 DEF a
  <2>2. QED
    BY <1>2, <1>6, <1>11, <2>1, Asks
<1>14. JobShape(s, job'[s])
  <2>1. n \in (NodesOf(s) \cap Guests) \ job[s].todo
    BY <1>4
  <2>2. QED
    BY <1>2, <1>5, <1>10, <1>12, <1>13, <2>1 DEF JobShape
<1>15. LogOK(job'[s])
  <2>1. n = job[s].cur
    BY DEF n
  <2>2. Logs(s, job[s], job'[s], n, name, http)
    BY <1>1, <1>4, <1>5, <1>12, <1>13, <2>1, GuestLogs
  <2>3. QED
    BY <1>1, <1>2, <1>4, <2>2, LogsOK
<1>16. QED
  BY <1>13, <1>14, <1>15 DEF Kept, JobLog

LEMMA ReplicationLogs ==
  ASSUME NEW s, NEW j, NEW i, NEW http, NEW name, Entered(s, 0, name, http, j, i),
         \/ name = "replication" /\ j.at = "guests" /\ i.at \in {"replication", "tasks"}
         \/ name = "replication_status" /\ j.at = "replication" /\ i.at = "tasks"
  PROVE  Logs(s, j, i, 0, name, http)
<1>1. name \notin ToSet(SourceRequests)
  BY ListsApart
<1>2. ~Sent(j, 0, name) /\ Sent(i, 0, name)
  BY <1>1 DEF Sent
<1>3. Onward(j, i)
  BY DEF Onward, Sent
<1>4. QED
  BY <1>2, <1>3 DEF Logs

LEMMA ReadReplicationKept ==
  ASSUME Setting, NEW s \in Sources, JobLog(s, job[s]), ReadReplication(s)
  PROVE  Kept(s)
<1>1. job[s].at = "guests" /\ JobShape(s, job[s]) /\ LogOK(job[s])
  BY DEF ReadReplication, JobLog
<1>2. /\ job[s] \in JobType(s) /\ ~job[s].lost /\ job[s].hosts \in [NodesOf(s) -> HostType]
      /\ job[s].left \in Seq(Names) /\ job[s].cur \in NodesOf(s) \cup {0}
      /\ job[s].alerts \in SUBSET AlertType(s) /\ job[s].health \in Health
  BY <1>1, UnderWay
<1>3. PICK http \in Outcomes :
        Proceed(s, [Asked(s, 0, "replication", http, job[s]) EXCEPT
            !.at = IF http = 200 THEN "replication" ELSE "tasks",
            !.todo = IF http = 200 THEN {} ELSE NodesOf(s)])
  BY DEF ReadReplication
<1> DEFINE a == Asked(s, 0, "replication", http, job[s])
           at == IF http = 200 THEN "replication" ELSE "tasks"
           todo == IF http = 200 THEN {} ELSE NodesOf(s)
<1>4. Request(s, 0, "replication", http) /\ http \in Nat
  BY OutcomeType DEF Request, Names
<1>5. HasAsked(s, 0, "replication", http, job[s], a)
  BY <1>2, <1>4, AskedType
<1>6. Fields(s, at, job[s].left, todo, job[s].cur, job[s].hosts, job[s].health, job[s].alerts)
  BY <1>2 DEF Fields, Places
<1>7. Proceed(s, Change(a, at, job[s].left, todo, job[s].cur, job[s].hosts, job[s].health,
                        job[s].alerts))
  <2>1. Proceed(s, Elsewhere(a, at, todo))
    BY <1>3 DEF Elsewhere
  <2> HIDE DEF a, at, todo
  <2>2. /\ a \in JobType(s) /\ a.left = job[s].left /\ a.cur = job[s].cur
        /\ a.hosts = job[s].hosts /\ a.health = job[s].health /\ a.alerts = job[s].alerts
    BY <1>5 DEF HasAsked
  <2>3. Elsewhere(a, at, todo)
          = Change(a, at, job[s].left, todo, job[s].cur, job[s].hosts, job[s].health, job[s].alerts)
    BY <2>2, ElsewhereIs
  <2>4. QED
    BY <2>1, <2>3
<1>8. at \in {"replication", "tasks"}
  OBVIOUS
<1> HIDE DEF at, todo
<1>9. /\ Alone(s) /\ job'[s] \in JobType(s) /\ job'[s].lost = job[s].lost
      /\ job'[s].at = at /\ job'[s].hosts = job[s].hosts
      /\ Entered(s, 0, "replication", http, job[s], job'[s])
  BY <1>2, <1>4, <1>6, <1>7, Asks
<1>10. JobShape(s, job'[s])
  BY <1>2, <1>8, <1>9 DEF JobShape
<1>11. LogOK(job'[s])
  <2>1. Logs(s, job[s], job'[s], 0, "replication", http)
    BY <1>1, <1>8, <1>9, ReplicationLogs
  <2>2. QED
    BY <1>1, <1>2, <1>4, <2>1, LogsOK
<1>12. QED
  BY <1>9, <1>10, <1>11 DEF Kept, JobLog

LEMMA ReadReplicationStatusKept ==
  ASSUME Setting, NEW s \in Sources, JobLog(s, job[s]), ReadReplicationStatus(s)
  PROVE  Kept(s)
<1>1. job[s].at = "replication" /\ JobShape(s, job[s]) /\ LogOK(job[s])
  BY DEF ReadReplicationStatus, JobLog
<1>2. /\ job[s] \in JobType(s) /\ ~job[s].lost /\ job[s].hosts \in [NodesOf(s) -> HostType]
      /\ job[s].left \in Seq(Names) /\ job[s].cur \in NodesOf(s) \cup {0}
      /\ job[s].alerts \in SUBSET AlertType(s) /\ job[s].health \in Health
  BY <1>1, UnderWay
<1>3. PICK http \in Outcomes :
        Proceed(s, [Asked(s, 0, "replication_status", http, job[s]) EXCEPT
                !.at = "tasks", !.todo = NodesOf(s),
                !.health = MaxHealth(@, ReplicationVerdict(s, http)),
                !.alerts = @ \cup Raised(s, 0, "replication", ReplicationVerdict(s, http))])
  BY DEF ReadReplicationStatus, ReplicationVerdict
<1> DEFINE a == Asked(s, 0, "replication_status", http, job[s])
           h == ReplicationVerdict(s, http)
           new == Raised(s, 0, "replication", h)
           health == MaxHealth(job[s].health, h)
           alerts == job[s].alerts \cup new
           todo == NodesOf(s)
<1>4. Request(s, 0, "replication_status", http) /\ http \in Nat
  BY OutcomeType DEF Request, Names
<1>5. HasAsked(s, 0, "replication_status", http, job[s], a)
  BY <1>2, <1>4, AskedType
<1>6. h \in Health
  BY VerdictType DEF ReplicationVerdict
<1>7. Proceed(s, Change(a, "tasks", job[s].left, todo, job[s].cur, job[s].hosts, health, alerts))
  <2>1. Proceed(s, [a EXCEPT !.at = "tasks", !.todo = NodesOf(s), !.health = MaxHealth(a.health, h),
                             !.alerts = a.alerts \cup new])
    BY <1>3
  <2> HIDE DEF a, h, new
  <2>2. MaxHealth(a.health, h) = health /\ a.alerts \cup new = alerts
    BY <1>5 DEF HasAsked
  <2> HIDE DEF health, alerts, todo
  <2>3. Proceed(s, Judged(a, "tasks", todo, health, alerts))
    BY <2>1, <2>2 DEF Judged, todo
  <2>4. /\ a \in JobType(s) /\ a.left = job[s].left /\ a.cur = job[s].cur
        /\ a.hosts = job[s].hosts
    BY <1>5 DEF HasAsked
  <2>5. Judged(a, "tasks", todo, health, alerts)
          = Change(a, "tasks", job[s].left, todo, job[s].cur, job[s].hosts, health, alerts)
    BY <2>4, JudgedIs
  <2>6. QED
    BY <2>3, <2>5
<1> HIDE DEF h
<1>8. Fields(s, "tasks", job[s].left, todo, job[s].cur, job[s].hosts, health, alerts)
  <2>1. health \in Health
    BY <1>2, <1>6 DEF MaxHealth
  <2>2. alerts \in SUBSET AlertType(s)
    BY <1>2, RaisedType DEF AlertType, Names
  <2> HIDE DEF health, alerts
  <2>3. QED
    BY <1>2, <2>1, <2>2 DEF Fields, Places
<1> HIDE DEF new, alerts, todo, health
<1>9. /\ Alone(s) /\ job'[s] \in JobType(s) /\ job'[s].lost = job[s].lost
      /\ job'[s].at = "tasks" /\ job'[s].hosts = job[s].hosts
      /\ Entered(s, 0, "replication_status", http, job[s], job'[s])
  BY <1>2, <1>4, <1>7, <1>8, Asks
<1>10. JobShape(s, job'[s])
  BY <1>2, <1>9 DEF JobShape
<1>11. LogOK(job'[s])
  <2>1. Logs(s, job[s], job'[s], 0, "replication_status", http)
    BY <1>1, <1>9, ReplicationLogs
  <2>2. QED
    BY <1>1, <1>2, <1>4, <2>1, LogsOK
<1>12. QED
  BY <1>9, <1>10, <1>11 DEF Kept, JobLog

LEMMA TasksLogs ==
  ASSUME NEW s, NEW j, NEW i, NEW n, NEW http, Entered(s, n, "tasks", http, j, i),
         j.at = "tasks", i.at = "tasks"
  PROVE  Logs(s, j, i, n, "tasks", http)
<1>1. "tasks" \notin ToSet(Logged)
  BY DEF ToSet, Logged
<1>2. Onward(j, i)
  BY DEF Onward, Sent
<1>3. QED
  BY <1>1, <1>2 DEF Logs

LEMMA ReadTasksKept ==
  ASSUME Setting, NEW s \in Sources, JobLog(s, job[s]), ReadTasks(s)
  PROVE  Kept(s)
<1>1. job[s].at = "tasks" /\ JobShape(s, job[s]) /\ LogOK(job[s])
  BY DEF ReadTasks, JobLog
<1>2. /\ job[s] \in JobType(s) /\ ~job[s].lost /\ job[s].hosts \in [NodesOf(s) -> HostType]
      /\ job[s].left \in Seq(Names) /\ job[s].cur \in NodesOf(s) \cup {0}
      /\ job[s].alerts \in SUBSET AlertType(s) /\ job[s].health \in Health
      /\ job[s].todo \in SUBSET NodesOf(s)
  BY <1>1, UnderWay
<1>3. PICK n \in job[s].todo, http \in Outcomes :
        Proceed(s, [Asked(s, n, "tasks", http, job[s]) EXCEPT
            !.todo = @ \ {n},
            !.hosts[n].health = MaxHealth(@, NodeVerdict(s, n, "tasks", http)),
            !.alerts = @ \cup NodeAlerts(s, n, "tasks", http)])
  BY DEF ReadTasks
<1>4. n \in NodesOf(s) /\ http \in Nat
  BY <1>2, OutcomeType
<1> DEFINE a == Asked(s, n, "tasks", http, job[s])
           health == MaxHealth(job[s].hosts[n].health, NodeVerdict(s, n, "tasks", http))
           g == WithHealth(job[s].hosts[n], health)
           new == NodeAlerts(s, n, "tasks", http)
           todo == job[s].todo \ {n}
           hosts == [job[s].hosts EXCEPT ![n] = g]
           alerts == job[s].alerts \cup new
<1>5. Request(s, n, "tasks", http)
  BY <1>4 DEF Request, Names
<1>6. HasAsked(s, n, "tasks", http, job[s], a)
  BY <1>2, <1>5, AskedType
<1>7. g \in HostType
  <2>1. job[s].hosts[n] \in HostType
    BY <1>2, <1>4
  <2>2. health \in Health
    BY <2>1, AnyNodeVerdict DEF MaxHealth, HostType
  <2> HIDE DEF health
  <2>3. QED
    BY <2>1, <2>2 DEF WithHealth, HostType
<1>8. Proceed(s, Change(a, "tasks", job[s].left, todo, job[s].cur, hosts, job[s].health, alerts))
  <2>1. Proceed(s, [a EXCEPT !.todo = a.todo \ {n},
                             !.hosts = [a.hosts EXCEPT ![n] = [a.hosts[n] EXCEPT !.health =
                                 MaxHealth(a.hosts[n].health, NodeVerdict(s, n, "tasks", http))]],
                             !.alerts = a.alerts \cup new])
    BY <1>3
  <2> HIDE DEF a, new
  <2>2. /\ a.todo \ {n} = todo /\ a.alerts \cup new = alerts
        /\ [a.hosts EXCEPT ![n] = [a.hosts[n] EXCEPT !.health =
               MaxHealth(a.hosts[n].health, NodeVerdict(s, n, "tasks", http))]] = hosts
    BY <1>6 DEF HasAsked, WithHealth
  <2> HIDE DEF todo, alerts, hosts
  <2>3. Proceed(s, [a EXCEPT !.todo = todo, !.hosts = hosts, !.alerts = alerts])
    BY <2>1, <2>2
  <2>4. QED
    BY <1>1, <1>6, <2>3 DEF HasAsked, Change, JobType
<1> HIDE DEF g
<1>9. hosts \in [NodesOf(s) -> HostType]
  BY <1>2, <1>4, <1>7
<1>10. Fields(s, "tasks", job[s].left, todo, job[s].cur, hosts, job[s].health, alerts)
  <2>1. new \subseteq AlertType(s)
    <3>1. "tasks" \in Names
      BY DEF Names
    <3>2. QED
      BY <1>4, <3>1, NodeAlertsType
  <2>2. alerts \in SUBSET AlertType(s) /\ todo \in SUBSET NodesOf(s)
    BY <1>2, <2>1
  <2> HIDE DEF hosts, alerts, todo
  <2>3. QED
    BY <1>2, <1>9, <2>2 DEF Fields, Places
<1> HIDE DEF todo, hosts, alerts
<1>11. /\ Alone(s) /\ job'[s] \in JobType(s) /\ job'[s].lost = job[s].lost
       /\ job'[s].at = "tasks" /\ job'[s].hosts = hosts
       /\ Entered(s, n, "tasks", http, job[s], job'[s])
  BY <1>2, <1>5, <1>8, <1>10, Asks
<1>12. JobShape(s, job'[s])
  BY <1>2, <1>9, <1>11 DEF JobShape
<1>13. LogOK(job'[s])
  <2>1. Logs(s, job[s], job'[s], n, "tasks", http)
    BY <1>1, <1>11, TasksLogs
  <2>2. QED
    BY <1>1, <1>2, <1>4, <2>1, LogsOK
<1>14. QED
  BY <1>11, <1>12, <1>13 DEF Kept, JobLog

LEMMA FinishKept ==
  ASSUME Setting, NEW s \in Sources, JobLog(s, job[s]), Finish(s)
  PROVE  Kept(s)
<1>1. job[s].at = "tasks" /\ job[s].todo = {} /\ JobShape(s, job[s]) /\ LogOK(job[s])
  BY DEF Finish, JobLog
<1>2. /\ job[s] \in JobType(s) /\ ~job[s].lost /\ job[s].hosts \in [NodesOf(s) -> HostType]
      /\ job[s].left \in Seq(Names) /\ job[s].cur \in NodesOf(s) \cup {0}
      /\ job[s].alerts \in SUBSET AlertType(s) /\ job[s].health \in Health
  BY <1>1, UnderWay
<1> DEFINE hosts == [n \in NodesOf(s) |-> WithHealth(job[s].hosts[n], HostHealth(job[s].hosts[n]))]
           alerts == job[s].alerts \cup Told(s, job[s].hosts)
<1>3. Proceed(s, [job[s] EXCEPT !.at = "done", !.alerts = alerts, !.hosts = hosts])
  BY DEF Finish, Told, WithHealth
<1>4. hosts \in [NodesOf(s) -> HostType]
  <2>1. \A n \in NodesOf(s) : WithHealth(job[s].hosts[n], HostHealth(job[s].hosts[n])) \in HostType
    BY <1>2, HostHealthType DEF WithHealth, HostType
  <2>2. QED
    BY <2>1
<1>5. alerts \in SUBSET AlertType(s)
  <2>1. ASSUME NEW n \in NodesOf(s) PROVE HostAlerts(s, n, job[s].hosts[n]) \subseteq AlertType(s)
    BY RaisedType DEF HostAlerts, AlertType, Names, Severities, Alert
  <2>2. QED
    BY <1>2, <2>1 DEF Told
<1> HIDE DEF hosts, alerts
<1>6. Proceed(s, Change(job[s], "done", job[s].left, {}, job[s].cur, hosts, job[s].health, alerts))
  BY <1>1, <1>2, <1>3 DEF Change, JobType
<1>7. Fields(s, "done", job[s].left, {}, job[s].cur, hosts, job[s].health, alerts)
  BY <1>2, <1>4, <1>5 DEF Fields, Places
<1>8. /\ Alone(s) /\ job'[s] \in JobType(s)
      /\ job'[s].lost = job[s].lost /\ job'[s].down = job[s].down /\ job'[s].caps = job[s].caps
      /\ job'[s].at = "done" /\ job'[s].hosts = hosts
  BY <1>2, <1>6, <1>7, Changes
<1>9. JobShape(s, job'[s])
  BY <1>2, <1>4, <1>8 DEF JobShape
<1>10. Onward(job[s], job'[s])
  BY <1>1, <1>8 DEF Onward, Sent
<1>11. QED
  BY <1>1, <1>8, <1>9, <1>10, QuietOK DEF Kept, JobLog

-----------------------------------------------------------------------------
(***************************************************************************)
(* The merged log, sorted and cut.                                         *)
(***************************************************************************)
Key(c) == <<c.source, c.node, c.name>>

Entry(c) ==
  c.source \in Nat /\ c.node \in Nat /\ c.name \in ToSet(Logged) /\ c.status \in Statuses

Merges(log) ==
  /\ IsFiniteSet(log)
  /\ \A c \in log : Entry(c)
  /\ \A a, b \in log : Key(a) = Key(b) => a = b

\* A strict order puts its elements at ranks without gaps.
Sorts(R, S) ==
  /\ \A a \in S : <<a, a>> \notin R
  /\ \A a, b, c \in S : <<a, b>> \in R /\ <<b, c>> \in R => <<a, c>> \in R
  /\ \A a, b \in S : a # b => <<a, b>> \in R \/ <<b, a>> \in R

Preceding(R, S, x) == {y \in S : <<y, x>> \in R}

LEMMA NoGaps ==
  ASSUME NEW S, IsFiniteSet(S), NEW R, Sorts(R, S), NEW i \in 1..Cardinality(S)
  PROVE  \E x \in S : Cardinality(Preceding(R, S, x)) = i - 1
<1> USE DEF Sorts
<1> DEFINE before(x) == {y \in S : <<y, x>> \in R}
           rank == [x \in S |-> Cardinality(before(x)) + 1]
           n == Cardinality(S)
           D == 1..n
<1>1. n \in Nat
  BY FS_CardinalityType
<1>2. ASSUME NEW x \in S
      PROVE  IsFiniteSet(before(x)) /\ Cardinality(before(x)) \in Nat /\ Cardinality(before(x)) < n
  <2>1. before(x) \subseteq S /\ before(x) # S
    OBVIOUS
  <2> HIDE DEF before
  <2>2. IsFiniteSet(before(x)) /\ Cardinality(before(x)) <= n /\ Cardinality(before(x)) # n
    BY <2>1, FS_Subset
  <2>3. QED
    BY <1>1, <2>2, FS_CardinalityType
<1>3. ASSUME NEW x \in S, NEW y \in S, <<x, y>> \in R
      PROVE  Cardinality(before(x)) < Cardinality(before(y))
  <2>1. before(x) \subseteq before(y) /\ x \in before(y) /\ x \notin before(x)
    BY <1>3
  <2>2. before(x) # before(y)
    BY <2>1
  <2> HIDE DEF before
  <2>3. /\ Cardinality(before(x)) <= Cardinality(before(y))
        /\ Cardinality(before(x)) # Cardinality(before(y))
    BY <1>2, <2>1, <2>2, FS_Subset
  <2>4. QED
    BY <1>2, <2>3
<1>a. i \in D
  OBVIOUS
<1> HIDE DEF before, n
<1>4. rank \in [S -> D] /\ \A x, y \in S : <<x, y>> \in R => rank[x] < rank[y]
  BY <1>1, <1>2, <1>3
<1>5. \A x \in S : rank[x] = Cardinality(before(x)) + 1
  OBVIOUS
<1> HIDE DEF rank
<1>6. \A x, y \in S : x # y => rank[x] # rank[y]
  <2>1. SUFFICES ASSUME NEW x \in S, NEW y \in S, x # y PROVE rank[x] # rank[y]
    OBVIOUS
  <2>2. rank[x] \in Nat /\ rank[y] \in Nat
    BY <1>1, <1>4
  <2>3. <<x, y>> \in R \/ <<y, x>> \in R
    BY <2>1
  <2>4. rank[x] < rank[y] \/ rank[y] < rank[x]
    BY <1>4, <2>3
  <2>5. QED
    BY <2>2, <2>4
<1>7. rank \in Injection(S, D)
  BY <1>4, <1>6 DEF Injection, IsInjective
<1>8. IsFiniteSet(D) /\ Cardinality(D) = n
  BY <1>1, FS_Interval
<1>9. rank \in Surjection(S, D)
  <2>1. Cardinality(S) = Cardinality(D)
    BY <1>8 DEF n
  <2> HIDE DEF D
  <2>2. QED
    BY <1>7, <1>8, <2>1, FS_Injection
<1>10. PICK x \in S : rank[x] = i
  BY <1>a, <1>9 DEF Surjection
<1>11. Cardinality(before(x)) = i - 1
  <2>1. PICK k : k = Cardinality(before(x))
    OBVIOUS
  <2>2. k \in Nat /\ k + 1 = i
    BY <1>2, <1>5, <1>10, <2>1
  <2>3. QED
    BY <2>1, <2>2
<1>12. QED
  BY <1>11 DEF before, Preceding

\* Names have different ranks.
LEMMA NameRanks ==
  ASSUME NEW name \in ToSet(Logged)
  PROVE  NameRank[name] \in Nat /\ Logged[NameRank[name]] = name
<1>1. Len(Logged) = 19 /\ DOMAIN Logged = 1..19
  BY DEF Logged
<1>2. \E i \in 1..Len(Logged) : Logged[i] = name
  BY <1>1 DEF ToSet
<1>3. NameRank[name] = CHOOSE i \in 1..Len(Logged) : Logged[i] = name
  BY DEF NameRank
<1>4. NameRank[name] \in 1..Len(Logged) /\ Logged[NameRank[name]] = name
  BY <1>2, <1>3
<1>5. QED
  BY <1>1, <1>4

LEMMA Urgencies ==
  \A status \in Statuses : CapabilityRank(status) \in Nat /\ (status # "ok" => CapabilityRank(status) > 1)
BY DEF Statuses, CapabilityRank

\* The order of the capability list.
LEMMA UrgentOrder ==
  ASSUME NEW log, Merges(log)
  PROVE  /\ \A a \in log : ~MoreUrgent(a, a)
         /\ \A a, b, c \in log : MoreUrgent(a, b) /\ MoreUrgent(b, c) => MoreUrgent(a, c)
         /\ \A a, b \in log : a # b => MoreUrgent(a, b) \/ MoreUrgent(b, a)
         /\ \A a, b \in log : Failed(a) /\ ~Failed(b) => MoreUrgent(a, b)
<1> DEFINE Less(u, v, p, q, x, y, m, n) ==
             u > v \/ (u = v /\ (p < q \/ (p = q /\ x < y) \/ (p = q /\ x = y /\ m < n)))
<1>1. \A c \in log : /\ Urgency(c) \in Nat /\ c.source \in Nat /\ c.node \in Nat
                     /\ NameRank[c.name] \in Nat /\ Logged[NameRank[c.name]] = c.name
  BY NameRanks, Urgencies DEF Merges, Entry, Urgency
<1>2. \A a, b \in log : MoreUrgent(a, b) <=>
        Less(Urgency(a), Urgency(b), a.source, b.source, NameRank[a.name], NameRank[b.name],
             a.node, b.node)
  <2>1. \A a, b \in log : a.name = b.name <=> NameRank[a.name] = NameRank[b.name]
    BY <1>1
  <2>2. QED
    BY <2>1 DEF MoreUrgent, Before
<1>3. \A u, p, x, m \in Nat : ~Less(u, u, p, p, x, x, m, m)
  OBVIOUS
<1>4. \A u, v, p, q, x, y, m, n \in Nat :
        ~(p = q /\ x = y /\ m = n) => Less(u, v, p, q, x, y, m, n) \/ Less(v, u, q, p, y, x, n, m)
  OBVIOUS
<1> HIDE DEF Less
<1>5. \A a \in log : ~MoreUrgent(a, a)
  BY <1>1, <1>2, <1>3
<1>6. ASSUME NEW a \in log, NEW b \in log, NEW c \in log, MoreUrgent(a, b), MoreUrgent(b, c)
      PROVE  MoreUrgent(a, c)
  <2>1. /\ Less(Urgency(a), Urgency(b), a.source, b.source, NameRank[a.name], NameRank[b.name],
                a.node, b.node)
        /\ Less(Urgency(b), Urgency(c), b.source, c.source, NameRank[b.name], NameRank[c.name],
                b.node, c.node)
    BY <1>2, <1>6
  <2>2. PICK u, v, w, p, q, r, x, y, z, m, n, o :
          /\ u = Urgency(a) /\ v = Urgency(b) /\ w = Urgency(c)
          /\ p = a.source /\ q = b.source /\ r = c.source
          /\ x = NameRank[a.name] /\ y = NameRank[b.name] /\ z = NameRank[c.name]
          /\ m = a.node /\ n = b.node /\ o = c.node
    OBVIOUS
  <2>3. /\ u \in Nat /\ v \in Nat /\ w \in Nat /\ p \in Nat /\ q \in Nat /\ r \in Nat
        /\ x \in Nat /\ y \in Nat /\ z \in Nat /\ m \in Nat /\ n \in Nat /\ o \in Nat
    BY <1>1, <2>2
  <2>4. Less(u, v, p, q, x, y, m, n) /\ Less(v, w, q, r, y, z, n, o)
    BY <2>1, <2>2
  <2>5. Less(u, w, p, r, x, z, m, o)
    BY <2>3, <2>4 DEF Less
  <2>6. QED
    BY <1>2, <2>2, <2>5
<1>7. ASSUME NEW a \in log, NEW b \in log, a # b
      PROVE  MoreUrgent(a, b) \/ MoreUrgent(b, a)
  <2>1. ~(a.source = b.source /\ NameRank[a.name] = NameRank[b.name] /\ a.node = b.node)
    <3>1. SUFFICES ASSUME a.source = b.source, NameRank[a.name] = NameRank[b.name], a.node = b.node
                   PROVE  FALSE
      OBVIOUS
    <3>2. a.name = b.name
      BY <1>1, <3>1
    <3>3. Key(a) = Key(b)
      BY <3>1, <3>2 DEF Key
    <3>4. QED
      BY <1>7, <3>3 DEF Merges
  <2>2. \/ Less(Urgency(a), Urgency(b), a.source, b.source, NameRank[a.name], NameRank[b.name],
                a.node, b.node)
        \/ Less(Urgency(b), Urgency(a), b.source, a.source, NameRank[b.name], NameRank[a.name],
                b.node, a.node)
    BY <1>1, <1>4, <2>1
  <2>3. QED
    BY <1>2, <2>2
<1>8. ASSUME NEW a \in log, NEW b \in log, Failed(a), ~Failed(b)
       PROVE  MoreUrgent(a, b)
  <2>1. Urgency(a) > 1 /\ Urgency(b) = 1
    BY <1>8, Urgencies DEF Merges, Entry, Urgency, Failed, CapabilityRank
  <2>2. QED
    BY <2>1 DEF MoreUrgent
<1>9. QED
  BY <1>5, <1>6, <1>7, <1>8

\* The list of a display: its i-th entry has i - 1 more urgent ones in the log.
LEMMA PrioritizedIs ==
  ASSUME NEW log, Merges(log), NEW q, q = Prioritized(log)
  PROVE  /\ Len(q) \in Nat /\ Len(q) <= MaxDetail
         /\ \A i \in 1..Cardinality(log) : i <= MaxDetail =>
              q[i] \in log /\ Cardinality({c \in log : MoreUrgent(c, q[i])}) = i - 1
<1> DEFINE before(x) == {c \in log : MoreUrgent(c, x)}
           n == IF Cardinality(log) < MaxDetail THEN Cardinality(log) ELSE MaxDetail
<1>1. q = [i \in 1..n |-> CHOOSE x \in log : Cardinality(before(x)) = i - 1]
  BY DEF Prioritized, FirstN, Ahead
<1>2. n \in Nat /\ n <= MaxDetail /\ Cardinality(log) \in Nat /\ MaxDetail \in Nat
  BY CollectorAssumption, FS_CardinalityType DEF Merges
<1>3. ASSUME NEW i \in 1..Cardinality(log)
      PROVE  \E x \in log : Cardinality(before(x)) = i - 1
  <2> DEFINE R == {p \in log \X log : MoreUrgent(p[1], p[2])}
  <2>1. \A a, b \in log : <<a, b>> \in R <=> MoreUrgent(a, b)
    OBVIOUS
  <2>2. \A x \in log : before(x) = Preceding(R, log, x)
    BY <2>1 DEF Preceding
  <2> HIDE DEF R
  <2>3. IsFiniteSet(log)
    BY DEF Merges
  <2>4. Sorts(R, log)
    BY <2>1, UrgentOrder DEF Sorts
  <2>5. \E x \in log : Cardinality(Preceding(R, log, x)) = i - 1
    BY <2>3, <2>4, NoGaps
  <2>6. QED
    BY <2>2, <2>5
<1> HIDE DEF before, n
<1>4. Len(q) = n
  BY <1>1, <1>2
<1>5. ASSUME NEW i \in 1..Cardinality(log), i <= MaxDetail
      PROVE  q[i] \in log /\ Cardinality(before(q[i])) = i - 1
  <2>1. i \in 1..n
    BY <1>2, <1>5 DEF n
  <2>2. q[i] = CHOOSE x \in log : Cardinality(before(x)) = i - 1
    BY <1>1, <2>1
  <2>3. QED
    BY <1>3, <2>2
<1>6. QED
  BY <1>2, <1>4, <1>5 DEF before

\* The entries of one source.
LEMMA EntriesCounted ==
  ASSUME NEW T, NEW q \in Seq(T)
  PROVE  /\ IsFiniteSet(ToSet(q))
         /\ \A c \in ToSet(q) : \E i \in 1..Len(q) : q[i] = c
         /\ \A i \in 1..Len(q) : q[i] \in ToSet(q)
         /\ Distinct(q) => Cardinality(ToSet(q)) = Len(q)
<1> DEFINE D == 1..Len(q)
<1>1. Len(q) \in Nat /\ DOMAIN q = D
  OBVIOUS
<1>2. /\ \A c \in ToSet(q) : \E i \in D : q[i] = c
      /\ \A i \in D : q[i] \in ToSet(q)
  BY <1>1 DEF ToSet
<1>3. IsFiniteSet(D) /\ Cardinality(D) = Len(q)
  BY <1>1, FS_Interval
<1> DEFINE f == [i \in D |-> q[i]]
<1> HIDE DEF D
<1>4. f \in Surjection(D, ToSet(q))
  BY <1>2 DEF Surjection
<1>5. ASSUME Distinct(q) PROVE f \in Injection(D, ToSet(q))
  <2>1. \A i, k \in D : q[i] = q[k] => i = k
    BY <1>5 DEF Distinct, D
  <2>2. QED
    BY <1>2, <2>1 DEF Injection, IsInjective
<1> HIDE DEF f
<1>6. /\ IsFiniteSet(ToSet(q))
      /\ Cardinality(ToSet(q)) = Cardinality(D) <=> f \in Injection(D, ToSet(q))
  BY <1>3, <1>4, FS_Surjection
<1>7. QED
  BY <1>2, <1>3, <1>5, <1>6 DEF D

\* The logs of all sources.
LEMMA MergedLogs ==
  ASSUME NEW jobs, \A s \in Sources : JobLog(s, jobs[s]), NEW log, log = MergedLog(jobs)
  PROVE  /\ Merges(log)
         /\ \A c \in log : \E s \in Sources :
              c.source = s /\ c \in ToSet(jobs[s].caps) /\ EntryOK(jobs[s], c)
         /\ \A s \in Sources : /\ jobs[s].caps \in Seq(CapType(s))
                               /\ ToSet(jobs[s].caps) \subseteq log
<1> DEFINE C == [s \in Sources |-> ToSet(jobs[s].caps)]
           all == {C[s] : s \in Sources}
<1>1. log = UNION all
  BY DEF MergedLog
<1>2. ASSUME NEW s \in Sources
      PROVE  /\ jobs[s].caps \in Seq(CapType(s)) /\ Distinct(jobs[s].caps)
             /\ \A i \in 1..Len(jobs[s].caps) : EntryOK(jobs[s], jobs[s].caps[i])
  BY DEF JobLog, JobShape, JobType, LogOK
<1>3. \A s \in Sources : IsFiniteSet(C[s])
  BY <1>2, EntriesCounted
<1>4. IsFiniteSet(log)
  <2>1. C \in Surjection(Sources, all)
    BY DEF Surjection
  <2>2. IsFiniteSet(Sources)
    BY CollectorAssumption
  <2>3. \A T \in all : IsFiniteSet(T)
    BY <1>3
  <2> HIDE DEF all, C
  <2>4. IsFiniteSet(all)
    BY <2>1, <2>2, FS_Surjection
  <2>5. QED
    BY <1>1, <2>3, <2>4, FS_UNION
<1>5. ASSUME NEW c \in log
      PROVE  \E s \in Sources : /\ c.source = s /\ c \in ToSet(jobs[s].caps) /\ EntryOK(jobs[s], c)
                                /\ c \in CapType(s)
  <2>1. PICK s \in Sources : c \in ToSet(jobs[s].caps)
    BY <1>1
  <2>2. PICK q : q = jobs[s].caps /\ q \in Seq(CapType(s))
    BY <1>2
  <2>3. PICK i \in 1..Len(q) : q[i] = c
    BY <2>1, <2>2, EntriesCounted
  <2>4. c \in CapType(s) /\ EntryOK(jobs[s], c)
    BY <1>2, <2>2, <2>3
  <2>5. QED
    BY <2>1, <2>4 DEF CapType
<1>6. ASSUME NEW c \in log PROVE Entry(c)
  <2>1. PICK s \in Sources : c.source = s /\ EntryOK(jobs[s], c) /\ c \in CapType(s)
    BY <1>5
  <2>2. s \in Nat /\ \A n \in NodesOf(s) \cup {0} : n \in Nat
    BY CollectorAssumption DEF NodesOf
  <2>3. QED
    BY <2>1, <2>2 DEF Entry, EntryOK, CapType
<1>7. ASSUME NEW a \in log, NEW b \in log, Key(a) = Key(b) PROVE a = b
  <2>1. a.source = b.source /\ a.node = b.node /\ a.name = b.name
    BY <1>7 DEF Key
  <2>2. PICK s \in Sources : a.source = s /\ a \in ToSet(jobs[s].caps)
    BY <1>5
  <2>3. b \in ToSet(jobs[s].caps)
    BY <1>5, <2>1, <2>2
  <2>4. PICK q : q = jobs[s].caps /\ q \in Seq(CapType(s)) /\ Distinct(q)
    BY <1>2
  <2>5. PICK i \in 1..Len(q), k \in 1..Len(q) : q[i] = a /\ q[k] = b
    BY <2>2, <2>3, <2>4, EntriesCounted
  <2>6. i = k
    BY <2>1, <2>4, <2>5 DEF Distinct
  <2>7. QED
    BY <2>5, <2>6
<1>8. \A s \in Sources : ToSet(jobs[s].caps) \subseteq log
  BY <1>1
<1>9. QED
  BY <1>2, <1>4, <1>5, <1>6, <1>7, <1>8 DEF Merges

\* The failures of a merge, and the log that takes them all when it is not full.
DownOf(jobs) == UNION {{<<s, d[1], d[2]>> : d \in jobs[s].down} : s \in Sources}

ToldFailures(log, logged) ==
  /\ \A c \in log : Failed(c) => Key(c) \in logged
  /\ \A d \in logged : \E c \in log : Failed(c) /\ Key(c) = d

LEMMA FailuresLogged ==
  ASSUME NEW jobs, \A s \in Sources : JobLog(s, jobs[s]), NEW log, log = MergedLog(jobs),
         Cardinality(log) < MaxCapabilities,
         NEW logged, logged = {d \in DownOf(jobs) : d[3] \in ToSet(Logged)}
  PROVE  ToldFailures(log, logged)
<1>1. /\ Merges(log)
      /\ \A c \in log : \E s \in Sources :
           c.source = s /\ c \in ToSet(jobs[s].caps) /\ EntryOK(jobs[s], c)
      /\ \A s \in Sources : jobs[s].caps \in Seq(CapType(s)) /\ ToSet(jobs[s].caps) \subseteq log
  BY MergedLogs
<1>2. ASSUME NEW c \in log, Failed(c) PROVE Key(c) \in logged
  <2>1. PICK s \in Sources : c.source = s /\ EntryOK(jobs[s], c)
    BY <1>1
  <2>2. PICK d : d = <<c.node, c.name>>
    OBVIOUS
  <2>3. d \in jobs[s].down /\ c.name \in ToSet(Logged) /\ Key(c) = <<s, d[1], d[2]>>
    BY <1>2, <2>1, <2>2 DEF EntryOK, Key
  <2>4. <<s, d[1], d[2]>> \in DownOf(jobs)
    BY <2>3 DEF DownOf
  <2>5. <<s, d[1], d[2]>>[3] \in ToSet(Logged)
    BY <2>2, <2>3
  <2>6. QED
    BY <2>3, <2>4, <2>5
<1>3. ASSUME NEW e \in logged PROVE \E c \in log : Failed(c) /\ Key(c) = e
  <2>1. PICK s \in Sources, d \in UNION {jobs[t].down : t \in Sources} :
          d \in jobs[s].down /\ e = <<s, d[1], d[2]>>
    BY DEF DownOf
  <2>2. d[2] \in ToSet(Logged)
    BY <2>1
  <2>3. PICK q : q = jobs[s].caps /\ q \in Seq(CapType(s)) /\ Distinct(q) /\ ToSet(q) \subseteq log
    BY <1>1 DEF JobLog, LogOK
  <2>4. Len(q) < MaxCapabilities
    <3>1. Cardinality(ToSet(q)) = Len(q) /\ Len(q) \in Nat
      BY <2>3, EntriesCounted
    <3>2. Cardinality(ToSet(q)) <= Cardinality(log) /\ Cardinality(log) \in Nat
      BY <1>1, <2>3, FS_Subset, FS_CardinalityType DEF Merges
    <3>3. QED
      BY CollectorAssumption, <3>1, <3>2
  <2>5. InLog(q, d[1], d[2])
    BY <2>1, <2>2, <2>3, <2>4 DEF JobLog, LogOK
  <2>6. PICK i \in 1..Len(q) : Failed(q[i]) /\ q[i].node = d[1] /\ q[i].name = d[2]
    BY <2>5 DEF InLog
  <2>7. q[i] \in log /\ q[i].source = s
    <3>1. q[i] \in CapType(s) /\ q[i] \in ToSet(q)
      BY <2>3, EntriesCounted
    <3>2. QED
      BY <2>3, <3>1 DEF CapType
  <2>8. QED
    BY <2>1, <2>6, <2>7 DEF Key
<1>4. QED
  BY <1>2, <1>3 DEF ToldFailures

\* The failures come first.
LEMMA FailedFirst ==
  ASSUME NEW log, Merges(log), NEW logged, ToldFailures(log, logged), NEW q, q = Prioritized(log),
         NEW i \in 1..(IF Cardinality(logged) < MaxDetail THEN Cardinality(logged) ELSE MaxDetail)
  PROVE  Failed(q[i]) /\ Key(q[i]) \in logged
<1> DEFINE F == {c \in log : Failed(c)}
<1>1. IsFiniteSet(F) /\ Cardinality(F) <= Cardinality(log)
      /\ Cardinality(F) \in Nat /\ Cardinality(log) \in Nat
  <2>1. IsFiniteSet(log) /\ F \in SUBSET log
    BY DEF Merges
  <2> HIDE DEF F
  <2>2. QED
    BY <2>1, FS_Subset, FS_CardinalityType
<1>2. Cardinality(logged) <= Cardinality(F) /\ Cardinality(logged) \in Nat
  <2> DEFINE f == [c \in F |-> Key(c)]
  <2>1. f \in Surjection(F, logged)
    BY DEF Surjection, ToldFailures
  <2> HIDE DEF f, F
  <2>2. QED
    BY <1>1, <2>1, FS_Surjection, FS_CardinalityType
<1>3. i \in Nat /\ i >= 1 /\ i <= Cardinality(logged) /\ i <= MaxDetail
  BY <1>2, CollectorAssumption
<1>4. i \in 1..Cardinality(log)
  <2> HIDE DEF F
  <2>1. QED
    BY <1>1, <1>2, <1>3
<1>5. q[i] \in log /\ Cardinality({c \in log : MoreUrgent(c, q[i])}) = i - 1
  BY <1>3, <1>4, PrioritizedIs
<1>6. Failed(q[i])
  <2>1. SUFFICES ASSUME ~Failed(q[i]) PROVE FALSE
    OBVIOUS
  <2> DEFINE A == {c \in log : MoreUrgent(c, q[i])}
  <2>2. F \subseteq A
    BY <1>5, <2>1, UrgentOrder
  <2>3. IsFiniteSet(A)
    <3>1. IsFiniteSet(log) /\ A \in SUBSET log
      BY DEF Merges
    <3> HIDE DEF A
    <3>2. QED
      BY <3>1, FS_Subset
  <2>4. Cardinality(A) = i - 1
    BY <1>5
  <2> HIDE DEF A, F
  <2>5. Cardinality(F) <= Cardinality(A)
    BY <2>2, <2>3, FS_Subset
  <2>6. QED
    BY <1>1, <1>2, <1>3, <2>4, <2>5
<1>7. QED
  BY <1>5, <1>6 DEF ToldFailures

\* What a collection returns.
Good(r) ==
  /\ r.health \in Health /\ Len(r.detail) <= MaxDetail
  /\ LET logged == {d \in r.down : d[3] \in ToSet(Logged)}
     IN  \/ r.full
         \/ \A i \in 1..(IF Cardinality(logged) < MaxDetail THEN Cardinality(logged) ELSE MaxDetail) :
              /\ Failed(r.detail[i])
              /\ <<r.detail[i].source, r.detail[i].node, r.detail[i].name>> \in logged

LEMMA MergedGood ==
  ASSUME NEW jobs, \A s \in Sources : JobLog(s, jobs[s]), NEW r, r = Merged(jobs)
  PROVE  Good(r)
<1>1. PICK log, kept : log = MergedLog(jobs) /\ kept = KeptLog(log)
  OBVIOUS
<1>2. /\ r.detail = Prioritized(kept) /\ r.down = DownOf(jobs)
      /\ ~r.full => ~(Cardinality(log) >= MaxCapabilities)
  BY <1>1 DEF Merged, DownOf
<1>3. r.health \in Health
  <2>1. \A alerts, on : SummaryHealth(alerts, on) \in Health
    BY DEF SummaryHealth, Health
  <2>2. QED
    BY <2>1 DEF Merged
<1>4. Merges(log)
  BY <1>1, MergedLogs
<1>5. kept \subseteq log
  BY <1>1 DEF KeptLog
<1>6. Merges(kept)
  <2>1. IsFiniteSet(kept)
    BY <1>4, <1>5, FS_Subset DEF Merges
  <2>2. QED
    BY <1>4, <1>5, <2>1 DEF Merges
<1>7. Len(r.detail) <= MaxDetail
  BY <1>2, <1>6, PrioritizedIs
<1> DEFINE logged == {d \in r.down : d[3] \in ToSet(Logged)}
           n == IF Cardinality(logged) < MaxDetail THEN Cardinality(logged) ELSE MaxDetail
<1>8. ASSUME ~r.full, NEW i \in 1..n
      PROVE  Failed(r.detail[i]) /\ Key(r.detail[i]) \in logged
  <2>1. Cardinality(log) < MaxCapabilities /\ kept = log
    <3>1. Cardinality(log) \in Nat /\ MaxCapabilities \in Nat
      BY <1>4, FS_CardinalityType, CollectorAssumption DEF Merges
    <3>2. Cardinality(log) < MaxCapabilities
      BY <1>2, <1>8, <3>1
    <3>3. QED
      BY <1>1, <3>1, <3>2 DEF KeptLog
  <2>2. logged = {d \in DownOf(jobs) : d[3] \in ToSet(Logged)}
    BY <1>2
  <2>3. r.detail = Prioritized(log)
    BY <1>2, <2>1
  <2> HIDE DEF logged
  <2>4. ToldFailures(log, logged)
    BY <1>1, <2>1, <2>2, FailuresLogged
  <2>5. QED
    BY <1>4, <1>8, <2>3, <2>4, FailedFirst
<1>9. QED
  BY <1>3, <1>7, <1>8 DEF Good, Key

-----------------------------------------------------------------------------
(***************************************************************************)
(* The invariant of the log holds throughout.                              *)
(***************************************************************************)
Bounded == failures \in 0..MaxFailures /\ moves \in 0..MaxMoves

LogInv ==
  /\ Setting /\ Bounded
  /\ \A s \in Sources : JobLog(s, job[s])
  /\ Returned => Good(result)

LEMMA StartKept ==
  ASSUME NEW s \in Sources, NEW at \in {"idle", "resources"}
  PROVE  JobLog(s, Start(at))
<1>1. JobShape(s, Start(at))
  <2>1. JobOK({}, {}, s, Start(at))
    BY StartOK
  <2>2. QED
    BY <2>1 DEF JobOK
<1>2. Start(at).caps = <<>> /\ Start(at).down = {}
  BY DEF Start
<1>3. QED
  BY <1>1, <1>2, EmptyLogOK DEF JobLog

LEMMA InitLogInv == Init => LogInv
<1> SUFFICES ASSUME Init PROVE LogInv
  OBVIOUS
<1>1. \A s \in Sources : job[s] = Start("idle")
  BY DEF Init
<1>2. \A s \in Sources : JobLog(s, job[s])
  BY <1>1, StartKept
<1>3. Setting
  BY DEF Init, Setting
<1>4. Bounded
  BY CollectorAssumption DEF Init, Bounded
<1>5. ~Returned
  BY DEF Init, Returned
<1>6. QED
  BY <1>2, <1>3, <1>4, <1>5 DEF LogInv

\* A failure is counted while there may be one more.
LEMMA CountBounded ==
  ASSUME Bounded, NEW http \in Outcomes \cup {200}, Count(http)
  PROVE  failures' \in 0..MaxFailures
BY CollectorAssumption DEF Bounded, Outcomes, Count

LEMMA GoroutineCounts ==
  ASSUME Bounded, NEW s \in Sources, Goroutine(s)
  PROVE  Bounded'
<1>1. ASSUME NEW j, Proceed(s, j), failures' \in 0..MaxFailures PROVE Bounded'
  BY <1>1 DEF Proceed, Bounded
<1>2. ASSUME NEW j, Proceed(s, j), NEW http \in Outcomes \cup {200}, Count(http) PROVE Bounded'
  BY <1>1, <1>2, CountBounded
<1>3. ASSUME NEW j, Proceed(s, j), UNCHANGED failures PROVE Bounded'
  BY <1>1, <1>3 DEF Bounded
<1>4. CASE ReadResources(s)
  BY <1>2, <1>4 DEF ReadResources
<1>5. CASE ReadSource(s)
  BY <1>2, <1>5 DEF ReadSource
<1>6. CASE ReadNode(s)
  BY <1>2, <1>6 DEF ReadNode
<1>7. CASE ReadStorage(s)
  BY <1>2, <1>7 DEF ReadStorage
<1>8. CASE ReadGuest(s)
  <2>1. PICK http \in GuestOutcomes(job[s].cur) : \E j :
          /\ IF node[job[s].cur].guest = "GONE" THEN UNCHANGED failures ELSE Count(http)
          /\ Proceed(s, j)
    BY <1>8 DEF ReadGuest
  <2>2. CASE node[job[s].cur].guest = "GONE"
    BY <1>3, <2>1, <2>2
  <2>3. CASE node[job[s].cur].guest # "GONE"
    BY <1>2, <2>1, <2>3 DEF GuestOutcomes
  <2>4. QED
    BY <2>2, <2>3
<1>9. CASE ReadReplication(s)
  BY <1>2, <1>9 DEF ReadReplication
<1>10. CASE ReadReplicationStatus(s)
  BY <1>2, <1>10 DEF ReadReplicationStatus
<1>11. CASE ReadTasks(s)
  BY <1>2, <1>11 DEF ReadTasks
<1>12. CASE NextNode(s)
  BY <1>3, <1>12 DEF NextNode
<1>13. CASE ToStorages(s) \/ ToGuests(s) \/ Finish(s)
  BY <1>3, <1>13 DEF ToStorages, ToGuests, Finish
<1>14. CASE NextGuest(s)
  BY <1>3, <1>14 DEF NextGuest
<1>15. QED
  BY <1>4, <1>5, <1>6, <1>7, <1>8, <1>9, <1>10, <1>11, <1>12, <1>13, <1>14 DEF Goroutine

LEMMA GoroutineLogInv ==
  ASSUME LogInv, NEW s \in Sources, Goroutine(s)
  PROVE  LogInv'
<1>1. Setting /\ Bounded /\ JobLog(s, job[s])
  BY DEF LogInv
<1>2. Kept(s)
  BY <1>1, ReadResourcesKept, ReadSourceKept, NextNodeKept, ReadNodeKept, ToStoragesKept, ReadStorageKept,
     ToGuestsKept, NextGuestKept, ReadGuestKept, ReadReplicationKept, ReadReplicationStatusKept,
     ReadTasksKept, FinishKept
     DEF Goroutine
<1>3. Alone(s) /\ JobLog(s, job'[s])
  BY <1>2 DEF Kept
<1>4. \A t \in Sources : JobLog(t, job'[t])
  BY <1>3 DEF LogInv, Alone
<1>5. Setting'
  <2>1. UNCHANGED <<node, source>> /\ job' = [t \in Sources |-> job'[t]]
    BY <1>3 DEF Alone, world
  <2>2. QED
    BY <1>1, <2>1 DEF Setting
<1>6. Returned' => Good(result')
  <2>1. UNCHANGED result
    BY <1>3 DEF Alone
  <2>2. QED
    BY <2>1 DEF LogInv, Returned
<1>7. QED
  BY <1>1, <1>4, <1>5, <1>6, GoroutineCounts DEF LogInv

LEMMA CollectsLogInv ==
  ASSUME LogInv, Collect
  PROVE  LogInv'
<1>1. \A s \in Sources : job'[s] = Start("resources")
  BY DEF Collect
<1>2. \A s \in Sources : JobLog(s, job'[s])
  BY <1>1, StartKept
<1>3. Setting'
  BY DEF LogInv, Setting, Collect, world
<1>4. Bounded'
  BY CollectorAssumption DEF Collect, Bounded
<1>5. ~Returned'
  BY DEF Collect, Returned
<1>6. QED
  BY <1>2, <1>3, <1>4, <1>5 DEF LogInv

LEMMA ReturnLogInv ==
  ASSUME LogInv, Return
  PROVE  LogInv'
<1>1. \A s \in Sources : job'[s] = Start("idle")
  BY DEF Return
<1>2. \A s \in Sources : JobLog(s, job'[s])
  BY <1>1, StartKept
<1>3. Setting'
  BY DEF LogInv, Setting, Return, world
<1>4. Bounded'
  BY DEF LogInv, Bounded, Return
<1>5. PICK r : r = Merged(job) /\ r = result'
  BY DEF Return
<1>6. Good(r)
  BY <1>5, MergedGood DEF LogInv
<1>7. QED
  BY <1>2, <1>3, <1>4, <1>5, <1>6 DEF LogInv

\* Every step keeps the invariant.
LEMMA NextLogInv ==
  ASSUME LogInv, [Next]_vars
  PROVE  LogInv'
<1>1. CASE Collect
  BY <1>1, CollectsLogInv
<1>2. CASE \E s \in Sources : Goroutine(s)
  BY <1>2, GoroutineLogInv
<1>3. CASE Return
  BY <1>3, ReturnLogInv
<1>4. ASSUME UNCHANGED <<job, result>>, Bounded',
             node' \in [Nodes -> NodeWorlds], source' \in [Sources -> SourceWorlds]
      PROVE  LogInv'
  <2>1. Setting'
    BY <1>4 DEF LogInv, Setting
  <2>2. (\A s \in Sources : JobLog(s, job'[s])) /\ (Returned' => Good(result'))
    BY <1>4 DEF LogInv, Returned
  <2>3. QED
    BY <1>4, <2>1, <2>2 DEF LogInv
<1>5. node \in [Nodes -> NodeWorlds] /\ source \in [Sources -> SourceWorlds] /\ Bounded
  BY DEF LogInv, Setting
<1>6. CASE Cancel
  <2>1. Bounded'
    BY <1>5, <1>6, CollectorAssumption DEF Cancel, Bounded
  <2>2. QED
    BY <1>4, <1>5, <1>6, <2>1 DEF Cancel, world
<1>7. CASE WorldMoves
  <2>1. Bounded'
    BY <1>5, <1>7, CollectorAssumption DEF WorldMoves, Bounded
  <2>2. node' \in [Nodes -> NodeWorlds] /\ source' \in [Sources -> SourceWorlds]
    BY <1>5, <1>7 DEF WorldMoves
  <2>3. QED
    BY <1>4, <1>7, <2>1, <2>2 DEF WorldMoves
<1>8. CASE UNCHANGED vars
  BY <1>4, <1>5, <1>8 DEF vars, Bounded
<1>9. QED
  BY <1>1, <1>2, <1>3, <1>6, <1>7, <1>8 DEF Next, Goroutine

LEMMA AlwaysLogInv == Spec => []LogInv
<1>1. LogInv /\ [Next]_vars => LogInv'
  BY NextLogInv
<1>2. QED
  BY <1>1, InitLogInv, PTL DEF Spec

\* Whatever a source answers, its goroutine collects hosts of its own and verdicts
\* and severities that displays know, logs no request twice and never overfills its
\* log: collectSource, the health rules and addCapability of provider.go.
THEOREM CollectorTypeCorrect == Spec => []TypeOK
<1>1. ASSUME NEW s \in Sources, JobLog(s, job[s])
      PROVE  /\ DOMAIN job[s].hosts \subseteq NodesOf(s)
             /\ job[s].health \in Health
             /\ \A n \in DOMAIN job[s].hosts : job[s].hosts[n].health \in Health
             /\ \A a \in job[s].alerts :
                  a.source = s /\ a.node \in NodesOf(s) \cup {0} /\ a.severity \in {"warning", "critical"}
             /\ Len(job[s].caps) <= MaxCapabilities
             /\ \A i, k \in 1..Len(job[s].caps) :
                  i # k => <<job[s].caps[i].node, job[s].caps[i].name>>
                             # <<job[s].caps[k].node, job[s].caps[k].name>>
  <2>1. PICK j : j = job[s]
    OBVIOUS
  <2>2. j \in JobType(s) /\ LogOK(j)
    BY <1>1, <2>1 DEF JobLog, JobShape
  <2>3. /\ j.hosts \in [{} -> HostType] \cup [NodesOf(s) -> HostType]
        /\ j.health \in Health /\ j.alerts \in SUBSET AlertType(s)
    BY <2>2 DEF JobType
  <2>4. DOMAIN j.hosts \subseteq NodesOf(s) /\ \A n \in DOMAIN j.hosts : j.hosts[n] \in HostType
    BY <2>3
  <2>5. \A n \in DOMAIN j.hosts : j.hosts[n].health \in Health
    BY <2>4 DEF HostType
  <2>6. \A a \in j.alerts :
          a.source = s /\ a.node \in NodesOf(s) \cup {0} /\ a.severity \in {"warning", "critical"}
    BY <2>3 DEF AlertType, Severities
  <2>7. Len(j.caps) <= MaxCapabilities /\ Distinct(j.caps)
    BY <2>2 DEF LogOK
  <2>8. QED
    BY <2>1, <2>3, <2>4, <2>5, <2>6, <2>7 DEF Distinct
<1>2. LogInv => TypeOK
  <2>1. SUFFICES ASSUME LogInv PROVE TypeOK
    OBVIOUS
  <2>2. failures \in 0..MaxFailures /\ moves \in 0..MaxMoves
    BY <2>1 DEF LogInv, Bounded
  <2>3. Returned => result.health \in Health /\ Len(result.detail) <= MaxDetail
    BY <2>1 DEF LogInv, Good
  <2>4. \A s \in Sources : JobLog(s, job[s])
    BY <2>1 DEF LogInv
  <2>5. QED
    BY <1>1, <2>2, <2>3, <2>4 DEF TypeOK
<1>3. QED
  BY <1>2, AlwaysLogInv, PTL

\* No failed request is cut off a display's capability list to make room for one
\* that was answered, unless the log itself was full: addCapability of provider.go
\* and the prioritized list of state.go, whatever the answers and failures.
THEOREM FailuresFirst == Spec => []ProblemsFirst
<1>1. LogInv => ProblemsFirst
  BY DEF LogInv, Good, ProblemsFirst
<1>2. QED
  BY <1>1, AlwaysLogInv, PTL
=============================================================================
