------------------------------ MODULE Collector -----------------------------
(***************************************************************************)
(* One collection: a goroutine per Proxmox source sends request after      *)
(* request, turns the answers into hosts, alerts and capability entries,   *)
(* and the collector merges the sources' results into the state that       *)
(* displays get.  The cluster goes on living between two requests, any     *)
(* request may fail, and from some point on all of them do when the        *)
(* caller's context is cancelled.                                          *)
(*                                                                         *)
(* A node has at most one storage, one pool, one disk, one certificate and *)
(* one pinned guest; a source has one HA resource, one replication job.    *)
(* What is only listed for the screens (networks, updates, snapshots ...)  *)
(* is left out, but the requests for it are made and may fail.             *)
(* Percentages are small numbers around the configured thresholds.         *)
(***************************************************************************)
EXTENDS Verdicts, SequencesExt, FiniteSetsExt

CONSTANTS
  Sources,       \* source ids, ordered as numbers
  Nodes,         \* node names, ordered as numbers
  Home,          \* the source each node belongs to
  Storages,      \* nodes with a storage
  Guests,        \* nodes with a pinned guest that is expected to run
  NodeWorlds,    \* what may be the case on a node
  SourceWorlds,  \* what may be the case of a source as a whole
  MemWarn, MemCrit, StoWarn, StoCrit,  \* Config.Alerts
  Refusals,      \* HTTP statuses of failing requests, 0 when there is no answer
  MaxCapabilities,  \* entries of the capability log
  MaxDetail,     \* capability entries a display gets
  MaxFailures,   \* bound: failures in one collection, a cancellation is one
  MaxMoves       \* bound: changes of the cluster in one collection

(***************************************************************************)
(* What the API tells.  "until" is when a certificate ends, in hours from  *)
(* now; a guest that is GONE is in no list.                                *)
(***************************************************************************)
NodeWorld ==
  [online : BOOLEAN, mem : Nat, root : Nat, stored : Nat, storage : Texts,
   guest : Texts \cup {"GONE"}, until : Int, service : Texts, pool : Texts,
   device : Texts, subscription : Texts, disk : Texts, task : Texts]

SourceWorld == [quorate : BOOLEAN, ha : Texts, ceph : Texts, replication : Texts]

ASSUME CollectorAssumption ==
  /\ Sources \subseteq Nat \ {0} /\ IsFiniteSet(Sources)
  /\ Nodes \subseteq Nat \ {0}
  /\ Home \in [Nodes -> Sources]
  /\ Storages \subseteq Nodes /\ Guests \subseteq Nodes
  /\ \A w \in NodeWorlds : w \in NodeWorld /\ w.until # 0
  /\ \A w \in SourceWorlds : w \in SourceWorld
  /\ {MemWarn, MemCrit, StoWarn, StoCrit} \subseteq Nat
  /\ Refusals \subseteq Nat \ {200}
  /\ MaxCapabilities \in Nat /\ MaxDetail \in Nat \ {0}
  /\ MaxFailures \in Nat /\ MaxMoves \in Nat

(***************************************************************************)
(* The requests, in the order in which they are sent.                      *)
(***************************************************************************)
SourceRequests ==
  <<"cluster_status", "cluster_options", "backup_jobs", "ha_resources", "ceph",
    "storage_config">>

NodeRequests ==
  <<"node_status", "node_certificates", "node_rrd", "pci", "network", "services",
    "zfs_pools", "zfs_pool_detail", "apt_updates", "apt_repositories", "subscription",
    "disks">>

GuestRequests ==
  <<"guest_config", "guest_status", "guest_rrd", "guest_snapshots", "qemu_guest_agent">>

\* Those whose outcome goes to the capability log, in the order of their names.
Logged ==
  <<"apt_repositories", "apt_updates", "backup_jobs", "ceph", "cluster_options",
    "cluster_status", "guest_rrd", "guest_status", "ha_resources", "node_certificates",
    "node_rrd", "qemu_guest_agent", "replication", "replication_status",
    "storage_config", "storage_content", "subscription", "zfs_pool_detail", "zfs_pools">>

\* Those whose failure leaves a warning on the cluster or on the host.
Warned ==
  (ToSet(SourceRequests) \cup ToSet(NodeRequests) \cup {"replication", "tasks"})
    \ {"ceph", "node_status", "zfs_pool_detail"}

VARIABLES
  node,       \* the state of each node, which only Proxmox knows
  source,     \* the state of each source as a whole
  job,        \* what the goroutine of each source has collected, and where it is
  cancelled,  \* the caller's context
  failures,   \* failures in this collection
  moves,      \* changes of the cluster in this collection
  lasting,    \* history: the problems there have been since the collection began
  ever,       \* history: the problems there were at some time since
  result      \* what Collect returned, until it is called again

world == <<node, source>>
history == <<lasting, ever>>
vars == <<node, source, job, cancelled, failures, moves, lasting, ever, result>>

NodesOf(s) == {n \in Nodes : Home[n] = s}

-----------------------------------------------------------------------------
(***************************************************************************)
(* Hosts, alerts, capability entries.                                      *)
(***************************************************************************)
\* A storage or guest of the resource list keeps what the list told.
HostOf(w) ==
  [online |-> w.online, mem |-> w.mem, root |-> w.root, max |-> w.root, named |-> FALSE,
   health |-> IF w.online THEN "ok" ELSE "critical",
   listed |-> [stored |-> w.stored, storage |-> w.storage, guest |-> w.guest, pool |-> Blank]]

\* Node 0 stands for the source as a whole.
Alert(s, n, about, severity) ==
  [source |-> s, node |-> n, about |-> about, severity |-> severity]

\* Slip: an alert for every verdict that is not ok, unknown ones too.
RaisedUnlessOK(s, n, about, h) ==
  IF h = "ok" THEN {} ELSE {Alert(s, n, about, h)}

Raised(s, n, about, h) ==
  IF h \in {"warning", "critical"} THEN {Alert(s, n, about, h)} ELSE {}

Capability(s, n, name, http) ==
  [source |-> s, node |-> n, name |-> name, status |-> CapabilityStatus(http)]

\* addCapability: a full log takes no more entries.  The detail of a pool is only
\* logged when it fails.
Log(caps, cap) ==
  IF \/ cap.name \notin ToSet(Logged)
     \/ (cap.name = "zfs_pool_detail" /\ cap.status = "ok")
     \/ Len(caps) >= MaxCapabilities
  THEN caps ELSE Append(caps, cap)

StoragePct(h) == IF h.max > h.root THEN h.max ELSE h.root

\* Slip: the critical memory alert is raised at the warning threshold.
HostAlertsTooEarly(s, n, h) ==
  IF ~h.online THEN {Alert(s, n, "offline", "critical")}
  ELSE Raised(s, n, "mem", Level(h.mem, MemWarn, MemWarn))
       \cup (IF h.named THEN {}
             ELSE Raised(s, n, "root", Level(StoragePct(h), StoWarn, StoCrit)))

\* applyHostAlerts: the alerts of one host, last of all, and its health.
HostAlerts(s, n, h) ==
  IF ~h.online THEN {Alert(s, n, "offline", "critical")}
  ELSE Raised(s, n, "mem", Level(h.mem, MemWarn, MemCrit))
       \cup (IF h.named THEN {}
             ELSE Raised(s, n, "root", Level(StoragePct(h), StoWarn, StoCrit)))

HostHealth(h) ==
  IF ~h.online THEN h.health
  ELSE MaxHealth(MaxHealth(h.health, Level(h.mem, MemWarn, MemCrit)),
                 Level(StoragePct(h), StoWarn, StoCrit))

\* applyStorageAlerts: one alert about the status, one about the percentage.
StorageAlerts(s, n, told) ==
  Raised(s, n, "storage", StorageStatusHealth(told.storage))
    \cup Raised(s, n, "stored", Level(told.stored, StoWarn, StoCrit))

-----------------------------------------------------------------------------
(***************************************************************************)
(* The merged state: Collect after its goroutines have ended, Finalize,    *)
(* and the capability list of the detail state.                            *)
(***************************************************************************)
SummaryHealth(alerts, allOnline) ==
  IF (\E a \in alerts : a.severity = "critical") \/ ~allOnline THEN "critical"
  ELSE IF \E a \in alerts : a.severity = "warning" THEN "warning" ELSE "ok"

\* The order of the capability ids: source, name, endpoint.
NameRank == [name \in ToSet(Logged) |-> CHOOSE i \in 1..Len(Logged) : Logged[i] = name]

Before(a, b) ==
  \/ a.source < b.source
  \/ (a.source = b.source /\ NameRank[a.name] < NameRank[b.name])
  \/ (a.source = b.source /\ a.name = b.name /\ a.node < b.node)

Urgency(cap) == CapabilityRank(cap.status)

MoreUrgent(a, b) == Urgency(a) > Urgency(b) \/ (Urgency(a) = Urgency(b) /\ Before(a, b))

\* The entries before cap when a log is sorted.
Ahead(cap, log, Precedes(_, _)) == {c \in log : Precedes(c, cap)}

\* The first n entries of a log that has been sorted.
FirstN(log, n, Precedes(_, _)) ==
  [i \in 1..(IF Cardinality(log) < n THEN Cardinality(log) ELSE n) |->
     CHOOSE cap \in log : Cardinality(Ahead(cap, log, Precedes)) = i - 1]

\* Slip: the entries keep the order of their ids.
PrioritizedByID(log) == FirstN(log, MaxDetail, Before)

Prioritized(log) == FirstN(log, MaxDetail, MoreUrgent)

\* What every source was asked and answered.  No entry is logged twice.
MergedLog(jobs) == UNION {ToSet(jobs[s].caps) : s \in Sources}

\* What is kept of it.
KeptLog(log) ==
  IF Cardinality(log) <= MaxCapabilities THEN log
  ELSE {cap \in log : Cardinality(Ahead(cap, log, Before)) < MaxCapabilities}

Merged(jobs) ==
  LET alerts == UNION {jobs[s].alerts : s \in Sources}
      hosts == [n \in UNION {DOMAIN jobs[s].hosts : s \in Sources} |-> jobs[Home[n]].hosts[n]]
      lost == {s \in Sources : jobs[s].lost}
      log == MergedLog(jobs)
  IN  [alerts |-> alerts,
       hosts  |-> hosts,
       lost   |-> lost,
       health |-> SummaryHealth(alerts, lost = {} /\ \A n \in DOMAIN hosts : hosts[n].online),
       detail |-> Prioritized(KeptLog(log)),
       down   |-> UNION {{<<s, d[1], d[2]>> : d \in jobs[s].down} : s \in Sources},
       full   |-> Cardinality(log) >= MaxCapabilities]

Nothing == [health |-> "none"]

-----------------------------------------------------------------------------
(***************************************************************************)
(* The cluster, and what is wrong with it in the words of Proxmox: as      *)
(* <<source, node, what, level>>, a critical problem being a warning too.  *)
(***************************************************************************)
Levels(h) == CASE h = "critical" -> {"warning", "critical"} [] h = "warning" -> {"warning"}
               [] OTHER -> {}

\* A pool that serves no data, and a word for it the rules do not know.
PoolDown == {"FAULTED", "OFFLINE", "UNAVAIL"}

WrongOnNode(w) ==
  [offline |-> IF w.online THEN "ok" ELSE "critical",
   mem     |-> Level(w.mem, MemWarn, MemCrit),
   root    |-> Level(w.root, StoWarn, StoCrit),
   node_certificates |-> IF w.until <= 0 THEN "critical"
                         ELSE IF w.until < 31 * 24 THEN "warning" ELSE "ok",
   services |-> IF w.service = "FAILED" THEN "warning" ELSE "ok",
   zfs_pools |-> IF w.pool \in PoolDown \ {"UNAVAIL"} THEN "critical"
                 ELSE IF w.pool = "DEGRADED" THEN "warning" ELSE "ok",
   pool_unavail |-> IF w.pool = "UNAVAIL" THEN "critical" ELSE "ok",
   zfs_pool_detail |-> IF w.device = "ONLINE" THEN "ok" ELSE "warning",
   disks   |-> IF w.disk = "FAILED" THEN "critical" ELSE "ok",
   tasks   |-> IF w.task = "OK" THEN "ok" ELSE "warning"]

WrongWithStorage(w) ==
  [stored  |-> Level(w.stored, StoWarn, StoCrit),
   storage |-> IF w.storage = "AVAILABLE" THEN "ok" ELSE "warning"]

WrongWithGuest(w) ==
  [guest_status |-> IF w.guest = "STOPPED" THEN "warning" ELSE "ok",
   guest_gone   |-> IF w.guest = "GONE" THEN "warning" ELSE "ok"]

WrongWithSource(w) ==
  [cluster_status |-> IF w.quorate THEN "ok" ELSE "critical",
   ha_resources   |-> IF w.ha = "ERROR" THEN "critical"
                      ELSE IF w.ha = "STARTED" THEN "ok" ELSE "warning",
   ceph           |-> IF w.ceph = "HEALTH_WARN" THEN "warning" ELSE "ok",
   ceph_error     |-> IF w.ceph = "HEALTH_ERR" THEN "critical" ELSE "ok",
   replication    |-> IF w.replication = "OK" THEN "ok" ELSE "warning"]

Problems(s, n, wrong) == UNION {{<<s, n, k, l>> : l \in Levels(wrong[k])} : k \in DOMAIN wrong}

Wrong(nodes, sources) ==
  (UNION {Problems(Home[n], n, WrongOnNode(nodes[n])) : n \in Nodes})
  \cup (UNION {Problems(Home[n], n, WrongWithStorage(nodes[n])) : n \in Storages})
  \cup (UNION {Problems(Home[n], n, WrongWithGuest(nodes[n])) : n \in Guests})
  \cup (UNION {Problems(s, 0, WrongWithSource(sources[s])) : s \in Sources})

\* The rules read every single text the way it is meant.
ReadAsMeant ==
  /\ \A w \in NodeWorlds :
       /\ Levels(HealthFromText(w.pool)) = Levels(WrongOnNode(w).zfs_pools)
       /\ Levels(ServiceHealth(w.service)) = Levels(WrongOnNode(w).services)
       /\ Levels(TaskHealth(w.task)) = Levels(WrongOnNode(w).tasks)
       /\ w.device \notin {Blank, "AVAIL"}
       /\ Levels(StorageStatusHealth(w.storage)) = Levels(WrongWithStorage(w).storage)
       /\ w.guest \in {"RUNNING", "STOPPED", "GONE"}
  /\ \A w \in SourceWorlds :
       /\ Levels(HAHealth(w.ha, Blank)) = Levels(WrongWithSource(w).ha_resources)
       /\ Levels(CephHealth(w.ceph)) = Levels(WrongWithSource(w).ceph)
       /\ w.replication # Blank

\* Only changes during a collection: between two, any state is an initial one.
WorldMoves ==
  /\ moves < MaxMoves
  /\ \E s \in Sources : job[s].at # "idle"
  /\ \/ \E n \in Nodes : \E w \in NodeWorlds \ {node[n]} :
          node' = [node EXCEPT ![n] = w] /\ UNCHANGED source
     \/ \E s \in Sources : \E w \in SourceWorlds \ {source[s]} :
          source' = [source EXCEPT ![s] = w] /\ UNCHANGED node
  /\ moves' = moves + 1
  /\ lasting' = lasting \cap Wrong(node', source')
  /\ ever' = ever \cup Wrong(node', source')
  /\ UNCHANGED <<job, cancelled, failures, result>>

-----------------------------------------------------------------------------
(***************************************************************************)
(* One source's goroutine.                                                 *)
(***************************************************************************)
NoHosts == [n \in {} |-> 0]

Start(at) ==
  [at |-> at, left |-> <<>>, todo |-> {}, cur |-> 0, hosts |-> NoHosts, health |-> "ok",
   alerts |-> {}, caps |-> <<>>, down |-> {}, lost |-> FALSE]

Init ==
  /\ node \in [Nodes -> NodeWorlds]
  /\ source \in [Sources -> SourceWorlds]
  /\ job = [s \in Sources |-> Start("idle")]
  /\ cancelled = FALSE
  /\ failures = 0
  /\ moves = 0
  /\ lasting = {}
  /\ ever = {}
  /\ result = Nothing

Collect ==
  /\ \A s \in Sources : job[s].at = "idle"
  /\ job' = [s \in Sources |-> Start("resources")]
  /\ cancelled' = FALSE
  /\ failures' = 0
  /\ moves' = 0
  /\ lasting' = Wrong(node, source)
  /\ ever' = Wrong(node, source)
  /\ result' = Nothing
  /\ UNCHANGED world

Cancel ==
  /\ ~cancelled
  /\ failures < MaxFailures
  /\ \E s \in Sources : job[s].at # "idle"
  /\ cancelled' = TRUE
  /\ failures' = failures + 1
  /\ UNCHANGED <<world, job, moves, history, result>>

\* The outcomes of a request: 200, or how it fails.
Outcomes ==
  IF cancelled THEN {0} ELSE {200} \cup (IF failures < MaxFailures THEN Refusals ELSE {})

Count(http) == failures' = IF http = 200 \/ cancelled THEN failures ELSE failures + 1

\* The goroutine of s goes on as j.
Proceed(s, j) ==
  /\ job' = [job EXCEPT ![s] = j]
  /\ UNCHANGED <<world, cancelled, moves, history, result>>

\* A request by name: its entry in the capability log, and whether it failed.
Asked(s, n, name, http, j) ==
  [j EXCEPT !.caps = Log(@, Capability(s, n, name, http)),
            !.down = IF http = 200 THEN @ ELSE @ \cup {<<n, name>>}]

\* Slip: an unreachable source is asked again until it answers.
ReadResourcesAgain(s) ==
  /\ job[s].at = "resources"
  /\ \E http \in Outcomes :
       /\ Count(http)
       /\ Proceed(s, IF http # 200 THEN job[s]
                     ELSE [job[s] EXCEPT
                            !.at = "source", !.left = SourceRequests, !.todo = NodesOf(s),
                            !.hosts = [n \in NodesOf(s) |-> HostOf(node[n])]])

\* The list of nodes, storages and guests; without it the source counts as offline.
ReadResources(s) ==
  /\ job[s].at = "resources"
  /\ \E http \in Outcomes :
       /\ Count(http)
       /\ Proceed(s, IF http # 200
                     THEN [job[s] EXCEPT !.at = "done", !.lost = TRUE,
                            !.alerts = {Alert(s, 0, "offline", "critical")}]
                     ELSE [job[s] EXCEPT
                            !.at = "source", !.left = SourceRequests, !.todo = NodesOf(s),
                            !.hosts = [n \in NodesOf(s) |-> HostOf(node[n])]])

\* The verdict of an answer about the cluster; several of them raise no alert.
SourceVerdict(s, name) ==
  CASE name = "cluster_status" ->
         ClusterHealth(source[s].quorate, Cardinality(NodesOf(s)),
                       Cardinality({n \in NodesOf(s) : node[n].online}))
    [] name = "ha_resources" -> HAHealth(source[s].ha, Blank)
    [] name = "ceph" -> CephHealth(source[s].ceph)
    [] OTHER -> "ok"

\* Nodes that are missing colour the cluster and raise no alert.
ClusterAlerts(s, name) ==
  IF name = "cluster_status" /\ source[s].quorate THEN {}
  ELSE Raised(s, 0, name, SourceVerdict(s, name))

ReadSource(s) ==
  /\ job[s].at = "source"
  /\ \E http \in Outcomes :
       LET name == Head(job[s].left)
           j == Asked(s, 0, name, http, job[s])
       IN  /\ Count(http)
           /\ Proceed(s, [j EXCEPT
                !.left = Tail(@),
                !.at = IF Len(j.left) = 1 THEN "nodes" ELSE @,
                !.health = IF http = 200 THEN MaxHealth(@, SourceVerdict(s, name)) ELSE @,
                !.alerts = IF http = 200 THEN @ \cup ClusterAlerts(s, name) ELSE @])

\* The nodes come in the order of a Go map: any.
NextNode(s) ==
  /\ job[s].at = "nodes"
  /\ \E n \in job[s].todo :
       Proceed(s, [job[s] EXCEPT !.at = "node", !.left = NodeRequests,
                                 !.todo = @ \ {n}, !.cur = n])
  /\ UNCHANGED failures

\* The health of the pool once the list, and perhaps its detail, has been read.
PoolVerdict(s, n, http) ==
  LET listed == PoolHealth(job[s].hosts[n].listed.pool, Blank)
  IN  IF http # 200 THEN listed
      ELSE PoolHealthInDetail(listed, node[n].pool, {[state |-> node[n].device, errors |-> FALSE]})

\* The verdict of an answer about a node.
NodeVerdict(s, n, name, http) ==
  IF name = "zfs_pool_detail" THEN PoolVerdict(s, n, http)
  ELSE IF http # 200 THEN "ok"
  ELSE CASE name = "node_certificates" -> CertificateHealth(node[n].until, 0)
         [] name = "services" -> ServiceHealth(node[n].service)
         [] name = "subscription" -> SubscriptionHealth(node[n].subscription)
         [] name = "disks" -> DiskHealth(node[n].disk)
         [] name = "tasks" -> TaskHealth(node[n].task)
         [] OTHER -> "ok"

\* These verdicts only colour the host.
NodeAlerts(s, n, name, http) ==
  IF name \in {"subscription", "disks"} THEN {}
  ELSE Raised(s, n, name, NodeVerdict(s, n, name, http))

\* Without a list of pools there is no detail to ask for.
AfterRequest(left, http) ==
  IF Head(left) = "zfs_pools" /\ http # 200 THEN Tail(Tail(left)) ELSE Tail(left)

\* The host with what an answer tells of it.
HostAfter(s, n, name, http) ==
  [job[s].hosts[n] EXCEPT
     !.mem    = IF name = "node_status" /\ http = 200 THEN node[n].mem ELSE @,
     !.root   = IF name = "node_status" /\ http = 200 THEN node[n].root ELSE @,
     !.listed.pool = IF name = "zfs_pools" THEN node[n].pool ELSE @,
     !.health = MaxHealth(@, NodeVerdict(s, n, name, http))]

\* Slip: a failed request ends the reading of its node.
ReadNodeUntilError(s) ==
  /\ job[s].at = "node"
  /\ \E http \in Outcomes :
       LET name == Head(job[s].left)
           n == job[s].cur
           j == Asked(s, n, name, http, job[s])
           rest == IF http = 200 THEN Tail(j.left) ELSE <<>>
       IN  /\ Count(http)
           /\ Proceed(s, [j EXCEPT
                !.left = rest,
                !.at = IF rest = <<>> THEN "nodes" ELSE @,
                !.hosts[n] = HostAfter(s, n, name, http),
                !.alerts = @ \cup NodeAlerts(s, n, name, http)])

\* One request about the node at hand; a failing one is passed over.
ReadNode(s) ==
  /\ job[s].at = "node"
  /\ \E http \in Outcomes :
       LET name == Head(job[s].left)
           n == job[s].cur
           j == Asked(s, n, name, http, job[s])
           rest == AfterRequest(j.left, http)
       IN  /\ Count(http)
           /\ Proceed(s, [j EXCEPT
                !.left = rest,
                !.at = IF rest = <<>> THEN "nodes" ELSE @,
                !.hosts[n] = HostAfter(s, n, name, http),
                !.alerts = @ \cup NodeAlerts(s, n, name, http)])

ToStorages(s) ==
  /\ job[s].at = "nodes" /\ job[s].todo = {}
  /\ Proceed(s, [job[s] EXCEPT !.at = "storages", !.todo = NodesOf(s) \cap Storages])
  /\ UNCHANGED failures

\* Slip: a node's storage is named as its fullest whatever the others are.
NameFullestAlways(h) == [h EXCEPT !.max = h.listed.stored, !.named = TRUE]

\* A storage at least as full as the node's file system was in the resource list.
NameFullest(h) ==
  IF h.listed.stored >= h.max THEN [h EXCEPT !.max = h.listed.stored, !.named = TRUE] ELSE h

\* The next storage of the resource list, whose order is the server's; only one in
\* service is asked for its content.
ReadStorage(s) ==
  /\ job[s].at = "storages"
  /\ \E n \in job[s].todo :
     LET told == job[s].hosts[n].listed
     IN  \E http \in IF StorageContentQueryable(told.storage, "CONTENT") THEN Outcomes ELSE {200} :
           LET j == IF StorageContentQueryable(told.storage, "CONTENT")
                    THEN Asked(s, n, "storage_content", http, job[s]) ELSE job[s]
           IN  /\ Count(http)
               /\ Proceed(s, [j EXCEPT
                    !.todo = @ \ {n},
                    !.alerts = @ \cup StorageAlerts(s, n, told),
                    !.hosts[n] = NameFullest(@)])

ToGuests(s) ==
  /\ job[s].at = "storages" /\ job[s].todo = {}
  /\ Proceed(s, [job[s] EXCEPT !.at = "guests",
       !.todo = {n \in NodesOf(s) \cap Guests : job[s].hosts[n].listed.guest # "GONE"}])
  /\ UNCHANGED failures

\* A guest of the resource list, all of which has an agent.
NextGuest(s) ==
  /\ job[s].at = "guests"
  /\ \E n \in job[s].todo :
       Proceed(s, [job[s] EXCEPT !.at = "guest", !.left = GuestRequests,
                                 !.todo = @ \ {n}, !.cur = n])
  /\ UNCHANGED failures

\* A guest that is gone since the list was read is known no more: 500.
GuestOutcomes(n) == IF node[n].guest = "GONE" /\ ~cancelled THEN {500} ELSE Outcomes

\* The status goes before what the resource list told.  The agent is asked when
\* the guest runs and its configuration has told of an agent.
GuestAfter(s, n, name, http) ==
  IF name = "guest_status" /\ http = 200 THEN node[n].guest
  ELSE job[s].hosts[n].listed.guest

GuestRest(s, n, left, guest) ==
  IF Tail(left) = <<"qemu_guest_agent">>
     /\ (guest # "RUNNING" \/ <<n, "guest_config">> \in job[s].down)
  THEN <<>> ELSE Tail(left)

\* The guest is judged when all about it has been read: the pin expects it to run.
ReadGuest(s) ==
  /\ job[s].at = "guest"
  /\ \E http \in GuestOutcomes(job[s].cur) :
       LET name == Head(job[s].left)
           n == job[s].cur
           guest == GuestAfter(s, n, name, http)
           j == Asked(s, n, name, http, job[s])
           rest == GuestRest(s, n, j.left, guest)
       IN  /\ IF node[n].guest = "GONE" THEN UNCHANGED failures ELSE Count(http)
           /\ Proceed(s, [j EXCEPT
                !.left = rest,
                !.at = IF rest = <<>> THEN "guests" ELSE @,
                !.hosts[n].listed.guest = guest,
                !.alerts = IF rest = <<>> /\ guest # "RUNNING"
                           THEN @ \cup {Alert(s, n, "guest_status", "warning")} ELSE @])

ReadReplication(s) ==
  /\ job[s].at = "guests" /\ job[s].todo = {}
  /\ \E http \in Outcomes :
       /\ Count(http)
       /\ Proceed(s, [Asked(s, 0, "replication", http, job[s]) EXCEPT
            !.at = IF http = 200 THEN "replication" ELSE "tasks",
            !.todo = IF http = 200 THEN {} ELSE NodesOf(s)])

\* The job list tells of no error; the node the job runs on does.
NoError == [status |-> Blank, error |-> Blank, failed |-> 0]

ReadReplicationStatus(s) ==
  /\ job[s].at = "replication"
  /\ \E http \in Outcomes :
       LET told == [NoError EXCEPT !.status = source[s].replication]
           h == ReplicationHealth(IF http = 200 THEN WithStatus(NoError, told) ELSE NoError)
       IN  /\ Count(http)
           /\ Proceed(s, [Asked(s, 0, "replication_status", http, job[s]) EXCEPT
                !.at = "tasks", !.todo = NodesOf(s),
                !.health = MaxHealth(@, h),
                !.alerts = @ \cup Raised(s, 0, "replication", h)])

ReadTasks(s) ==
  /\ job[s].at = "tasks"
  /\ \E n \in job[s].todo, http \in Outcomes :
       /\ Count(http)
       /\ Proceed(s, [Asked(s, n, "tasks", http, job[s]) EXCEPT
            !.todo = @ \ {n},
            !.hosts[n].health = MaxHealth(@, NodeVerdict(s, n, "tasks", http)),
            !.alerts = @ \cup NodeAlerts(s, n, "tasks", http)])

Finish(s) ==
  /\ job[s].at = "tasks" /\ job[s].todo = {}
  /\ Proceed(s, [job[s] EXCEPT
       !.at = "done",
       !.alerts = @ \cup UNION {HostAlerts(s, n, job[s].hosts[n]) : n \in NodesOf(s)},
       !.hosts = [n \in NodesOf(s) |-> [job[s].hosts[n] EXCEPT !.health = HostHealth(job[s].hosts[n])]]])
  /\ UNCHANGED failures

\* The last goroutine has ended: merge, and return.
Return ==
  /\ \A s \in Sources : job[s].at = "done"
  /\ result' = Merged(job)
  /\ job' = [s \in Sources |-> Start("idle")]
  /\ UNCHANGED <<world, cancelled, failures, moves, history>>

Goroutine(s) ==
  \/ ReadResources(s) \/ ReadSource(s) \/ NextNode(s) \/ ReadNode(s)
  \/ ToStorages(s) \/ ReadStorage(s) \/ ToGuests(s) \/ NextGuest(s) \/ ReadGuest(s)
  \/ ReadReplication(s) \/ ReadReplicationStatus(s) \/ ReadTasks(s) \/ Finish(s)

Next ==
  \/ Collect
  \/ \E s \in Sources : ReadResources(s)
  \/ \E s \in Sources : ReadSource(s)
  \/ \E s \in Sources : NextNode(s)
  \/ \E s \in Sources : ReadNode(s)
  \/ \E s \in Sources : ToStorages(s)
  \/ \E s \in Sources : ReadStorage(s)
  \/ \E s \in Sources : ToGuests(s)
  \/ \E s \in Sources : NextGuest(s)
  \/ \E s \in Sources : ReadGuest(s)
  \/ \E s \in Sources : ReadReplication(s)
  \/ \E s \in Sources : ReadReplicationStatus(s)
  \/ \E s \in Sources : ReadTasks(s)
  \/ \E s \in Sources : Finish(s)
  \/ Return
  \/ Cancel
  \/ WorldMoves

Spec == Init /\ [][Next]_vars

\* Every request ends, by an answer or by its timeout, and its goroutine goes on.
FairSpec == Spec /\ WF_vars(Return) /\ \A s \in Sources : WF_vars(Goroutine(s))

-----------------------------------------------------------------------------
(***************************************************************************)
(* Properties.                                                             *)
(***************************************************************************)
Returned == result # Nothing

\* The job of a goroutine is where its remaining requests say; verdicts and
\* severities are among those that displays know; what is not asked for again is
\* not collected twice.
TypeOK ==
  /\ \A s \in Sources :
       /\ DOMAIN job[s].hosts \subseteq NodesOf(s)
       /\ job[s].health \in Health
       /\ \A n \in DOMAIN job[s].hosts : job[s].hosts[n].health \in Health
       /\ \A a \in job[s].alerts :
            a.source = s /\ a.node \in NodesOf(s) \cup {0} /\ a.severity \in {"warning", "critical"}
       /\ Len(job[s].caps) <= MaxCapabilities
       /\ \A i, k \in 1..Len(job[s].caps) :
            i # k => <<job[s].caps[i].node, job[s].caps[i].name>>
                       # <<job[s].caps[k].node, job[s].caps[k].name>>
  /\ failures \in 0..MaxFailures /\ moves \in 0..MaxMoves
  /\ Returned => result.health \in Health /\ Len(result.detail) <= MaxDetail

\* The alerts that tell of a problem: one about the pool for all that ails it, and
\* a node that is offline is told to be no more than that.
Tells(what) ==
  {"offline"} \cup
  CASE what = "root" -> {"root", "stored"}
    [] what \in {"zfs_pools", "zfs_pool_detail"} -> {"zfs_pool_detail"}
    [] OTHER -> {what}

\* The requests a problem is learnt from, beyond the resource list.
LearntFrom(what) ==
  CASE what \in {"offline", "mem", "root", "stored", "storage", "guest_status"} -> {}
    [] what = "zfs_pool_detail" -> {"zfs_pools", "zfs_pool_detail"}
    [] what = "replication" -> {"replication", "replication_status"}
    [] OTHER -> {what}

\* The problems the bridge raises no alert for: a failing disk only colours its
\* host; the words ERR (of Ceph) and UNAVAIL are unknown to the rules; a pinned
\* guest that is in no list is not looked for.
Unspoken == {"disks", "ceph_error", "pool_unavail", "guest_gone"}

\* A failed request shows in the capability log or as a warning of its host.
Shows(name) == name \in Warned \cup ToSet(Logged)

\* Nothing that was wrong all through a collection goes unsaid: an alert of at
\* least its level tells of it, or the source is reported offline, or a request it
\* is learnt from failed and that failure shows.  Whatever requests fail, whatever
\* changes meanwhile, and whenever the caller gives up.
NothingMissed ==
  Returned => \A p \in lasting :
    \/ p[3] \in Unspoken
    \/ p[1] \in result.lost
    \/ \E a \in result.alerts :
         /\ a.source = p[1] /\ a.node = p[2] /\ a.about \in Tells(p[3])
         /\ Rank(a.severity) >= Rank(p[4])
    \/ \E d \in result.down :
         d[1] = p[1] /\ d[2] \in {0, p[2]} /\ d[3] \in LearntFrom(p[3]) /\ Shows(d[3])

\* Every alert is about something that was wrong, to that degree, at some time of
\* the collection: one answer is never read as another's, and a change of the
\* cluster between two requests never makes up a problem there was not.
NoFalseAlarm ==
  Returned => \A a \in result.alerts :
    \/ a.source \in result.lost
    \/ \E p \in ever :
         /\ p[1] = a.source /\ p[2] = a.node /\ p[4] = a.severity
         /\ a.about \in Tells(p[3]) /\ (a.about = "offline" => p[3] = "offline")

Failed(cap) == cap.status # "ok"

\* The failed requests come first in the capability list of a display: none is
\* cut off to make room for one that was answered, unless the log itself was full.
ProblemsFirst ==
  Returned =>
    LET logged == {d \in result.down : d[3] \in ToSet(Logged)}
    IN  \/ result.full
        \/ \A i \in 1..(IF Cardinality(logged) < MaxDetail THEN Cardinality(logged) ELSE MaxDetail) :
             /\ Failed(result.detail[i])
             /\ <<result.detail[i].source, result.detail[i].node, result.detail[i].name>> \in logged

\* docs/firmware-ui.md promises the "active warnings and critical issues" on one
\* page: when it is empty and every request was answered, nothing was critical
\* all through the collection.
QuietMeansHealthy ==
  Returned /\ result.alerts = {} /\ result.down = {} /\ result.lost = {} =>
    \A p \in lasting : p[4] # "critical"

\* A collection ends, whatever fails: no request is repeated, and one that gets
\* no answer is given up.
CollectEnds == (\E s \in Sources : job[s].at # "idle") ~> Returned
=============================================================================
