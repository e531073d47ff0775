------------------------------ MODULE Verdicts ------------------------------
(***************************************************************************)
(* What the bridge makes of single answers of the Proxmox API: the health  *)
(* of a pool, a disk, a certificate and so on, the alerts about storages,  *)
(* the class of a failed request, percentages, the samples of a trend.     *)
(* No state is kept here.                                                  *)
(*                                                                         *)
(* The rules look for words inside the texts Proxmox answers with, letter  *)
(* case aside.  A text is one of Texts and Contained names the rule words  *)
(* that occur in it; the rules never look at anything else of a text but   *)
(* whether it is exactly a given one.                                      *)
(***************************************************************************)
EXTENDS Integers, Sequences

CONSTANTS
  Texts,      \* texts Proxmox answers with, the missing one included
  Contained   \* for each text the rule words that occur in it

Blank == ""

ASSUME VerdictAssumption ==
  /\ Blank \in Texts
  /\ \A t \in Texts : Contained[t] \subseteq STRING
  /\ Contained[Blank] = {}

FirstText(a, b) == IF a # Blank THEN a ELSE b

Says(text, words) == Contained[text] \cap words # {}

-----------------------------------------------------------------------------
(***************************************************************************)
(* Health.                                                                 *)
(***************************************************************************)
Health == {"unknown", "ok", "warning", "critical"}

Rank(h) == CASE h = "critical" -> 3 [] h = "warning" -> 2 [] h = "ok" -> 1 [] OTHER -> 0

\* Slip: the later verdict wins over an equal or a better one.
LaterHealth(a, b) == IF Rank(b) >= 1 THEN b ELSE a

MaxHealth(a, b) == IF Rank(b) > Rank(a) THEN b ELSE a

\* The first rule that applies counts, whatever else the text says.
HealthFromText(text) ==
  IF Says(text, {"online", "active", "ok", "pass", "healthy"}) THEN "ok"
  ELSE IF Says(text, {"degraded", "warn"}) THEN "warning"
  ELSE IF Says(text, {"fault", "fail", "error", "critical", "offline"}) THEN "critical"
  ELSE "unknown"

Level(pct, warn, crit) ==
  IF pct >= crit THEN "critical" ELSE IF pct >= warn THEN "warning" ELSE "ok"

(***************************************************************************)
(* Answers about a cluster.                                                *)
(***************************************************************************)
\* The nodes of a cluster: how many there are, how many are online.
ClusterHealth(quorate, total, online) ==
  IF ~quorate THEN "critical" ELSE IF online < total THEN "warning" ELSE "ok"

HAHealth(state, requested) ==
  LET text == FirstText(state, requested)
  IN  IF Says(text, {"error", "fail", "fence"}) THEN "critical"
      ELSE IF text # Blank /\ ~Says(text, {"started", "disabled", "ignored"}) THEN "warning"
      ELSE "ok"

\* The prefix HEALTH_ is cut off before the text is judged.
CephText(status) ==
  CASE status = "HEALTH_OK" -> "OK" [] status = "HEALTH_WARN" -> "WARN"
    [] status = "HEALTH_ERR" -> "ERR" [] OTHER -> status

CephHealth(status) == HealthFromText(CephText(status))

\* A replication job, or what the node tells of its last run.
Replication == [status : Texts, error : Texts, failed : Nat]

\* What the node tells goes before what the job list told, where it tells anything.
WithStatus(job, told) ==
  [status |-> FirstText(told.status, job.status),
   error  |-> FirstText(told.error, job.error),
   failed |-> IF told.failed > 0 THEN told.failed ELSE job.failed]

ReplicationHealth(job) ==
  IF job.error # Blank \/ job.failed > 0 \/ job.status \notin {Blank, "OK"}
  THEN "warning" ELSE "ok"

(***************************************************************************)
(* Answers about a node.  Times are hours.                                 *)
(***************************************************************************)
CertificateHealth(notAfter, now) ==
  IF notAfter = 0 THEN "ok"
  ELSE IF notAfter <= now THEN "critical"
  ELSE IF (notAfter - now) \div 24 <= 30 THEN "warning" ELSE "ok"

ServiceHealth(state) == IF Says(state, {"failed"}) THEN "warning" ELSE "ok"

SubscriptionHealth(status) == IF status \in {Blank, "ACTIVE"} THEN "ok" ELSE "warning"

DiskHealth(smart) ==
  IF Says(smart, {"fail", "bad", "critical"}) THEN "critical"
  ELSE IF Says(smart, {"warn"}) THEN "warning"
  ELSE IF Says(smart, {"pass", "ok", "healthy"}) THEN "ok"
  ELSE "unknown"

TaskHealth(status) == IF status \in {Blank, "OK"} THEN "ok" ELSE "warning"

\* A device of a pool.
Device == [state : Texts, errors : BOOLEAN]

\* Slip: only the states of the devices count, not their errors.
DeviceStates(devices) == {d \in devices : d.state \notin {Blank, "ONLINE", "AVAIL"}}

\* The devices that count as an issue of their pool, by their state or their errors.
DeviceIssues(devices) == {d \in devices : d.state \notin {Blank, "ONLINE", "AVAIL"} \/ d.errors}

\* A pool as the list tells it, and when its detail has been read too.
PoolHealth(health, status) == HealthFromText(FirstText(health, status))

PoolHealthInDetail(listed, state, devices) ==
  LET counted == IF DeviceIssues(devices) # {} THEN MaxHealth(listed, "warning") ELSE listed
  IN  IF state = Blank THEN counted ELSE MaxHealth(counted, HealthFromText(state))

(***************************************************************************)
(* Answers about a storage.                                                *)
(***************************************************************************)
StorageStatusHealth(status) ==
  IF status \in {Blank, "AVAILABLE", "OK"} THEN "ok" ELSE "warning"

StorageContentQueryable(status, content) ==
  status \in {Blank, "AVAILABLE", "OK"} /\ content # Blank

(***************************************************************************)
(* The outcome of a request, in the capability log.                        *)
(***************************************************************************)
\* Answered is 200; 0 stands for a request without an answer.
CapabilityStatus(http) ==
  CASE http = 200 -> "ok"
    [] http \in {401, 403} -> "forbidden"
    [] http = 404 -> "not_found"
    [] http >= 500 -> "not_available"
    [] OTHER -> "error"

CapabilityRank(status) ==
  CASE status = "error" -> 5
    [] status = "forbidden" -> 4
    [] status \in {"not_available", "not_found"} -> 3
    [] status = "ok" -> 1
=============================================================================
