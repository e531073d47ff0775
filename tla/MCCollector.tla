----------------------------- MODULE MCCollector ----------------------------
(***************************************************************************)
(* A healthy node, and nodes that differ from it in many respects;         *)
(* percentages are 0 to 3 with the warning at 1 and the critical level at  *)
(* 2.                                                                      *)
(***************************************************************************)
EXTENDS Collector

AllWell ==
  [online |-> TRUE, mem |-> 0, root |-> 0, stored |-> 0, storage |-> "AVAILABLE",
   guest |-> "RUNNING", until |-> 9000, service |-> "RUNNING", pool |-> "ONLINE",
   device |-> "ONLINE", subscription |-> "ACTIVE", disk |-> "PASSED", task |-> "OK"]

FullMemory ==
  [AllWell EXCEPT !.mem = 2, !.root = 3, !.stored = 1, !.until = 743,
                  !.service = "FAILED", !.device = "UNAVAIL", !.task = "JOB ERRORS"]
FullStorage ==
  [AllWell EXCEPT !.mem = 1, !.root = 2, !.stored = 3, !.storage = "UNKNOWN",
                  !.guest = "STOPPED", !.until = -1, !.pool = "FAULTED", !.disk = "FAILED"]
Offline ==
  [AllWell EXCEPT !.online = FALSE, !.pool = "UNAVAIL", !.guest = "GONE"]

MCNodeWorlds == {AllWell, FullMemory, FullStorage, Offline}
BadDisk == {[AllWell EXCEPT !.disk = "FAILED"]}

SourceWell == [quorate |-> TRUE, ha |-> "STARTED", ceph |-> "HEALTH_OK", replication |-> "OK"]
MCSourceWorlds ==
  {SourceWell,
   [quorate |-> FALSE, ha |-> "ERROR", ceph |-> "HEALTH_WARN", replication |-> "ERROR"]}
CephError == {[SourceWell EXCEPT !.ceph = "HEALTH_ERR"]}

MCContained ==
  [t \in {"", "UNAVAIL", "RUNNING", "STOPPED", "UNKNOWN", "AVAIL", "ERR"} |-> {}]
  @@ [t \in {"ONLINE"} |-> {"online"}]
  @@ [t \in {"ACTIVE"} |-> {"active"}]
  @@ [t \in {"OK", "HEALTH_OK"} |-> {"ok"}]
  @@ [t \in {"WARN", "HEALTH_WARN"} |-> {"warn"}]
  @@ [t \in {"PASSED"} |-> {"pass"}]
  @@ [t \in {"DEGRADED"} |-> {"degraded"}]
  @@ [t \in {"FAULTED"} |-> {"fault"}]
  @@ [t \in {"FAILED"} |-> {"fail", "failed"}]
  @@ [t \in {"OFFLINE"} |-> {"offline"}]
  @@ [t \in {"ERROR", "JOB ERRORS"} |-> {"error"}]
  @@ [t \in {"STARTED"} |-> {"started"}]
  @@ [t \in {"AVAILABLE", "HEALTH_ERR"} |-> {}]
MCTexts == DOMAIN MCContained

\* The proofs about Collector rest on it.
ASSUME MCReadAsMeant == ReadAsMeant

\* All nodes in one cluster.
OneHome == [n \in Nodes |-> 1]
=============================================================================
