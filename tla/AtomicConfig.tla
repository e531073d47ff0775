---------------------------- MODULE AtomicConfig ----------------------------
(***************************************************************************)
(* What the bridge's configuration promises to administrators: a single    *)
(* object that each accepted operation changes in one step.  A restart     *)
(* keeps it, or finds one accepted operation more, done whole or without   *)
(* its secrets.  Manager implements this for one administrator at a time   *)
(* and not for two: see ManagerRefinement in Manager.tla.                  *)
(*                                                                         *)
(* What an operation does is a parameter here, and is what BridgeConfig    *)
(* says of it there.                                                       *)
(***************************************************************************)
CONSTANTS
  Operations,
  Installed,
  Accepted(_, _, _),  \* whether an operation is, for a configuration and secrets
  Prepared(_, _, _),  \* the pair it makes of them
  Strip(_)            \* a configuration without secrets

VARIABLES
  config,   \* the configuration without secrets
  secrets

vars == <<config, secrets>>

Init ==
  \E i \in Installed : config = Strip(i.config) /\ secrets = i.secrets

Perform(op) ==
  /\ Accepted(op, config, secrets)
  /\ LET p == Prepared(op, config, secrets)
     IN  config' = Strip(p.config) /\ secrets' = p.secrets

\* A restart after config.yaml was replaced and secrets.yaml was not.
RestartHalfway(op) ==
  /\ Accepted(op, config, secrets)
  /\ config' = Strip(Prepared(op, config, secrets).config)
  /\ UNCHANGED secrets

Next == \E op \in Operations : Perform(op) \/ RestartHalfway(op)

Spec == Init /\ [][Next]_vars
=============================================================================
