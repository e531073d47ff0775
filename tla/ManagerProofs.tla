---------------------------- MODULE ManagerProofs ---------------------------
(***************************************************************************)
(* Theorems about the manager, for every set of sources, tokens, requests  *)
(* and installations: that two operations never get ahead of the disk,     *)
(* what it keeps and answers however many requests overlap, and what holds *)
(* for one administrator at a time, up to the refinement of AtomicConfig.  *)
(***************************************************************************)
EXTENDS Manager, Diagnostics, ConfigLemmas

(***************************************************************************)
(* Type correctness, for any number of requests at once.                   *)
(***************************************************************************)
\* The bridge starts well-formed.
LEMMA InitType == Init => TypeOK
<1> SUFFICES ASSUME Init PROVE TypeOK
  OBVIOUS
<1>1. PICK i \in Installed :
        /\ up = TRUE
        /\ diskConfig = i.config
        /\ diskSecrets = i.secrets
        /\ cfg = Load(i.config, i.secrets)
        /\ secrets = i.secrets
        /\ req = [c \in Clients |-> Idle]
  BY DEF Init
<1>2. i.config \in Config /\ i.secrets \in Secrets
  BY ManagerAssumption
<1>3. cfg \in Config
  BY <1>1, <1>2, LoadType
<1>4. QED
  BY <1>1, <1>2, <1>3 DEF TypeOK

\* A request that has begun keeps its shape when it moves on.
LEMMA Working ==
  ASSUME TypeOK, NEW c \in Clients, req[c].pc \in Steps
  PROVE  /\ req[c] \in InFlight
         /\ req[c].config \in Config
         /\ req[c].secrets \in Secrets
         /\ \A pc \in Steps : [req EXCEPT ![c].pc = pc] \in [Clients -> {Idle} \cup InFlight]
<1>1. req[c] \in {Idle} \cup InFlight
  BY DEF TypeOK
<1>2. req[c] # Idle
  <2>1. Idle.pc = "idle"
    BY DEF Idle
  <2>2. "idle" \notin Steps
    BY DEF Steps
  <2>3. QED
    BY <2>1, <2>2
<1>3. req[c] \in InFlight
  BY <1>1, <1>2
<1>4. ASSUME NEW pc \in Steps PROVE [req EXCEPT ![c].pc = pc] \in [Clients -> {Idle} \cup InFlight]
  <2>1. [req[c] EXCEPT !.pc = pc] \in InFlight
    BY <1>3 DEF InFlight
  <2>2. QED
    BY <2>1 DEF TypeOK
<1>5. QED
  BY <1>3, <1>4 DEF InFlight

\* Every step leaves it well-formed.
LEMMA NextType == TypeOK /\ [Next]_vars => TypeOK'
<1> SUFFICES ASSUME TypeOK, [Next]_vars PROVE TypeOK'
  OBVIOUS
<1>1. ASSUME NEW c \in Clients, NEW op \in Operations, Begin(c, op) PROVE TypeOK'
  <2> DEFINE p == Prepared(op, cfg, secrets)
             r == [pc |-> "save config", op |-> op, config |-> p.config, secrets |-> p.secrets]
  <2>1. op \in Operation
    BY ManagerAssumption
  <2>2. p.config \in Config /\ p.secrets \in Secrets
    BY <2>1, PreparedType DEF TypeOK
  <2>3. req' = [req EXCEPT ![c] = r]
    BY <1>1 DEF Begin
  <2> HIDE DEF p
  <2>4. r \in InFlight
    BY <2>2 DEF InFlight, Steps
  <2> HIDE DEF r
  <2>5. req' \in [Clients -> {Idle} \cup InFlight]
    BY <2>3, <2>4 DEF TypeOK
  <2>6. QED
    BY <1>1, <2>5 DEF Begin, memory, disk, TypeOK
<1>2. ASSUME NEW c \in Clients, SaveConfig(c) PROVE TypeOK'
  <2>1. req[c].pc \in Steps
    BY <1>2 DEF SaveConfig, Steps
  <2>2. req[c] \in InFlight /\ req[c].config \in Config
    BY <2>1, Working
  <2>3. Strip(req[c].config) \in Config /\ WipeValues(req[c].config) \in Config
    BY <2>2, StripType, WipeType
  <2> DEFINE r == [req[c] EXCEPT !.pc = "save secrets", !.config = WipeValues(req[c].config)]
  <2>4. r \in InFlight
    BY <2>2, <2>3 DEF InFlight, Steps
  <2>5. req' = [req EXCEPT ![c] = r]
    BY <1>2, <2>2 DEF SaveConfig, InFlight, TypeOK
  <2> HIDE DEF r
  <2>6. req' \in [Clients -> {Idle} \cup InFlight]
    BY <2>4, <2>5 DEF TypeOK
  <2>7. QED
    BY <1>2, <2>3, <2>6 DEF SaveConfig, memory, TypeOK
<1>3. ASSUME NEW c \in Clients, SaveSecrets(c) PROVE TypeOK'
  <2>1. req[c].pc \in Steps
    BY <1>3 DEF SaveSecrets, Steps
  <2>2. req' \in [Clients -> {Idle} \cup InFlight]
    BY <1>3, <2>1, Working DEF SaveSecrets, Goto, Steps
  <2>3. QED
    BY <1>3, <2>1, <2>2, Working DEF SaveSecrets, memory, TypeOK
<1>4. ASSUME NEW c \in Clients, SaveFails(c) PROVE TypeOK'
  BY <1>4 DEF SaveFails, Finish, memory, disk, TypeOK
<1>5. ASSUME NEW c \in Clients, Reconfigure(c) PROVE TypeOK'
  <2>1. req[c].pc \in Steps
    BY <1>5 DEF Reconfigure, Steps
  <2>2. req' \in [Clients -> {Idle} \cup InFlight]
    BY <1>5, <2>1, Working DEF Reconfigure, Goto, Steps
  <2>3. QED
    BY <1>5, <2>1, <2>2, Working DEF Reconfigure, disk, TypeOK
<1>6. ASSUME NEW c \in Clients, Publish(c) PROVE TypeOK'
  <2>1. req[c].pc \in Steps
    BY <1>6 DEF Publish, Steps
  <2>2. req' \in [Clients -> {Idle} \cup InFlight]
    BY <1>6, <2>1, Working DEF Publish, Goto, Steps
  <2>3. QED
    BY <1>6, <2>1, <2>2, Working DEF Publish, disk, TypeOK
<1>7. ASSUME NEW c \in Clients, Answer(c) PROVE TypeOK'
  BY <1>7 DEF Answer, Finish, memory, disk, TypeOK
<1>8. CASE Crash
  BY <1>8 DEF Crash, memory, disk, TypeOK
<1>9. CASE Start
  <2>1. cfg' \in Config
    BY <1>9, LoadType DEF Start, TypeOK
  <2>2. QED
    BY <1>9, <2>1 DEF Start, disk, TypeOK
<1>10. CASE UNCHANGED vars
  BY <1>10 DEF vars, disk, memory, TypeOK
<1>11. QED
  BY <1>1, <1>2, <1>3, <1>4, <1>5, <1>6, <1>7, <1>8, <1>9, <1>10 DEF Next

\* Whatever requests, failures and restarts come, every variable of the manager
\* and every copy a request works on is a well-formed config or set of secrets.
THEOREM TypeCorrect == Spec => []TypeOK
BY InitType, NextType, PTL DEF Spec

-----------------------------------------------------------------------------
(***************************************************************************)
(* One administrator at a time: disk and memory.  OneOperationAhead says   *)
(* nothing of the request in flight, and so is not inductive; InStep adds  *)
(* where each step of a request leaves the two files, and that its copy is *)
(* what its operation makes of the configuration it was taken from.        *)
(***************************************************************************)
OneAdministrator == \A c, d \in Clients : c = d

\* The copy of a request, up to the values that Save blanks in it.
CopyOf(r) ==
  /\ Accepted(r.op, cfg, secrets)
  /\ Strip(r.config) = Strip(Prepared(r.op, cfg, secrets).config)
  /\ r.secrets = Prepared(r.op, cfg, secrets).secrets

RequestInStep(r) ==
  /\ r.pc \in {"idle", "save config", "save secrets"} => diskSecrets = secrets
  /\ r.pc \in {"save config", "save secrets", "reconfigure", "publish"} => CopyOf(r)
  /\ r.pc \in {"save secrets", "reconfigure", "publish"} =>
       Strip(diskConfig) = Strip(r.config)
  /\ r.pc \in {"reconfigure", "publish"} => diskSecrets = r.secrets
  /\ r.pc = "refresh" => DiskIsMemory

InStep ==
  /\ \A c \in Clients : up => RequestInStep(req[c])
  /\ ~up => \A c \in Clients : req[c] = Idle

AheadInv == TypeOK /\ InStep /\ OneOperationAhead

\* Loading what is on disk makes memory and disk agree.
LEMMA LoadedInStep ==
  ASSUME NEW c \in Config, NEW s \in Secrets, ~Mock
  PROVE  Strip(c) = Strip(Load(c, s))
BY StripLoad

\* The bridge starts with memory and disk in agreement and no request.
LEMMA InitAhead == ASSUME ~Mock PROVE Init => AheadInv
<1> SUFFICES ASSUME Init PROVE AheadInv
  OBVIOUS
<1>1. TypeOK
  BY InitType
<1>2. /\ up = TRUE
      /\ cfg = Load(diskConfig, diskSecrets)
      /\ secrets = diskSecrets
      /\ req = [c \in Clients |-> Idle]
  BY DEF Init
<1>3. DiskIsMemory
  BY <1>1, <1>2, LoadedInStep DEF DiskIsMemory, TypeOK
<1>4. ASSUME NEW c \in Clients PROVE RequestInStep(req[c])
  BY <1>2, <1>3 DEF RequestInStep, Idle
<1>5. QED
  BY <1>1, <1>2, <1>3, <1>4 DEF AheadInv, InStep, OneOperationAhead

\* An idle request is at none of the steps.
LEMMA IdleStep == Idle.pc = "idle" /\ "idle" \notin Steps
BY DEF Idle, Steps

\* Every step of the only request keeps memory and disk in step.
LEMMA NextAhead ==
  ASSUME ~Mock, OneAdministrator, AheadInv, [Next]_vars
  PROVE  AheadInv'
<1>1. TypeOK'
  BY NextType DEF AheadInv
<1>2. TypeOK /\ InStep /\ OneOperationAhead
  BY DEF AheadInv
<1>3. ASSUME NEW c \in Clients, req[c].pc \in Steps
      PROVE  /\ up
             /\ RequestInStep(req[c])
             /\ req[c] \in InFlight
             /\ req[c].op \in Operations
             /\ req[c].config \in Config
             /\ \A d \in Clients : d = c
  <2>1. req[c] \in InFlight /\ req[c].config \in Config
    BY <1>2, <1>3, Working
  <2>2. req[c] # Idle
    BY <1>3, IdleStep
  <2>3. up
    BY <1>2, <2>2 DEF InStep
  <2>4. req[c].op \in Operations
    BY <2>1 DEF InFlight
  <2>5. QED
    BY <1>2, <2>1, <2>3, <2>4 DEF InStep, OneAdministrator
<1>4. ASSUME NEW c \in Clients, NEW op \in Operations, Begin(c, op)
      PROVE  InStep' /\ OneOperationAhead'
  <2> DEFINE p == Prepared(op, cfg, secrets)
             r == [pc |-> "save config", op |-> op, config |-> p.config, secrets |-> p.secrets]
  <2>1. /\ up /\ req[c] = Idle /\ Accepted(op, cfg, secrets)
        /\ req' = [req EXCEPT ![c] = r]
        /\ up' = up /\ cfg' = cfg /\ secrets' = secrets
        /\ diskConfig' = diskConfig /\ diskSecrets' = diskSecrets
    BY <1>4 DEF Begin, memory, disk
  <2>2. diskSecrets = secrets
    <3>1. RequestInStep(req[c])
      BY <1>2, <2>1 DEF InStep
    <3>2. QED
      BY <3>1, <2>1, IdleStep DEF RequestInStep
  <2>3. \A d \in Clients : req'[d] = r
    BY <1>2, <2>1 DEF TypeOK, OneAdministrator
  <2>4. ASSUME NEW d \in Clients PROVE RequestInStep(req[d])'
    <3>1. r.pc = "save config" /\ r.op = op /\ r.config = p.config /\ r.secrets = p.secrets
      OBVIOUS
    <3> HIDE DEF p, r
    <3>2. req'[d] = r
      BY <2>3
    <3>3. /\ req'[d].pc = "save config" /\ req'[d].op = op
          /\ req'[d].config = p.config /\ req'[d].secrets = p.secrets
      BY <3>1, <3>2
    <3>4. CopyOf(req[d])'
      BY <2>1, <3>3 DEF CopyOf, p
    <3>5. QED
      BY <2>1, <2>2, <3>3, <3>4 DEF RequestInStep
  <2>5. InStep'
    BY <2>1, <2>4 DEF InStep
  <2>6. OneOperationAhead'
    BY <1>2, <2>1 DEF OneOperationAhead, DiskIsMemory, DiskAhead
  <2>7. QED
    BY <2>5, <2>6
<1>5. ASSUME NEW c \in Clients, SaveConfig(c)
      PROVE  InStep' /\ OneOperationAhead'
  <2> DEFINE k == req[c].config
             r == [req[c] EXCEPT !.pc = "save secrets", !.config = WipeValues(req[c].config)]
  <2>1. /\ req[c].pc = "save config" /\ req[c].pc \in Steps
        /\ up' = up /\ cfg' = cfg /\ secrets' = secrets
        /\ diskConfig' = Strip(k) /\ diskSecrets' = diskSecrets
    BY <1>5 DEF SaveConfig, memory, Steps
  <2>2. /\ up /\ RequestInStep(req[c]) /\ req[c] \in InFlight
        /\ req[c].op \in Operations /\ k \in Config
        /\ \A d \in Clients : d = c
    BY <1>3, <2>1
  <2>3. diskSecrets = secrets /\ CopyOf(req[c])
    BY <2>1, <2>2 DEF RequestInStep
  <2>4. req'[c] = r
    BY <1>2, <1>5, <2>2 DEF SaveConfig, InFlight, TypeOK
  <2>5. /\ req'[c].pc = "save secrets" /\ req'[c].op = req[c].op
        /\ req'[c].secrets = req[c].secrets /\ req'[c].config = WipeValues(k)
    BY <2>2, <2>4 DEF InFlight
  <2>6. Strip(WipeValues(k)) = Strip(k) /\ Strip(Strip(k)) = Strip(k)
    BY <2>2, StripWipe, StripTwice
  <2>7. RequestInStep(req[c])'
    BY <2>1, <2>3, <2>5, <2>6 DEF RequestInStep, CopyOf
  <2>8. InStep'
    BY <2>1, <2>2, <2>7 DEF InStep
  <2>9. DiskAhead(req[c].op)'
    BY <2>1, <2>3, <2>5, <2>6 DEF DiskAhead, CopyOf
  <2>10. QED
    BY <2>2, <2>5, <2>8, <2>9 DEF OneOperationAhead
<1>6. ASSUME NEW c \in Clients, SaveSecrets(c)
      PROVE  InStep' /\ OneOperationAhead'
  <2>1. /\ req[c].pc = "save secrets" /\ req[c].pc \in Steps
        /\ up' = up /\ cfg' = cfg /\ secrets' = secrets
        /\ diskConfig' = diskConfig /\ diskSecrets' = req[c].secrets
        /\ req' = [req EXCEPT ![c].pc = "reconfigure"]
    BY <1>6 DEF SaveSecrets, Goto, memory, Steps
  <2>2. /\ up /\ RequestInStep(req[c]) /\ req[c] \in InFlight
        /\ req[c].op \in Operations
        /\ \A d \in Clients : d = c
    BY <1>3, <2>1
  <2>3. CopyOf(req[c]) /\ Strip(diskConfig) = Strip(req[c].config)
    BY <2>1, <2>2 DEF RequestInStep
  <2>4. /\ req'[c].pc = "reconfigure" /\ req'[c].op = req[c].op
        /\ req'[c].secrets = req[c].secrets /\ req'[c].config = req[c].config
    BY <1>2, <2>1, <2>2 DEF InFlight, TypeOK
  <2>5. RequestInStep(req[c])'
    BY <2>1, <2>3, <2>4 DEF RequestInStep, CopyOf
  <2>6. InStep'
    BY <2>1, <2>2, <2>5 DEF InStep
  <2>7. DiskAhead(req[c].op)'
    BY <2>1, <2>3, <2>4 DEF DiskAhead, CopyOf
  <2>8. QED
    BY <2>2, <2>4, <2>6, <2>7 DEF OneOperationAhead
<1>7. ASSUME NEW c \in Clients, SaveFails(c)
      PROVE  InStep' /\ OneOperationAhead'
  <2>1. /\ req[c].pc \in {"save config", "save secrets"} /\ req[c].pc \in Steps
        /\ up' = up /\ cfg' = cfg /\ secrets' = secrets
        /\ diskConfig' = diskConfig /\ diskSecrets' = diskSecrets
        /\ req' = [req EXCEPT ![c] = Idle]
    BY <1>7 DEF SaveFails, Finish, memory, disk, Steps
  <2>2. up /\ RequestInStep(req[c]) /\ \A d \in Clients : d = c
    BY <1>3, <2>1
  <2>3. diskSecrets = secrets
    BY <2>1, <2>2 DEF RequestInStep
  <2>4. req'[c] = Idle
    BY <1>2, <2>1 DEF TypeOK
  <2>5. RequestInStep(req[c])'
    BY <2>1, <2>3, <2>4, IdleStep DEF RequestInStep
  <2>6. InStep'
    BY <2>1, <2>2, <2>5 DEF InStep
  <2>7. QED
    BY <1>2, <2>1, <2>6 DEF OneOperationAhead, DiskIsMemory, DiskAhead
<1>8. ASSUME NEW c \in Clients, Reconfigure(c)
      PROVE  InStep' /\ OneOperationAhead'
  <2>1. /\ req[c].pc = "reconfigure" /\ req[c].pc \in Steps
        /\ up' = up /\ cfg' = cfg /\ secrets' = secrets
        /\ diskConfig' = diskConfig /\ diskSecrets' = diskSecrets
        /\ req' = [req EXCEPT ![c].pc = "publish"]
    BY <1>8 DEF Reconfigure, Goto, disk, Steps
  <2>2. /\ up /\ RequestInStep(req[c]) /\ req[c] \in InFlight
        /\ \A d \in Clients : d = c
    BY <1>3, <2>1
  <2>3. /\ req'[c].pc = "publish" /\ req'[c].op = req[c].op
        /\ req'[c].secrets = req[c].secrets /\ req'[c].config = req[c].config
    BY <1>2, <2>1, <2>2 DEF InFlight, TypeOK
  <2>4. RequestInStep(req[c])'
    BY <2>1, <2>2, <2>3 DEF RequestInStep, CopyOf
  <2>5. InStep'
    BY <2>1, <2>2, <2>4 DEF InStep
  <2>6. QED
    BY <1>2, <2>1, <2>5 DEF OneOperationAhead, DiskIsMemory, DiskAhead
<1>9. ASSUME NEW c \in Clients, Publish(c)
      PROVE  InStep' /\ OneOperationAhead'
  <2>1. /\ req[c].pc = "publish" /\ req[c].pc \in Steps
        /\ up' = up /\ cfg' = req[c].config /\ secrets' = req[c].secrets
        /\ diskConfig' = diskConfig /\ diskSecrets' = diskSecrets
        /\ req' = [req EXCEPT ![c].pc = "refresh"]
    BY <1>9 DEF Publish, Goto, disk, Steps
  <2>2. /\ up /\ RequestInStep(req[c]) /\ req[c] \in InFlight
        /\ \A d \in Clients : d = c
    BY <1>3, <2>1
  <2>3. Strip(diskConfig) = Strip(req[c].config) /\ diskSecrets = req[c].secrets
    BY <2>1, <2>2 DEF RequestInStep
  <2>4. DiskIsMemory'
    BY <2>1, <2>3 DEF DiskIsMemory
  <2>5. req'[c].pc = "refresh"
    BY <1>2, <2>1, <2>2 DEF InFlight, TypeOK
  <2>6. RequestInStep(req[c])'
    BY <2>4, <2>5 DEF RequestInStep
  <2>7. InStep'
    BY <2>1, <2>2, <2>6 DEF InStep
  <2>8. QED
    BY <2>4, <2>7 DEF OneOperationAhead
<1>10. ASSUME NEW c \in Clients, Answer(c)
       PROVE  InStep' /\ OneOperationAhead'
  <2>1. /\ req[c].pc = "refresh" /\ req[c].pc \in Steps
        /\ up' = up /\ cfg' = cfg /\ secrets' = secrets
        /\ diskConfig' = diskConfig /\ diskSecrets' = diskSecrets
        /\ req' = [req EXCEPT ![c] = Idle]
    BY <1>10 DEF Answer, Finish, memory, disk, Steps
  <2>2. up /\ RequestInStep(req[c]) /\ \A d \in Clients : d = c
    BY <1>3, <2>1
  <2>3. diskSecrets = secrets
    BY <2>1, <2>2 DEF RequestInStep, DiskIsMemory
  <2>4. req'[c] = Idle
    BY <1>2, <2>1 DEF TypeOK
  <2>5. RequestInStep(req[c])'
    BY <2>1, <2>3, <2>4, IdleStep DEF RequestInStep
  <2>6. InStep'
    BY <2>1, <2>2, <2>5 DEF InStep
  <2>7. QED
    BY <1>2, <2>1, <2>6 DEF OneOperationAhead, DiskIsMemory, DiskAhead
<1>11. ASSUME Crash
       PROVE  InStep' /\ OneOperationAhead'
  <2>1. /\ ~up' /\ req' = [c \in Clients |-> Idle]
        /\ cfg' = cfg /\ secrets' = secrets
        /\ diskConfig' = diskConfig /\ diskSecrets' = diskSecrets
    BY <1>11 DEF Crash, memory, disk
  <2>2. InStep'
    BY <2>1 DEF InStep
  <2>3. QED
    BY <1>2, <2>1, <2>2 DEF OneOperationAhead, DiskIsMemory, DiskAhead
<1>12. ASSUME Start
       PROVE  InStep' /\ OneOperationAhead'
  <2>1. /\ ~up /\ up'
        /\ cfg' = Load(diskConfig, diskSecrets) /\ secrets' = diskSecrets
        /\ diskConfig' = diskConfig /\ diskSecrets' = diskSecrets
        /\ req' = req
    BY <1>12 DEF Start, disk
  <2>2. DiskIsMemory'
    BY <1>2, <2>1, LoadedInStep DEF DiskIsMemory, TypeOK
  <2>3. ASSUME NEW c \in Clients PROVE RequestInStep(req[c])'
    <3>1. req'[c] = Idle
      BY <1>2, <2>1 DEF InStep
    <3>2. QED
      BY <2>1, <3>1, IdleStep DEF RequestInStep
  <2>4. InStep'
    BY <2>1, <2>3 DEF InStep
  <2>5. QED
    BY <2>2, <2>4 DEF OneOperationAhead
<1>13. CASE UNCHANGED vars
  <2>1. /\ up' = up /\ cfg' = cfg /\ secrets' = secrets
        /\ diskConfig' = diskConfig /\ diskSecrets' = diskSecrets /\ req' = req
    BY <1>13 DEF vars
  <2>2. InStep'
    BY <1>2, <2>1 DEF InStep, RequestInStep, CopyOf, DiskIsMemory
  <2>3. OneOperationAhead'
    BY <1>2, <2>1 DEF OneOperationAhead, DiskIsMemory, DiskAhead
  <2>4. QED
    BY <1>1, <2>2, <2>3 DEF AheadInv
<1>14. QED
  BY <1>1, <1>4, <1>5, <1>6, <1>7, <1>8, <1>9, <1>10, <1>11, <1>12, <1>13
     DEF Next, AheadInv

\* For one administrator at a time, whatever crashes and failed writes come:
\* what a restart would load is what the manager works with, or that with one
\* accepted operation done, whole or without its secrets.
THEOREM OneAhead ==
  ASSUME ~Mock, OneAdministrator
  PROVE  Spec => []OneOperationAhead
<1>1. Init => AheadInv
  BY InitAhead
<1>2. AheadInv /\ [Next]_vars => AheadInv'
  BY NextAhead
<1>3. AheadInv => OneOperationAhead
  BY DEF AheadInv
<1>4. QED
  BY <1>1, <1>2, <1>3, PTL DEF Spec

-----------------------------------------------------------------------------
(***************************************************************************)
(* Any number of requests.  The tokens of a config are those of the        *)
(* secrets it is kept with, in memory and in every request's copy; so      *)
(* merging the secrets into a copy Save has blanked gives back the config  *)
(* whose collector was built before.                                       *)
(***************************************************************************)
CopyUsable(r) ==
  /\ ValuesFrom(r.config, r.secrets)
  /\ ApplyDefaults(r.config) = r.config
  /\ CollectorBuilds(Effective(r.config, r.secrets))

UsableInv ==
  /\ TypeOK
  /\ ValuesFrom(cfg, secrets)
  /\ ApplyDefaults(cfg) = cfg
  /\ WipeValues(diskConfig) = diskConfig
  /\ \A c \in Clients : req[c].pc \in Steps => CopyUsable(req[c])

\* The bridge starts that way.
LEMMA InitUsable == Init => UsableInv
<1> SUFFICES ASSUME Init PROVE UsableInv
  OBVIOUS
<1>1. PICK i \in Installed :
        /\ diskConfig = i.config
        /\ cfg = Load(i.config, i.secrets)
        /\ secrets = i.secrets
        /\ req = [c \in Clients |-> Idle]
  BY DEF Init
<1>2. i.config \in Config /\ i.secrets \in Secrets /\ WipeValues(i.config) = i.config
  BY ManagerAssumption
<1>3. QED
  BY <1>1, <1>2, InitType, LoadValues, IdleStep DEF UsableInv

\* A request that only moves on keeps its copy.
LEMMA MovesOn ==
  ASSUME TypeOK, NEW c \in Clients, req[c].pc \in Steps, NEW pc \in Steps,
         req' = [req EXCEPT ![c].pc = pc]
  PROVE  /\ req'[c].pc = pc /\ req'[c].op = req[c].op
         /\ req'[c].config = req[c].config /\ req'[c].secrets = req[c].secrets
         /\ \A d \in Clients \ {c} : req'[d] = req[d]
<1>1. req[c] \in InFlight
  BY Working
<1>2. req'[c] = [req[c] EXCEPT !.pc = pc] /\ \A d \in Clients \ {c} : req'[d] = req[d]
  BY DEF TypeOK
<1>3. QED
  BY <1>1, <1>2 DEF InFlight

\* SaveConfig blanks the values in the request's copy and leaves the rest.
LEMMA Wiped ==
  ASSUME TypeOK, NEW c \in Clients, SaveConfig(c)
  PROVE  /\ req[c] \in InFlight
         /\ req'[c].pc = "save secrets" /\ req'[c].op = req[c].op
         /\ req'[c].config = WipeValues(req[c].config) /\ req'[c].secrets = req[c].secrets
         /\ \A d \in Clients \ {c} : req'[d] = req[d]
<1>1. req[c] \in InFlight
  BY Working DEF SaveConfig, Steps
<1>2. /\ req'[c] = [req[c] EXCEPT !.pc = "save secrets", !.config = WipeValues(req[c].config)]
      /\ \A d \in Clients \ {c} : req'[d] = req[d]
  BY <1>1 DEF SaveConfig, InFlight, TypeOK
<1>3. QED
  BY <1>1, <1>2 DEF InFlight

\* A request that begins works on a copy that can be used.
LEMMA BeginsUsable ==
  ASSUME UsableInv, NEW c \in Clients, NEW op \in Operations, Begin(c, op)
  PROVE  /\ req'[c].pc = "save config" /\ req'[c].op = op
         /\ req'[c].config = Prepared(op, cfg, secrets).config
         /\ req'[c].secrets = Prepared(op, cfg, secrets).secrets
         /\ CopyUsable(req'[c])
         /\ \A d \in Clients \ {c} : req'[d] = req[d]
<1> DEFINE p == Prepared(op, cfg, secrets)
           r == [pc |-> "save config", op |-> op, config |-> p.config, secrets |-> p.secrets]
<1>1. /\ req' = [req EXCEPT ![c] = r]
      /\ Accepted(op, cfg, secrets)
  BY DEF Begin
<1>2. req'[c] = r /\ \A d \in Clients \ {c} : req'[d] = req[d]
  BY <1>1 DEF UsableInv, TypeOK
<1>3. /\ r.pc = "save config" /\ r.op = op /\ r.config = p.config /\ r.secrets = p.secrets
  OBVIOUS
<1>4. op \in Operation
  BY ManagerAssumption
<1>5. /\ ValuesFrom(p.config, p.secrets)
      /\ ApplySecrets(p.config, p.secrets) = p.config
      /\ ApplyDefaults(p.config) = p.config
  BY <1>4, PreparedValues DEF UsableInv, TypeOK
<1>6. CollectorBuilds(p.config)
  BY <1>1 DEF Accepted
<1> HIDE DEF p, r
<1>7. QED
  BY <1>2, <1>3, <1>5, <1>6 DEF CopyUsable, Effective, p

\* Every step leaves it that way.
LEMMA NextUsable == UsableInv /\ [Next]_vars => UsableInv'
<1> SUFFICES ASSUME UsableInv, [Next]_vars PROVE UsableInv'
  OBVIOUS
<1>1. TypeOK /\ TypeOK'
  BY NextType DEF UsableInv
<1>2. ASSUME NEW c \in Clients, NEW op \in Operations, Begin(c, op) PROVE UsableInv'
  <2>1. cfg' = cfg /\ secrets' = secrets /\ diskConfig' = diskConfig
    BY <1>2 DEF Begin, memory, disk
  <2>2. CopyUsable(req'[c]) /\ \A d \in Clients \ {c} : req'[d] = req[d]
    BY <1>2, BeginsUsable
  <2>3. QED
    BY <1>1, <2>1, <2>2 DEF UsableInv, CopyUsable, Effective
<1>3. ASSUME NEW c \in Clients, SaveConfig(c) PROVE UsableInv'
  <2> DEFINE k == req[c].config
             s == req[c].secrets
  <2>1. /\ cfg' = cfg /\ secrets' = secrets /\ diskConfig' = Strip(k)
        /\ req[c].pc \in Steps
    BY <1>3 DEF SaveConfig, memory, Steps
  <2>2. k \in Config /\ s \in Secrets /\ CopyUsable(req[c])
    BY <1>1, <2>1, Working DEF UsableInv
  <2>3. WipeValues(Strip(k)) = Strip(k)
    BY <2>2, StripWiped
  <2>4. /\ ValuesFrom(WipeValues(k), s)
        /\ ApplySecrets(WipeValues(k), s) = ApplySecrets(k, s)
        /\ ApplyDefaults(WipeValues(k)) = WipeValues(k)
    BY <2>2, RestoresValues, WipeFilled DEF CopyUsable
  <2>5. CopyUsable(req'[c]) /\ \A d \in Clients \ {c} : req'[d] = req[d]
    BY <1>1, <1>3, <2>2, <2>4, Wiped DEF CopyUsable, Effective
  <2>6. QED
    BY <1>1, <2>1, <2>3, <2>5 DEF UsableInv, CopyUsable, Effective
<1>4. ASSUME NEW c \in Clients, SaveSecrets(c) PROVE UsableInv'
  <2>1. /\ cfg' = cfg /\ secrets' = secrets /\ diskConfig' = diskConfig
        /\ req[c].pc \in Steps /\ req' = [req EXCEPT ![c].pc = "reconfigure"]
    BY <1>4 DEF SaveSecrets, Goto, memory, Steps
  <2>2. /\ req'[c].config = req[c].config /\ req'[c].secrets = req[c].secrets
        /\ \A d \in Clients \ {c} : req'[d] = req[d]
    BY <1>1, <2>1, MovesOn DEF Steps
  <2>3. QED
    BY <1>1, <2>1, <2>2 DEF UsableInv, CopyUsable, Effective
<1>5. ASSUME NEW c \in Clients, SaveFails(c) PROVE UsableInv'
  <2>1. /\ cfg' = cfg /\ secrets' = secrets /\ diskConfig' = diskConfig
        /\ req' = [req EXCEPT ![c] = Idle]
    BY <1>5 DEF SaveFails, Finish, memory, disk
  <2>2. req'[c] = Idle /\ \A d \in Clients \ {c} : req'[d] = req[d]
    BY <1>1, <2>1 DEF TypeOK
  <2>3. QED
    BY <1>1, <2>1, <2>2, IdleStep DEF UsableInv, CopyUsable, Effective
<1>6. ASSUME NEW c \in Clients, Reconfigure(c) PROVE UsableInv'
  <2>1. /\ cfg' = cfg /\ secrets' = secrets /\ diskConfig' = diskConfig
        /\ req[c].pc \in Steps /\ req' = [req EXCEPT ![c].pc = "publish"]
    BY <1>6 DEF Reconfigure, Goto, disk, Steps
  <2>2. /\ req'[c].config = req[c].config /\ req'[c].secrets = req[c].secrets
        /\ \A d \in Clients \ {c} : req'[d] = req[d]
    BY <1>1, <2>1, MovesOn DEF Steps
  <2>3. QED
    BY <1>1, <2>1, <2>2 DEF UsableInv, CopyUsable, Effective
<1>7. ASSUME NEW c \in Clients, Publish(c) PROVE UsableInv'
  <2>1. /\ cfg' = req[c].config /\ secrets' = req[c].secrets /\ diskConfig' = diskConfig
        /\ req[c].pc \in Steps /\ req' = [req EXCEPT ![c].pc = "refresh"]
    BY <1>7 DEF Publish, Goto, disk, Steps
  <2>2. /\ req'[c].config = req[c].config /\ req'[c].secrets = req[c].secrets
        /\ \A d \in Clients \ {c} : req'[d] = req[d]
    BY <1>1, <2>1, MovesOn DEF Steps
  <2>3. QED
    BY <1>1, <2>1, <2>2 DEF UsableInv, CopyUsable, Effective
<1>8. ASSUME NEW c \in Clients, Answer(c) PROVE UsableInv'
  <2>1. /\ cfg' = cfg /\ secrets' = secrets /\ diskConfig' = diskConfig
        /\ req' = [req EXCEPT ![c] = Idle]
    BY <1>8 DEF Answer, Finish, memory, disk
  <2>2. req'[c] = Idle /\ \A d \in Clients \ {c} : req'[d] = req[d]
    BY <1>1, <2>1 DEF TypeOK
  <2>3. QED
    BY <1>1, <2>1, <2>2, IdleStep DEF UsableInv, CopyUsable, Effective
<1>9. CASE Crash
  <2>1. \A c \in Clients : req'[c] = Idle
    BY <1>9 DEF Crash
  <2>2. QED
    BY <1>1, <1>9, <2>1, IdleStep DEF Crash, memory, disk, UsableInv
<1>10. CASE Start
  <2>1. /\ cfg' = Load(diskConfig, diskSecrets) /\ secrets' = diskSecrets
        /\ diskConfig' = diskConfig /\ req' = req
    BY <1>10 DEF Start, disk
  <2>2. diskConfig \in Config /\ diskSecrets \in Secrets /\ WipeValues(diskConfig) = diskConfig
    BY DEF UsableInv, TypeOK
  <2>3. ValuesFrom(cfg', secrets') /\ ApplyDefaults(cfg') = cfg'
    BY <2>1, <2>2, LoadValues
  <2>4. QED
    BY <1>1, <2>1, <2>2, <2>3 DEF UsableInv, CopyUsable, Effective
<1>11. CASE UNCHANGED vars
  BY <1>1, <1>11 DEF vars, UsableInv, CopyUsable, Effective
<1>12. QED
  BY <1>2, <1>3, <1>4, <1>5, <1>6, <1>7, <1>8, <1>9, <1>10, <1>11 DEF Next

\* However many requests overlap, and whatever fails: a change of the live
\* configuration leaves one that a collector can be built from (Manager.apply).
THEOREM ChangesUsable == Spec => LiveChangeUsable
<1>1. Init => UsableInv
  BY InitUsable
<1>2. UsableInv /\ [Next]_vars => UsableInv'
  BY NextUsable
<1>3. UsableInv /\ [Next]_vars
        => [up /\ up' /\ <<cfg, secrets>>' # <<cfg, secrets>>
              => CollectorBuilds(Effective(cfg', secrets'))]_vars
  <2> SUFFICES ASSUME UsableInv, Next, up, up', <<cfg, secrets>>' # <<cfg, secrets>>
               PROVE  CollectorBuilds(Effective(cfg', secrets'))
    BY DEF vars
  <2>1. \E c \in Clients : Publish(c)
    BY DEF Next, Begin, SaveConfig, SaveSecrets, SaveFails, Reconfigure, Answer,
           Crash, Start, memory
  <2>2. PICK c \in Clients : Publish(c)
    BY <2>1
  <2>3. cfg' = req[c].config /\ secrets' = req[c].secrets /\ req[c].pc \in Steps
    BY <2>2 DEF Publish, Steps
  <2>4. QED
    BY <2>3 DEF UsableInv, CopyUsable
<1>4. QED
  BY <1>1, <1>2, <1>3, PTL DEF Spec, LiveChangeUsable

-----------------------------------------------------------------------------
(***************************************************************************)
(* One administrator at a time: the collector.  Between Reconfigure and    *)
(* the publication it belongs to the copy of the request.                  *)
(***************************************************************************)
CollectorInv ==
  /\ UsableInv
  /\ ~up => \A c \in Clients : req[c].pc = "idle"
  /\ up /\ (\A c \in Clients : req[c].pc # "publish")
       => collector = BootCollector(Effective(cfg, secrets))
  /\ \A c \in Clients :
       req[c].pc = "publish"
         => collector = CollectorForConfig(Effective(req[c].config, req[c].secrets))

\* A bridge that has just loaded its files collects with what they say.
LEMMA LoadedCollector ==
  ASSUME ~Mock, NEW c \in Config, NEW s \in Secrets, WipeValues(c) = c
  PROVE  Effective(Load(c, s), s) = Load(c, s)
BY LoadValues DEF Effective

\* Every step of the only request keeps the collector in step.
LEMMA NextCollector ==
  ASSUME ~Mock, OneAdministrator, CollectorInv, [Next]_vars
  PROVE  CollectorInv'
<1>1. UsableInv /\ UsableInv' /\ TypeOK
  BY NextUsable DEF CollectorInv, UsableInv
<1>2. ASSUME NEW c \in Clients, NEW op \in Operations, Begin(c, op) PROVE CollectorInv'
  <2>1. /\ up' = up /\ cfg' = cfg /\ secrets' = secrets /\ collector' = collector
        /\ req[c].pc = "idle" /\ up
    BY <1>2, IdleStep DEF Begin, memory
  <2>2. req'[c].pc = "save config" /\ \A d \in Clients : d = c
    BY <1>1, <1>2, BeginsUsable DEF OneAdministrator
  <2>3. QED
    BY <1>1, <2>1, <2>2 DEF CollectorInv
<1>3. ASSUME NEW c \in Clients, SaveConfig(c) PROVE CollectorInv'
  <2>1. /\ up' = up /\ cfg' = cfg /\ secrets' = secrets /\ collector' = collector
        /\ req[c].pc = "save config"
    BY <1>3 DEF SaveConfig, memory
  <2>2. req'[c].pc = "save secrets" /\ \A d \in Clients : d = c
    BY <1>1, <1>3, Wiped DEF OneAdministrator
  <2>3. QED
    BY <1>1, <2>1, <2>2 DEF CollectorInv
<1>4. ASSUME NEW c \in Clients, SaveSecrets(c) PROVE CollectorInv'
  <2>1. /\ up' = up /\ cfg' = cfg /\ secrets' = secrets /\ collector' = collector
        /\ req[c].pc = "save secrets" /\ req[c].pc \in Steps
        /\ req' = [req EXCEPT ![c].pc = "reconfigure"]
    BY <1>4 DEF SaveSecrets, Goto, memory, Steps
  <2>2. req'[c].pc = "reconfigure" /\ \A d \in Clients : d = c
    BY <1>1, <2>1, MovesOn DEF OneAdministrator, Steps
  <2>3. QED
    BY <1>1, <2>1, <2>2 DEF CollectorInv
<1>5. ASSUME NEW c \in Clients, SaveFails(c) PROVE CollectorInv'
  <2>1. /\ up' = up /\ cfg' = cfg /\ secrets' = secrets /\ collector' = collector
        /\ req[c].pc # "publish" /\ req' = [req EXCEPT ![c] = Idle]
    BY <1>5 DEF SaveFails, Finish, memory, disk
  <2>2. req'[c].pc = "idle" /\ \A d \in Clients : d = c
    BY <1>1, <2>1, IdleStep DEF OneAdministrator, TypeOK
  <2>3. QED
    BY <1>1, <2>1, <2>2 DEF CollectorInv
<1>6. ASSUME NEW c \in Clients, Reconfigure(c) PROVE CollectorInv'
  <2>1. /\ collector' = CollectorForConfig(Effective(req[c].config, req[c].secrets))
        /\ req[c].pc \in Steps /\ req' = [req EXCEPT ![c].pc = "publish"] /\ up' = up
    BY <1>6 DEF Reconfigure, Goto, disk, Steps, Effective
  <2>2. /\ req'[c].pc = "publish" /\ \A d \in Clients : d = c
        /\ req'[c].config = req[c].config /\ req'[c].secrets = req[c].secrets
    BY <1>1, <2>1, MovesOn DEF OneAdministrator, Steps
  <2>3. up
    BY <2>1, IdleStep DEF CollectorInv
  <2>4. QED
    BY <1>1, <2>1, <2>2, <2>3 DEF CollectorInv, Effective
<1>7. ASSUME NEW c \in Clients, Publish(c) PROVE CollectorInv'
  <2>1. /\ cfg' = req[c].config /\ secrets' = req[c].secrets /\ collector' = collector
        /\ req[c].pc = "publish" /\ req[c].pc \in Steps
        /\ req' = [req EXCEPT ![c].pc = "refresh"] /\ up' = up
    BY <1>7 DEF Publish, Goto, disk, Steps
  <2>2. req'[c].pc = "refresh" /\ \A d \in Clients : d = c
    BY <1>1, <2>1, MovesOn DEF OneAdministrator, Steps
  <2>3. collector = BootCollector(Effective(req[c].config, req[c].secrets))
    BY <2>1 DEF CollectorInv, UsableInv, CopyUsable, BootCollector
  <2>4. up
    BY <2>1, IdleStep DEF CollectorInv
  <2>5. QED
    BY <1>1, <2>1, <2>2, <2>3, <2>4 DEF CollectorInv, Effective
<1>8. ASSUME NEW c \in Clients, Answer(c) PROVE CollectorInv'
  <2>1. /\ up' = up /\ cfg' = cfg /\ secrets' = secrets /\ collector' = collector
        /\ req[c].pc # "publish" /\ req' = [req EXCEPT ![c] = Idle]
    BY <1>8 DEF Answer, Finish, memory, disk
  <2>2. req'[c].pc = "idle" /\ \A d \in Clients : d = c
    BY <1>1, <2>1, IdleStep DEF OneAdministrator, TypeOK
  <2>3. QED
    BY <1>1, <2>1, <2>2 DEF CollectorInv
<1>9. CASE Crash
  <2>1. ~up' /\ \A c \in Clients : req'[c].pc = "idle"
    BY <1>9, IdleStep DEF Crash
  <2>2. QED
    BY <1>1, <2>1 DEF CollectorInv
<1>10. CASE Start
  <2>1. /\ cfg' = Load(diskConfig, diskSecrets) /\ secrets' = diskSecrets
        /\ collector' = BootCollector(cfg') /\ req' = req /\ ~up
    BY <1>10 DEF Start
  <2>2. Effective(cfg', secrets') = cfg'
    BY <1>1, <2>1, LoadedCollector DEF UsableInv, TypeOK
  <2>3. QED
    BY <1>1, <2>1, <2>2 DEF CollectorInv, Effective
<1>11. CASE UNCHANGED vars
  BY <1>1, <1>11 DEF vars, CollectorInv, Effective
<1>12. QED
  BY <1>2, <1>3, <1>4, <1>5, <1>6, <1>7, <1>8, <1>9, <1>10, <1>11 DEF Next

\* A bridge that has just started collects with what it loaded.
LEMMA InitCollector == ASSUME ~Mock PROVE Init => CollectorInv
<1> SUFFICES ASSUME Init PROVE CollectorInv
  OBVIOUS
<1>1. PICK i \in Installed :
        /\ up = TRUE
        /\ cfg = Load(i.config, i.secrets) /\ secrets = i.secrets
        /\ collector = BootCollector(cfg)
        /\ req = [c \in Clients |-> Idle]
  BY DEF Init
<1>2. Effective(cfg, secrets) = cfg
  BY <1>1, LoadedCollector, ManagerAssumption
<1>3. \A c \in Clients : req[c].pc = "idle"
  BY <1>1, IdleStep
<1>4. QED
  BY <1>1, <1>2, <1>3, InitUsable DEF CollectorInv

\* For one administrator at a time: but for the moment between Reconfigure and
\* the publication, the cache collects from the sources the manager holds, with
\* the tokens it holds for them (Manager.apply, Store.Save).
THEOREM CollectorFollows ==
  ASSUME ~Mock, OneAdministrator
  PROVE  Spec => []CollectorInStep
<1>1. Init => CollectorInv
  BY InitCollector
<1>2. CollectorInv /\ [Next]_vars => CollectorInv'
  BY NextCollector
<1>3. CollectorInv => CollectorInStep
  BY DEF CollectorInv, CollectorInStep
<1>4. QED
  BY <1>1, <1>2, <1>3, PTL DEF Spec

-----------------------------------------------------------------------------
(***************************************************************************)
(* One administrator at a time: answers.  What was promised about a target *)
(* is in memory and in what a restart would load, also when the disk is an *)
(* operation ahead, because that operation is about another target.        *)
(***************************************************************************)
KeptInv ==
  /\ AheadInv
  /\ UsableInv
  /\ told = [t \in Targets |-> told[t]]
  /\ \A t \in Targets :
       told[t] # NoPromise
         => /\ Entry(t, cfg, secrets) = told[t]
            /\ Entry(t, Strip(diskConfig), diskSecrets) = told[t]
  /\ \A c \in Clients :
       req[c].pc \in Steps
         => /\ told[Target(req[c].op)] = NoPromise
            /\ req[c].pc = "refresh" => Strip(req[c].config) = Strip(cfg)
                                       /\ req[c].secrets = secrets

\* An administrator finds the same in a filled-in config and in what config.yaml
\* has of it.
LEMMA EntryStripped ==
  ASSUME NEW c \in Config, NEW s \in Secrets, NEW t \in Targets, ApplyDefaults(c) = c
  PROVE  Entry(t, Strip(c), s) = Entry(t, c, s)
<1>1. /\ WithDefaults(c.settings) = c.settings
      /\ \A i \in DOMAIN c.sources : WithMode(c.sources[i]) = c.sources[i]
  BY DEF ApplyDefaults
<1>2. CASE t = "settings"
  BY <1>1, <1>2, StripParts DEF Entry
<1>3. CASE t # "settings" /\ t \in DOMAIN c.sources
  <2>1. c.sources[t] \in Source /\ WithMode(c.sources[t]) = c.sources[t]
    BY <1>1, <1>3, ConfigFields
  <2>2. [Bare(c.sources[t]) EXCEPT !.value = Blank] = [c.sources[t] EXCEPT !.value = Blank]
    BY <2>1 DEF Bare, WithValue, Source
  <2>3. Strip(c).sources[t] = Bare(c.sources[t]) /\ t \in DOMAIN Strip(c).sources
    BY <1>3, StripParts
  <2>4. QED
    BY <1>3, <2>2, <2>3 DEF Entry
<1>4. CASE t # "settings" /\ t \notin DOMAIN c.sources
  BY <1>4, StripParts DEF Entry
<1>5. QED
  BY <1>2, <1>3, <1>4

\* An operation leaves what is found about other targets, with the new secrets
\* and, should secrets.yaml not be written, with the old.
LEMMA EntryElsewhere ==
  ASSUME NEW op \in Operations, NEW c \in Config, NEW s \in Secrets, NEW t \in Targets,
         ValuesFrom(c, s), ApplyDefaults(c) = c, t # Target(op)
  PROVE  LET p == Prepared(op, c, s)
         IN  /\ Entry(t, Strip(p.config), p.secrets) = Entry(t, c, s)
             /\ Entry(t, Strip(p.config), s) = Entry(t, c, s)
<1> DEFINE p == Prepared(op, c, s)
<1>1. op \in Operation
  BY ManagerAssumption
<1>2. p.config \in Config /\ p.secrets \in Secrets /\ ApplyDefaults(p.config) = p.config
  BY <1>1, PreparedType, PreparedValues
<1>3. CASE t = "settings"
  <2>1. op.kind # "settings"
    BY <1>3 DEF Target
  <2>2. p.config.settings = c.settings /\ p.secrets.display = s.display /\ p.secrets.admin = s.admin
    BY <1>1, <2>1, PreparedSettings, PreparedPasswords DEF PasswordsOf
  <2>3. Entry(t, p.config, p.secrets) = Entry(t, c, s) /\ Entry(t, p.config, s) = Entry(t, c, s)
    BY <1>3, <2>2 DEF Entry
  <2> HIDE DEF p
  <2>4. QED
    BY <1>2, <2>3, EntryStripped DEF p
<1>4. CASE t # "settings"
  <2>1. t \in Ids /\ (op.kind # "settings" => op.in.id # t)
    BY <1>4 DEF Targets, Target
  <2>2. /\ t \in DOMAIN p.config.sources <=> t \in DOMAIN c.sources
        /\ t \in DOMAIN c.sources => p.config.sources[t] = Filled(c.sources[t], s.proxmox[t])
        /\ p.secrets.proxmox[t] = s.proxmox[t]
    BY <1>1, <2>1, PreparedElsewhere
  <2>3. ASSUME t \in DOMAIN c.sources
        PROVE  [p.config.sources[t] EXCEPT !.value = Blank] = [c.sources[t] EXCEPT !.value = Blank]
    <3>1. /\ c.sources[t] \in Source /\ s.proxmox[t] \in Optional(Tokens)
          /\ c.sources[t].value \in {Blank, s.proxmox[t]}
      BY <2>1, <2>3, ConfigFields DEF ValuesFrom, Secrets
    <3>2. WithMode(c.sources[t]) = c.sources[t]
      BY <2>3 DEF ApplyDefaults
    <3>3. p.config.sources[t] = WithValue(c.sources[t], s.proxmox[t])
      BY <2>2, <2>3, <3>1, <3>2, FilledSame
    <3> HIDE DEF p
    <3>4. QED
      BY <3>1, <3>3 DEF WithValue, Source
  <2>4. Entry(t, p.config, p.secrets) = Entry(t, c, s) /\ Entry(t, p.config, s) = Entry(t, c, s)
    BY <1>4, <2>2, <2>3 DEF Entry
  <2> HIDE DEF p
  <2>5. QED
    BY <1>2, <2>4, EntryStripped DEF p
<1>5. QED
  BY <1>3, <1>4

\* What a request in flight knows.
LEMMA RequestKnown ==
  ASSUME OneAdministrator, KeptInv, NEW c \in Clients, req[c].pc \in Steps
  PROVE  /\ RequestInStep(req[c])
         /\ CopyUsable(req[c])
         /\ req[c].op \in Operations
         /\ req[c].config \in Config /\ req[c].secrets \in Secrets
         /\ Target(req[c].op) \in Targets
         /\ \A d \in Clients : d = c
<1>1. /\ req[c] \in InFlight /\ req[c].config \in Config /\ req[c].secrets \in Secrets
  BY Working DEF KeptInv, AheadInv
<1>2. req[c] # Idle
  BY IdleStep
<1>3. RequestInStep(req[c])
  BY <1>2 DEF KeptInv, AheadInv, InStep
<1>4. req[c].op \in Operations /\ req[c].op \in Operation
  BY <1>1, ManagerAssumption DEF InFlight
<1>5. Target(req[c].op) \in Targets
  <2>1. req[c].op.kind # "settings" => req[c].op.in.id \in Ids
    BY <1>4 DEF Operation, SourceUpdate
  <2>2. QED
    BY <2>1 DEF Target, Targets
<1>6. QED
  BY <1>1, <1>3, <1>4, <1>5 DEF KeptInv, UsableInv, OneAdministrator

\* Before the publication, a promise is about another target than the request's
\* and is kept by what the request saves.
LEMMA PromiseKeptOnDisk ==
  ASSUME OneAdministrator, KeptInv, NEW c \in Clients, req[c].pc \in Steps,
         CopyOf(req[c]), NEW t \in Targets, told[t] # NoPromise
  PROVE  /\ Entry(t, Strip(req[c].config), req[c].secrets) = told[t]
         /\ Entry(t, Strip(req[c].config), secrets) = told[t]
<1>1. req[c].op \in Operations /\ t # Target(req[c].op)
  BY RequestKnown DEF KeptInv
<1>2. /\ cfg \in Config /\ secrets \in Secrets /\ ValuesFrom(cfg, secrets)
      /\ ApplyDefaults(cfg) = cfg /\ Entry(t, cfg, secrets) = told[t]
  BY DEF KeptInv, UsableInv, TypeOK
<1>3. QED
  BY <1>1, <1>2, EntryElsewhere DEF CopyOf

\* Every step of the only request keeps what was promised.
LEMMA NextKept ==
  ASSUME ~Mock, OneAdministrator, KeptInv, [Next]_vars
  PROVE  KeptInv'
<1>1. /\ AheadInv /\ UsableInv /\ TypeOK /\ AheadInv' /\ UsableInv' /\ TypeOK'
  BY NextAhead, NextUsable DEF KeptInv, AheadInv
<1>2. ASSUME NEW c \in Clients, NEW op \in Operations, Begin(c, op) PROVE KeptInv'
  <2>1. /\ cfg' = cfg /\ secrets' = secrets
        /\ diskConfig' = diskConfig /\ diskSecrets' = diskSecrets
        /\ told' = [told EXCEPT ![Target(op)] = NoPromise]
    BY <1>2 DEF Begin, memory, disk
  <2>2. req'[c].pc = "save config" /\ req'[c].op = op /\ \A d \in Clients : d = c
    BY <1>1, <1>2, BeginsUsable DEF OneAdministrator
  <2>3. Target(op) \in Targets
    <3>1. op \in Operation
      BY ManagerAssumption
    <3>2. op.kind # "settings" => op.in.id \in Ids
      BY <3>1 DEF Operation, SourceUpdate
    <3>3. QED
      BY <3>2 DEF Target, Targets
  <2>4. /\ told'[Target(op)] = NoPromise
        /\ \A t \in Targets \ {Target(op)} : told'[t] = told[t]
        /\ told' = [t \in Targets |-> told'[t]]
    BY <2>1, <2>3 DEF KeptInv
  <2>5. QED
    BY <1>1, <2>1, <2>2, <2>4 DEF KeptInv
<1>3. ASSUME NEW c \in Clients, SaveConfig(c) PROVE KeptInv'
  <2>1. /\ cfg' = cfg /\ secrets' = secrets /\ told' = told
        /\ diskConfig' = Strip(req[c].config) /\ diskSecrets' = diskSecrets
        /\ req[c].pc = "save config" /\ req[c].pc \in Steps
    BY <1>3 DEF SaveConfig, memory, Steps
  <2>2. /\ RequestInStep(req[c]) /\ req[c].config \in Config /\ \A d \in Clients : d = c
    BY <2>1, RequestKnown DEF KeptInv
  <2>3. req'[c].pc = "save secrets" /\ req'[c].op = req[c].op
    BY <1>1, <1>3, Wiped
  <2>4. CopyOf(req[c]) /\ diskSecrets = secrets
    BY <2>1, <2>2 DEF RequestInStep
  <2>5. Strip(diskConfig') = Strip(req[c].config)
    BY <2>1, <2>2, StripTwice
  <2>6. \A t \in Targets : told[t] # NoPromise
          => Entry(t, Strip(diskConfig'), diskSecrets') = told[t]
    BY <2>1, <2>4, <2>5, PromiseKeptOnDisk
  <2>7. \A t \in Targets : told'[t] # NoPromise
          => /\ Entry(t, cfg, secrets)' = told'[t]
             /\ Entry(t, Strip(diskConfig), diskSecrets)' = told'[t]
    BY <2>1, <2>6 DEF KeptInv
  <2>8. told' = [t \in Targets |-> told'[t]] /\ told'[Target(req[c].op)] = NoPromise
    BY <2>1 DEF KeptInv
  <2>9. \A d \in Clients : /\ told'[Target(req'[d].op)] = NoPromise
                           /\ req'[d].pc # "refresh"
    BY <2>2, <2>3, <2>8
  <2>10. QED
    BY <1>1, <2>7, <2>8, <2>9 DEF KeptInv
<1>4. ASSUME NEW c \in Clients, SaveSecrets(c) PROVE KeptInv'
  <2>1. /\ cfg' = cfg /\ secrets' = secrets /\ told' = told
        /\ diskConfig' = diskConfig /\ diskSecrets' = req[c].secrets
        /\ req[c].pc = "save secrets" /\ req[c].pc \in Steps
        /\ req' = [req EXCEPT ![c].pc = "reconfigure"]
    BY <1>4 DEF SaveSecrets, Goto, memory, Steps
  <2>2. /\ RequestInStep(req[c]) /\ \A d \in Clients : d = c
    BY <2>1, RequestKnown DEF KeptInv
  <2>3. req'[c].pc = "reconfigure" /\ req'[c].op = req[c].op
    BY <1>1, <2>1, MovesOn DEF Steps
  <2>4. CopyOf(req[c]) /\ Strip(diskConfig) = Strip(req[c].config)
    BY <2>1, <2>2 DEF RequestInStep
  <2>5. \A t \in Targets : told[t] # NoPromise
          => Entry(t, Strip(diskConfig'), diskSecrets') = told[t]
    BY <2>1, <2>4, PromiseKeptOnDisk
  <2>6. \A t \in Targets : told'[t] # NoPromise
          => /\ Entry(t, cfg, secrets)' = told'[t]
             /\ Entry(t, Strip(diskConfig), diskSecrets)' = told'[t]
    BY <2>1, <2>5 DEF KeptInv
  <2>7. told[Target(req[c].op)] = NoPromise
    BY <2>1 DEF KeptInv
  <2>8. \A d \in Clients : told'[Target(req'[d].op)] = NoPromise /\ req'[d].pc = "reconfigure"
    BY <2>1, <2>2, <2>3, <2>7
  <2>9. told' = [t \in Targets |-> told'[t]]
    BY <2>1 DEF KeptInv
  <2>10. QED
    BY <1>1, <2>6, <2>8, <2>9 DEF KeptInv
<1>5. ASSUME NEW c \in Clients, SaveFails(c) PROVE KeptInv'
  <2>1. /\ cfg' = cfg /\ secrets' = secrets /\ told' = told
        /\ diskConfig' = diskConfig /\ diskSecrets' = diskSecrets
        /\ req' = [req EXCEPT ![c] = Idle]
    BY <1>5 DEF SaveFails, Finish, memory, disk
  <2>2. req'[c].pc = "idle" /\ \A d \in Clients : d = c
    BY <1>1, <2>1, IdleStep DEF OneAdministrator, TypeOK
  <2>3. QED
    BY <1>1, <2>1, <2>2, IdleStep DEF KeptInv
<1>6. ASSUME NEW c \in Clients, Reconfigure(c) PROVE KeptInv'
  <2>1. /\ cfg' = cfg /\ secrets' = secrets /\ told' = told
        /\ diskConfig' = diskConfig /\ diskSecrets' = diskSecrets
        /\ req[c].pc \in Steps /\ req' = [req EXCEPT ![c].pc = "publish"]
    BY <1>6 DEF Reconfigure, Goto, disk, Steps
  <2>2. /\ req'[c].pc = "publish" /\ req'[c].op = req[c].op /\ \A d \in Clients : d = c
    BY <1>1, <2>1, MovesOn DEF OneAdministrator, Steps
  <2>3. QED
    BY <1>1, <2>1, <2>2 DEF KeptInv
<1>7. ASSUME NEW c \in Clients, Publish(c) PROVE KeptInv'
  <2>1. /\ cfg' = req[c].config /\ secrets' = req[c].secrets /\ told' = told
        /\ diskConfig' = diskConfig /\ diskSecrets' = diskSecrets
        /\ req[c].pc = "publish" /\ req[c].pc \in Steps
        /\ req' = [req EXCEPT ![c].pc = "refresh"]
    BY <1>7 DEF Publish, Goto, disk, Steps
  <2>2. /\ RequestInStep(req[c]) /\ CopyUsable(req[c]) /\ \A d \in Clients : d = c
        /\ req[c].config \in Config /\ req[c].secrets \in Secrets
    BY <2>1, RequestKnown DEF KeptInv
  <2>3. /\ req'[c].pc = "refresh" /\ req'[c].op = req[c].op
        /\ req'[c].config = req[c].config /\ req'[c].secrets = req[c].secrets
    BY <1>1, <2>1, MovesOn DEF Steps
  <2>4. CopyOf(req[c])
    BY <2>1, <2>2 DEF RequestInStep
  <2>5. \A t \in Targets : told[t] # NoPromise
          => Entry(t, req[c].config, req[c].secrets) = told[t]
    BY <2>1, <2>2, <2>4, PromiseKeptOnDisk, EntryStripped DEF CopyUsable
  <2>6. \A t \in Targets : told'[t] # NoPromise
          => /\ Entry(t, cfg, secrets)' = told'[t]
             /\ Entry(t, Strip(diskConfig), diskSecrets)' = told'[t]
    BY <2>1, <2>5 DEF KeptInv
  <2>7. QED
    BY <1>1, <2>1, <2>2, <2>3, <2>6 DEF KeptInv
<1>8. ASSUME NEW c \in Clients, Answer(c) PROVE KeptInv'
  <2> DEFINE u == Target(req[c].op)
  <2>1. /\ cfg' = cfg /\ secrets' = secrets
        /\ diskConfig' = diskConfig /\ diskSecrets' = diskSecrets
        /\ told' = [told EXCEPT ![u] = Entry(u, req[c].config, req[c].secrets)]
        /\ req[c].pc = "refresh" /\ req[c].pc \in Steps
        /\ req' = [req EXCEPT ![c] = Idle]
    BY <1>8 DEF Answer, Finish, memory, disk, Steps
  <2>2. /\ RequestInStep(req[c]) /\ CopyUsable(req[c]) /\ \A d \in Clients : d = c
        /\ req[c].config \in Config /\ req[c].secrets \in Secrets /\ u \in Targets
    BY <2>1, RequestKnown DEF KeptInv
  <2>3. /\ Strip(req[c].config) = Strip(cfg) /\ req[c].secrets = secrets
        /\ Strip(diskConfig) = Strip(cfg) /\ diskSecrets = secrets
    BY <2>1, <2>2 DEF KeptInv, RequestInStep, DiskIsMemory
  <2>4. /\ Entry(u, req[c].config, req[c].secrets) = Entry(u, Strip(cfg), secrets)
        /\ Entry(u, cfg, secrets) = Entry(u, Strip(cfg), secrets)
    BY <2>2, <2>3, EntryStripped DEF CopyUsable, KeptInv, UsableInv, TypeOK
  <2> HIDE DEF u
  <2>5. /\ told'[u] = Entry(u, cfg, secrets)
        /\ \A t \in Targets \ {u} : told'[t] = told[t]
        /\ told' = [t \in Targets |-> told'[t]]
    BY <2>1, <2>2, <2>4 DEF KeptInv
  <2>6. \A t \in Targets : told'[t] # NoPromise
          => /\ Entry(t, cfg, secrets)' = told'[t]
             /\ Entry(t, Strip(diskConfig), diskSecrets)' = told'[t]
    BY <2>1, <2>3, <2>4, <2>5 DEF KeptInv
  <2>7. req'[c].pc = "idle"
    BY <1>1, <2>1, IdleStep DEF TypeOK
  <2>8. QED
    BY <1>1, <2>2, <2>5, <2>6, <2>7, IdleStep DEF KeptInv
<1>9. CASE Crash
  <2>1. /\ cfg' = cfg /\ secrets' = secrets /\ told' = told
        /\ diskConfig' = diskConfig /\ diskSecrets' = diskSecrets
        /\ \A c \in Clients : req'[c].pc = "idle"
    BY <1>9, IdleStep DEF Crash, memory, disk
  <2>2. QED
    BY <1>1, <2>1, IdleStep DEF KeptInv
<1>10. CASE Start
  <2>1. /\ cfg' = Load(diskConfig, diskSecrets) /\ secrets' = diskSecrets /\ told' = told
        /\ diskConfig' = diskConfig /\ diskSecrets' = diskSecrets /\ req' = req /\ ~up
    BY <1>10 DEF Start, disk
  <2>2. \A c \in Clients : req[c] = Idle
    BY <1>1, <2>1 DEF AheadInv, InStep
  <2>3. /\ cfg' \in Config /\ secrets' \in Secrets /\ ApplyDefaults(cfg') = cfg'
        /\ Strip(cfg') = Strip(diskConfig)
    BY <1>1, <2>1, LoadedInStep DEF UsableInv, TypeOK
  <2>4. \A t \in Targets : Entry(t, cfg', secrets') = Entry(t, Strip(diskConfig), diskSecrets)
    BY <2>1, <2>3, EntryStripped
  <2>5. \A t \in Targets : told'[t] # NoPromise
          => /\ Entry(t, cfg, secrets)' = told'[t]
             /\ Entry(t, Strip(diskConfig), diskSecrets)' = told'[t]
    BY <2>1, <2>4 DEF KeptInv
  <2>6. QED
    BY <1>1, <2>1, <2>2, <2>5, IdleStep DEF KeptInv
<1>11. CASE UNCHANGED vars
  BY <1>1, <1>11 DEF vars, KeptInv
<1>12. QED
  BY <1>2, <1>3, <1>4, <1>5, <1>6, <1>7, <1>8, <1>9, <1>10, <1>11 DEF Next

\* The bridge starts with nothing promised but what it has.
LEMMA InitKept == ASSUME ~Mock PROVE Init => KeptInv
<1> SUFFICES ASSUME Init PROVE KeptInv
  OBVIOUS
<1>1. /\ cfg = Load(diskConfig, diskSecrets) /\ secrets = diskSecrets
      /\ req = [c \in Clients |-> Idle]
      /\ told = [t \in Targets |-> Entry(t, cfg, secrets)]
  BY DEF Init
<1>2. AheadInv /\ UsableInv
  BY InitAhead, InitUsable
<1>3. Strip(cfg) = Strip(diskConfig)
  BY <1>1, <1>2, LoadedInStep DEF UsableInv, TypeOK
<1>4. \A t \in Targets : /\ Entry(t, cfg, secrets) = told[t]
                         /\ Entry(t, Strip(diskConfig), diskSecrets) = told[t]
  BY <1>1, <1>2, <1>3, EntryStripped DEF UsableInv, TypeOK
<1>5. told = [t \in Targets |-> told[t]]
  BY <1>1
<1>6. QED
  BY <1>1, <1>2, <1>4, <1>5, IdleStep DEF KeptInv

\* For one administrator at a time, whatever crashes and failed writes come:
\* what the last answer about a source or the settings promised is what the
\* bridge works with (server.go: "source saved", "settings saved").
THEOREM Kept ==
  ASSUME ~Mock, OneAdministrator
  PROVE  Spec => []AnswersKept
<1>1. Init => KeptInv
  BY InitKept
<1>2. KeptInv /\ [Next]_vars => KeptInv'
  BY NextKept
<1>3. KeptInv => AnswersKept
  BY DEF KeptInv, AnswersKept
<1>4. QED
  BY <1>1, <1>2, <1>3, PTL DEF Spec

-----------------------------------------------------------------------------
(***************************************************************************)
(* One administrator at a time: secrets.yaml, and the abstract             *)
(* specification.                                                          *)
(***************************************************************************)
\* For one administrator at a time: a token that secrets.yaml holds for a source
\* stays there, or gives way to another, until that source is deleted.
THEOREM TokensStay ==
  ASSUME ~Mock, OneAdministrator
  PROVE  Spec => TokensKept
<1>1. Init => KeptInv
  BY InitKept
<1>2. KeptInv /\ [Next]_vars => KeptInv'
  BY NextKept
<1>3. KeptInv /\ [Next]_vars
        => [\A i \in Ids :
              diskSecrets.proxmox[i] # Blank /\ diskSecrets'.proxmox[i] = Blank
                => \E c \in Clients : req[c] # Idle /\ req[c].op.kind = "delete"
                                      /\ req[c].op.in.id = i]_vars
  <2> SUFFICES ASSUME KeptInv, Next, NEW i \in Ids,
                      diskSecrets.proxmox[i] # Blank, diskSecrets'.proxmox[i] = Blank
               PROVE  \E c \in Clients : req[c] # Idle /\ req[c].op.kind = "delete"
                                        /\ req[c].op.in.id = i
    OBVIOUS
  <2>1. PICK c \in Clients : SaveSecrets(c)
    BY DEF Next, Begin, SaveConfig, SaveFails, Reconfigure, Publish, Answer,
           Crash, Start, disk
  <2>2. diskSecrets' = req[c].secrets /\ req[c].pc = "save secrets" /\ req[c].pc \in Steps
    BY <2>1 DEF SaveSecrets, Steps
  <2>3. RequestInStep(req[c]) /\ req[c].op \in Operation
    BY <2>2, RequestKnown, ManagerAssumption
  <2>4. diskSecrets = secrets /\ req[c].secrets = Prepared(req[c].op, cfg, secrets).secrets
    BY <2>2, <2>3 DEF RequestInStep, CopyOf
  <2>5. req[c].op.kind = "delete" /\ req[c].op.in.id = i
    BY <2>2, <2>3, <2>4, TokenGone DEF KeptInv, UsableInv, TypeOK
  <2>6. req[c] # Idle
    BY <2>2, IdleStep
  <2>7. QED
    BY <2>5, <2>6
<1>4. QED
  BY <1>1, <1>2, <1>3, PTL DEF Spec, TokensKept

\* For one administrator at a time the manager implements AtomicConfig: every
\* request is one change, at the moment its copy is published or, if the process
\* dies between its save and that moment, at the restart.
THEOREM Refinement ==
  ASSUME ~Mock, OneAdministrator
  PROVE  Spec => ManagerRefinement
<1>1. Init => KeptInv
  BY InitKept
<1>2. KeptInv /\ [Next]_vars => KeptInv'
  BY NextKept
<1>3. Init => Atomic!Init
  <2> SUFFICES ASSUME Init PROVE Atomic!Init
    OBVIOUS
  <2>1. PICK i \in Installed : cfg = Load(i.config, i.secrets) /\ secrets = i.secrets
    BY DEF Init
  <2>2. Strip(cfg) = Strip(i.config)
    BY <2>1, LoadedInStep, ManagerAssumption
  <2>3. QED
    BY <2>1, <2>2 DEF Atomic!Init
<1>4. KeptInv /\ [Next]_vars => [Atomic!Next]_(Atomic!vars)
  <2> SUFFICES ASSUME KeptInv, [Next]_vars PROVE Atomic!Next \/ UNCHANGED Atomic!vars
    OBVIOUS
  <2>1. CASE UNCHANGED <<cfg, secrets>>
    BY <2>1 DEF Atomic!vars
  <2>2. ASSUME NEW op \in Operations
        PROVE  /\ Prepared(op, Strip(cfg), secrets) = Prepared(op, cfg, secrets)
               /\ Accepted(op, Strip(cfg), secrets) <=> Accepted(op, cfg, secrets)
    BY PreparedStripped, ManagerAssumption DEF KeptInv, UsableInv, TypeOK
  <2>3. ASSUME NEW c \in Clients, Publish(c) PROVE Atomic!Next
    <3>1. /\ cfg' = req[c].config /\ secrets' = req[c].secrets
          /\ req[c].pc = "publish" /\ req[c].pc \in Steps
      BY <2>3 DEF Publish, Steps
    <3>2. CopyOf(req[c]) /\ req[c].op \in Operations
      BY <3>1, RequestKnown DEF RequestInStep
    <3>3. Atomic!Perform(req[c].op)
      BY <2>2, <3>1, <3>2 DEF CopyOf, Atomic!Perform
    <3>4. QED
      BY <3>2, <3>3 DEF Atomic!Next
  <2>4. CASE Start
    <3>1. cfg' = Load(diskConfig, diskSecrets) /\ secrets' = diskSecrets
      BY <2>4 DEF Start
    <3>2. Strip(cfg') = Strip(diskConfig)
      BY <3>1, LoadedInStep DEF KeptInv, UsableInv, TypeOK
    <3>3. CASE DiskIsMemory
      BY <3>1, <3>2, <3>3 DEF DiskIsMemory, Atomic!vars
    <3>4. ASSUME NEW op \in Operations, DiskAhead(op) PROVE Atomic!Next
      <4>1. /\ Accepted(op, Strip(cfg), secrets)
            /\ Strip(cfg') = Strip(Prepared(op, Strip(cfg), secrets).config)
            /\ secrets' \in {secrets, Prepared(op, Strip(cfg), secrets).secrets}
        BY <2>2, <3>1, <3>2, <3>4 DEF DiskAhead
      <4>2. Atomic!Perform(op) \/ Atomic!RestartHalfway(op)
        BY <4>1 DEF Atomic!Perform, Atomic!RestartHalfway
      <4>3. QED
        BY <4>2 DEF Atomic!Next
    <3>5. QED
      BY <3>3, <3>4 DEF KeptInv, AheadInv, OneOperationAhead
  <2>5. QED
    BY <2>1, <2>3, <2>4 DEF Next, vars, Begin, SaveConfig, SaveSecrets, SaveFails,
           Reconfigure, Answer, Crash, memory
<1>5. QED
  BY <1>1, <1>2, <1>3, <1>4, PTL DEF Spec, ManagerRefinement, Atomic!Spec

-----------------------------------------------------------------------------
(***************************************************************************)
(* One administrator at a time: a save cut in two.  What config.yaml has   *)
(* of an accepted operation, with the secrets of before, is usable but for *)
(* the source the operation was about.                                     *)
(***************************************************************************)
SourceGood(src) == SourceValid(src) /\ ClientBuilds(src)

\* The sources in D, with the tokens kept for them, make a collector.
Good(c, s, D) ==
  \/ D = {}
  \/ /\ s.display # Blank \/ EnvDisplay
     /\ \A i \in D : SourceGood(WithValue(c.sources[i], s.proxmox[i]))

Repairable(c, s) ==
  LET D == DOMAIN c.sources
  IN  Good(c, s, D) \/ \E id \in D : Good(c, s, D \ {id})

\* The collector of the effective config.
LEMMA GoodEffective ==
  ASSUME ~Mock, NEW c \in Config, NEW s \in Secrets, ValuesFrom(c, s)
  PROVE  CollectorBuilds(Effective(c, s)) <=> Good(c, s, DOMAIN c.sources)
<1> DEFINE e == Effective(c, s)
<1>1. DOMAIN e.sources = DOMAIN c.sources /\ e.display = s.display
  BY DEF Effective, ApplySecrets
<1>2. ASSUME NEW i \in DOMAIN c.sources
      PROVE  e.sources[i] = WithValue(c.sources[i], s.proxmox[i])
  <2>1. FirstNonEmpty(s.proxmox[i], c.sources[i].value) = s.proxmox[i]
    BY DEF FirstNonEmpty, ValuesFrom
  <2>2. QED
    BY <2>1 DEF Effective, ApplySecrets
<1> HIDE DEF e
<1>3. CollectorBuilds(e) <=> Good(c, s, DOMAIN c.sources)
  BY <1>1, <1>2 DEF CollectorBuilds, Validate, DisplayTokenSet, Good, SourceGood
<1>4. QED
  BY <1>3 DEF e

\* The collector of what a deletion leaves.
LEMMA GoodDeleted ==
  ASSUME ~Mock, NEW c \in Config, NEW s \in Secrets, ValuesFrom(c, s),
         ApplyDefaults(c) = c, NEW id \in DOMAIN c.sources
  PROVE  CollectorBuilds(Prepared([kind |-> "delete", in |-> [id |-> id]], c, s).config)
           <=> Good(c, s, DOMAIN c.sources \ {id})
<1> DEFINE op == [kind |-> "delete", in |-> [id |-> id]]
           p == Prepared(op, c, s)
           D == DOMAIN c.sources \ {id}
<1>1. op \in Operation /\ op.kind = "delete" /\ op.in.id = id
  BY ConfigFields DEF Operation
<1>2. p.config.display = s.display
  BY <1>1, PreparedPasswords DEF PasswordsOf
<1>3. DOMAIN p.config.sources = D
  BY <1>1 DEF Prepared, Result, DeleteSource, ApplySecrets, ApplyDefaults, Config
<1>4. ASSUME NEW i \in D
      PROVE  p.config.sources[i] = WithValue(c.sources[i], s.proxmox[i])
  <2>1. /\ i \in Ids /\ c.sources[i] \in Source /\ s.proxmox[i] \in Optional(Tokens)
        /\ c.sources[i].value \in {Blank, s.proxmox[i]}
    BY ConfigFields DEF ValuesFrom, Secrets
  <2>2. p.config.sources[i] = Filled(c.sources[i], s.proxmox[i])
    BY <1>1, <2>1, PreparedElsewhere
  <2>3. WithMode(c.sources[i]) = c.sources[i]
    BY DEF ApplyDefaults
  <2>4. QED
    BY <2>1, <2>2, <2>3, FilledSame
<1> HIDE DEF p
<1>5. CollectorBuilds(p.config) <=> Good(c, s, D)
  BY <1>2, <1>3, <1>4 DEF CollectorBuilds, Validate, DisplayTokenSet, Good, SourceGood
<1>6. QED
  BY <1>5 DEF p

\* Whether sources are good is known from config.yaml and the secrets.
LEMMA GoodStripped ==
  ASSUME NEW c \in Config, NEW k \in Config, NEW s \in Secrets,
         ApplyDefaults(c) = c, ApplyDefaults(k) = k, Strip(c) = Strip(k),
         NEW D \in SUBSET DOMAIN c.sources
  PROVE  DOMAIN k.sources = DOMAIN c.sources /\ (Good(k, s, D) <=> Good(c, s, D))
<1>1. DOMAIN k.sources = DOMAIN c.sources
  BY StripParts
<1>2. ASSUME NEW i \in D
      PROVE  WithValue(k.sources[i], s.proxmox[i]) = WithValue(c.sources[i], s.proxmox[i])
  <2>1. /\ c.sources[i] \in Source /\ k.sources[i] \in Source
        /\ WithMode(c.sources[i]) = c.sources[i] /\ WithMode(k.sources[i]) = k.sources[i]
    BY <1>1, ConfigFields DEF ApplyDefaults
  <2>2. Bare(c.sources[i]) = Bare(k.sources[i])
    BY <1>1, StripParts
  <2>3. WithValue(c.sources[i], Blank) = WithValue(k.sources[i], Blank)
    BY <2>1, <2>2 DEF Bare
  <2>4. \A src \in Source : \A v : WithValue(WithValue(src, Blank), v) = WithValue(src, v)
    BY DEF WithValue, Source
  <2>5. QED
    BY <2>1, <2>3, <2>4
<1>3. QED
  BY <1>1, <1>2 DEF Good

\* A save cut in two leaves what one deletion repairs.
LEMMA HalfwayRepairable ==
  ASSUME ~Mock, NEW op \in Operations, NEW c \in Config, NEW s \in Secrets,
         ValuesFrom(c, s), ApplyDefaults(c) = c, Accepted(op, c, s), Repairable(c, s),
         NEW k \in Config, ApplyDefaults(k) = k,
         Strip(k) = Strip(Prepared(op, c, s).config)
  PROVE  Repairable(k, s)
<1> DEFINE p == Prepared(op, c, s)
           D == DOMAIN p.config.sources
<1>1. op \in Operation
  BY ManagerAssumption
<1>2. /\ p.config \in Config /\ p.secrets \in Secrets
      /\ ApplyDefaults(p.config) = p.config
      /\ ValuesFrom(p.config, p.secrets)
      /\ Effective(p.config, p.secrets) = p.config
  BY <1>1, PreparedType, PreparedValues DEF Effective
<1>3. CollectorBuilds(p.config)
  BY DEF Accepted
<1> HIDE DEF p
<1>4. Good(p.config, p.secrets, D)
  BY <1>2, <1>3, GoodEffective
<1>5. DOMAIN k.sources = D /\ \A E \in SUBSET D : Good(k, s, E) <=> Good(p.config, s, E)
  BY <1>2, GoodStripped DEF p
<1>6. ASSUME NEW i \in D, op.kind # "settings" => op.in.id # i
      PROVE  /\ p.secrets.proxmox[i] = s.proxmox[i]
             /\ i \in DOMAIN c.sources
             /\ WithValue(p.config.sources[i], s.proxmox[i])
                = WithValue(c.sources[i], s.proxmox[i])
  <2>1. i \in Ids
    BY <1>2, ConfigFields
  <2>2. /\ p.secrets.proxmox[i] = s.proxmox[i] /\ i \in DOMAIN c.sources
        /\ p.config.sources[i] = Filled(c.sources[i], s.proxmox[i])
    BY <1>1, <1>6, <2>1, PreparedElsewhere DEF p
  <2>3. /\ c.sources[i] \in Source /\ s.proxmox[i] \in Optional(Tokens)
        /\ c.sources[i].value \in {Blank, s.proxmox[i]}
        /\ WithMode(c.sources[i]) = c.sources[i]
    BY <2>1, <2>2, ConfigFields DEF ValuesFrom, Secrets, ApplyDefaults
  <2>4. p.config.sources[i] = WithValue(c.sources[i], s.proxmox[i])
    BY <2>2, <2>3, FilledSame
  <2>5. \A src \in Source : \A v : WithValue(WithValue(src, v), v) = WithValue(src, v)
    BY DEF WithValue, Source
  <2>6. QED
    BY <2>2, <2>3, <2>4, <2>5
<1>7. CASE op.kind = "settings"
  <2>1. \A i \in Ids : i \in D <=> i \in DOMAIN c.sources
    BY <1>1, <1>7, PreparedElsewhere DEF p
  <2>2. D = DOMAIN c.sources
    BY <1>2, <2>1, ConfigFields
  <2>3. \A E \in SUBSET D : Good(p.config, s, E) <=> Good(c, s, E)
    BY <1>6, <1>7 DEF Good
  <2>4. QED
    BY <1>5, <2>2, <2>3 DEF Repairable
<1>8. CASE op.kind # "settings"
  <2> DEFINE E == D \ {op.in.id}
  <2>1. p.secrets.display = s.display
    BY <1>1, <1>8, PreparedPasswords DEF PasswordsOf, p
  <2>2. Good(p.config, s, E)
    BY <1>4, <1>6, <2>1 DEF Good
  <2>3. Good(k, s, E)
    BY <1>5, <2>2
  <2>4. CASE op.in.id \in D
    BY <1>5, <2>3, <2>4 DEF Repairable
  <2>5. CASE op.in.id \notin D
    <3>1. E = D
      BY <2>5
    <3>2. QED
      BY <1>5, <2>3, <3>1 DEF Repairable
  <2>6. QED
    BY <2>4, <2>5
<1>9. QED
  BY <1>7, <1>8

\* For one administrator at a time, and an installation that is usable or one
\* deletion away from it: so it stays, whatever crashes and failed writes come.
\* (Save replaces config.yaml before secrets.yaml; Manager.DeleteSource.)
THEOREM DeletionRepairs ==
  ASSUME ~Mock, OneAdministrator,
         \A i \in Installed : Repairable(Load(i.config, i.secrets), i.secrets)
  PROVE  Spec => []OneDeletionRepairs
<1> DEFINE Inv == AheadInv /\ UsableInv /\ Repairable(cfg, secrets)
<1>1. Init => Inv
  BY InitAhead, InitUsable DEF Init
<1>2. Inv /\ [Next]_vars => Inv'
  <2> SUFFICES ASSUME Inv, [Next]_vars PROVE Inv'
    OBVIOUS
  <2>1. AheadInv' /\ UsableInv'
    BY NextAhead, NextUsable
  <2>2. ASSUME UNCHANGED <<cfg, secrets>> PROVE Repairable(cfg, secrets)'
    BY <2>1, <2>2 DEF Repairable, Good
  <2>3. ASSUME NEW c \in Clients, Publish(c) PROVE Repairable(cfg, secrets)'
    <3>1. /\ cfg' = req[c].config /\ secrets' = req[c].secrets /\ req[c].pc \in Steps
      BY <2>3 DEF Publish, Steps
    <3>2. /\ req[c].config \in Config /\ req[c].secrets \in Secrets
          /\ CopyUsable(req[c])
      BY <3>1, Working DEF UsableInv
    <3>3. Good(req[c].config, req[c].secrets, DOMAIN req[c].config.sources)
      BY <3>2, GoodEffective DEF CopyUsable
    <3>4. Repairable(req[c].config, req[c].secrets)
      BY <3>3 DEF Repairable
    <3>5. QED
      BY <3>1, <3>4 DEF Repairable, Good
  <2>4. ASSUME Start PROVE Repairable(cfg, secrets)'
    <3>1. cfg' = Load(diskConfig, diskSecrets) /\ secrets' = diskSecrets
      BY <2>4 DEF Start
    <3>2. /\ cfg' \in Config /\ secrets' \in Secrets
          /\ ApplyDefaults(cfg') = cfg' /\ ValuesFrom(cfg', secrets')
          /\ Strip(cfg') = Strip(diskConfig)
      BY <3>1, LoadType, LoadValues, LoadedInStep DEF UsableInv, TypeOK
    <3>3. /\ cfg \in Config /\ secrets \in Secrets /\ ApplyDefaults(cfg) = cfg
          /\ ValuesFrom(cfg, secrets)
      BY DEF UsableInv, TypeOK
    <3> DEFINE k == cfg'
    <3>4. ASSUME DiskIsMemory PROVE Repairable(k, diskSecrets)
      <4>1. Strip(k) = Strip(cfg) /\ diskSecrets = secrets
        BY <3>2, <3>4 DEF DiskIsMemory
      <4>2. DOMAIN k.sources = DOMAIN cfg.sources
            /\ \A E \in SUBSET DOMAIN cfg.sources : Good(k, secrets, E) <=> Good(cfg, secrets, E)
        BY <3>2, <3>3, <4>1, GoodStripped
      <4>3. QED
        BY <4>1, <4>2 DEF Repairable
    <3>5. ASSUME NEW op \in Operations, DiskAhead(op) PROVE Repairable(k, diskSecrets)
      <4> DEFINE p == Prepared(op, cfg, secrets)
      <4>1. /\ Accepted(op, cfg, secrets) /\ Strip(k) = Strip(p.config)
            /\ diskSecrets \in {secrets, p.secrets}
        BY <3>2, <3>5 DEF DiskAhead
      <4>2. CASE diskSecrets = secrets
        BY <3>2, <3>3, <4>1, <4>2, HalfwayRepairable
      <4>3. CASE diskSecrets = p.secrets
        <5>1. op \in Operation /\ CollectorBuilds(p.config)
          BY <4>1, ManagerAssumption DEF Accepted
        <5>2. /\ p.config \in Config /\ p.secrets \in Secrets
              /\ ApplyDefaults(p.config) = p.config
              /\ ValuesFrom(p.config, p.secrets)
              /\ Effective(p.config, p.secrets) = p.config
          BY <3>3, <5>1, PreparedType, PreparedValues DEF Effective
        <5> HIDE DEF p
        <5>3. Good(p.config, p.secrets, DOMAIN p.config.sources)
          BY <5>1, <5>2, GoodEffective
        <5>4. Good(k, p.secrets, DOMAIN k.sources)
          BY <3>2, <4>1, <5>2, <5>3, GoodStripped
        <5>5. QED
          BY <4>3, <5>4 DEF Repairable
      <4>4. QED
        BY <4>1, <4>2, <4>3
    <3>6. Repairable(k, diskSecrets)
      BY <3>4, <3>5 DEF AheadInv, OneOperationAhead
    <3>7. QED
      BY <3>1, <3>6 DEF Repairable, Good
  <2>5. Repairable(cfg, secrets)'
    BY <2>2, <2>3, <2>4 DEF Next, vars, Begin, SaveConfig, SaveSecrets, SaveFails,
           Reconfigure, Answer, Crash, memory, Repairable, Good
  <2>6. QED
    BY <2>1, <2>5 DEF Repairable, Good
<1>3. Inv => OneDeletionRepairs
  <2> SUFFICES ASSUME Inv PROVE OneDeletionRepairs
    OBVIOUS
  <2>1. /\ cfg \in Config /\ secrets \in Secrets /\ ApplyDefaults(cfg) = cfg
        /\ ValuesFrom(cfg, secrets) /\ Repairable(cfg, secrets)
    BY DEF UsableInv, TypeOK
  <2>2. QED
    BY <2>1, GoodEffective, GoodDeleted DEF Repairable, OneDeletionRepairs
<1>4. QED
  BY <1>1, <1>2, <1>3, PTL DEF Spec
-----------------------------------------------------------------------------
(***************************************************************************)
(* The test buttons.                                                       *)
(***************************************************************************)
\* The form that comes back describes the host that was tested.
LEMMA DraftDescribes ==
  ASSUME NEW in \in SourceUpdate, NEW c \in Config, NEW s \in Secrets,
         NEW cert \in Optional(Trust), in.mode \in Modes,
         NEW t \in Optional(Tokens), FirstNonEmpty(t, s.proxmox[in.id]) =
                                       FirstNonEmpty(in.token, s.proxmox[in.id])
  PROVE  LET h == TestedHost(in, c, s, cert)
             d == [Draft(in, TestFingerprint(h)) EXCEPT !.token = t]
         IN  /\ d \in SourceUpdate /\ d.id = in.id /\ d.token = t
             /\ SourceFromUpdate(d, c, s) = h
             /\ h \in Source
<1> DEFINE old == Existing(c, in.id)
           src == SourceFromUpdate(in, c, s)
           h == TestedHost(in, c, s, cert)
           fp == TestFingerprint(h)
           d == [Draft(in, fp) EXCEPT !.token = t]
<1>1. in.id \in Ids /\ src \in Source
  BY SourceFromUpdateType DEF SourceUpdate
<1>2. h \in Source
  BY <1>1 DEF TestedHost, Source
<1>3. fp \in Optional(Trust)
  BY <1>2 DEF TestFingerprint, Source, Optional
<1>4. in.mode # Blank /\ Blank \in Optional(Tokens)
  BY DEF Modes, Blank, Optional
<1> HIDE DEF fp
<1>5. d = [id |-> in.id, url |-> in.url, token |-> t, mode |-> in.mode,
           pin |-> FirstNonEmpty(fp, in.pin), ca |-> in.ca]
  <2>1. FirstNonEmpty(in.mode, "fingerprint") = in.mode
    BY <1>4 DEF FirstNonEmpty
  <2>2. QED
    BY <2>1 DEF Draft
<1>6. d \in SourceUpdate
  BY <1>3, <1>5 DEF SourceUpdate, FirstNonEmpty
<1>7. src = [url |-> FirstNonEmpty(in.url, old.url),
             env |-> IF FirstNonEmpty(in.token, s.proxmox[in.id]) = Blank THEN old.env ELSE Blank,
             value |-> FirstNonEmpty(in.token, s.proxmox[in.id]),
             mode |-> in.mode, pin |-> in.pin, ca |-> in.ca]
  BY <1>4 DEF SourceFromUpdate, FirstNonEmpty
<1>8. SourceFromUpdate(d, c, s) =
        [url |-> FirstNonEmpty(in.url, old.url),
         env |-> IF FirstNonEmpty(t, s.proxmox[in.id]) = Blank THEN old.env ELSE Blank,
         value |-> FirstNonEmpty(t, s.proxmox[in.id]),
         mode |-> in.mode, pin |-> FirstNonEmpty(fp, in.pin), ca |-> in.ca]
  BY <1>4, <1>5 DEF SourceFromUpdate, FirstNonEmpty
<1> HIDE DEF old
<1>9. SourceFromUpdate(d, c, s) = [src EXCEPT !.pin = FirstNonEmpty(fp, in.pin)]
  BY <1>7, <1>8
<1>10. src.mode = in.mode /\ src.pin = in.pin
  BY <1>7
<1> HIDE DEF src, d
<1>11. h = [src EXCEPT !.pin = FirstNonEmpty(fp, in.pin)]
  <2>1. CASE src.mode = "fingerprint" /\ src.pin = Blank
    <3>1. h = [src EXCEPT !.pin = cert] /\ h.mode = "fingerprint" /\ h.pin = cert
      BY <1>1, <2>1 DEF TestedHost, src, Source
    <3>2. fp = cert
      BY <3>1 DEF TestFingerprint, fp
    <3>3. FirstNonEmpty(fp, in.pin) = cert
      BY <1>10, <2>1, <3>2 DEF FirstNonEmpty
    <3>4. QED
      BY <3>1, <3>3
  <2>2. CASE ~(src.mode = "fingerprint" /\ src.pin = Blank)
    <3>1. h = src
      BY <2>2 DEF TestedHost, src
    <3>2. fp = IF src.mode = "fingerprint" THEN src.pin ELSE Blank
      BY <3>1 DEF TestFingerprint, fp
    <3>3. FirstNonEmpty(fp, in.pin) = src.pin
      BY <1>10, <3>2 DEF FirstNonEmpty
    <3>4. QED
      BY <1>1, <3>1, <3>3 DEF Source
  <2>3. QED
    BY <2>1, <2>2
<1>12. SourceFromUpdate(d, c, s) = h
  BY <1>9, <1>11
<1>13. d.id = in.id /\ d.token = t
  BY <1>5
<1> HIDE DEF h
<1>14. QED
  BY <1>2, <1>6, <1>12, <1>13 DEF d, fp, h

\* Saving a form that describes the tested host is accepted and stores that host.
LEMMA DescribedIsSaved ==
  ASSUME NEW d \in SourceUpdate, NEW c \in Config, NEW s \in Secrets, ValuesFrom(c, s),
         NEW h \in Source, SourceFromUpdate(d, c, s) = h,
         h.value = FirstNonEmpty(d.token, s.proxmox[d.id]),
         h.url # Blank, h.value # Blank \/ h.env # Blank,
         SourceValid(h), ClientBuilds(h), UsableBut(d.id, c, s)
  PROVE  LET op == [kind |-> "save", in |-> d]
         IN  /\ Accepted(op, c, s)
             /\ Prepared(op, c, s).config.sources[d.id] = h
<1> DEFINE op == [kind |-> "save", in |-> d]
           r == Result(op, c, s)
           k == ApplySecrets(ApplyDefaults(r.config), r.secrets)
           live == ApplySecrets(ApplyDefaults(c), s)
<1>1. op \in Operation /\ op.kind = "save" /\ op.in = d /\ d.id \in Ids
  BY DEF Operation, SourceUpdate
<1>2. r.config \in Config /\ r.secrets \in Secrets
  BY <1>1, ResultValues
<1>3. r = UpsertSource(d, c, s)
  BY <1>1 DEF Result
<1>4. /\ DOMAIN r.config.sources = DOMAIN c.sources \cup {d.id}
      /\ \A i \in DOMAIN r.config.sources :
           r.config.sources[i] = IF i = d.id THEN h ELSE c.sources[i]
  BY <1>3 DEF UpsertSource, Config
<1>5. /\ r.secrets.display = s.display
      /\ \A i \in Ids : r.secrets.proxmox[i] = IF i = d.id THEN h.value ELSE s.proxmox[i]
  BY <1>1, <1>3 DEF UpsertSource, Secrets
<1>6. DOMAIN c.sources \subseteq Ids
  BY ConfigFields
<1> HIDE DEF r
<1>7. /\ DOMAIN k.sources = DOMAIN r.config.sources
      /\ \A i \in DOMAIN k.sources :
           k.sources[i] = Filled(r.config.sources[i], r.secrets.proxmox[i])
      /\ k.display = r.secrets.display
  BY <1>2, FilledForm
<1>8. /\ DOMAIN live.sources = DOMAIN c.sources
      /\ \A i \in DOMAIN live.sources : live.sources[i] = Filled(c.sources[i], s.proxmox[i])
      /\ live.display = s.display
  BY FilledForm
<1>9. k.sources[d.id] = h
  <2>1. k.sources[d.id] = Filled(h, h.value)
    BY <1>1, <1>4, <1>5, <1>7
  <2>2. h.mode # Blank
    BY DEF SourceValid, Modes, Blank
  <2>3. Filled(h, h.value) = h
    BY <2>2 DEF Filled, WithMode, WithValue, FirstNonEmpty, Source
  <2>4. QED
    BY <2>1, <2>3
<1>10. Prepared(op, c, s).config = k
  BY DEF Prepared, r
<1> HIDE DEF k, live, op
<1>11. \A i \in DOMAIN k.sources : SourceValid(k.sources[i]) /\ ClientBuilds(k.sources[i])
  <2> SUFFICES ASSUME NEW i \in DOMAIN k.sources
               PROVE  SourceValid(k.sources[i]) /\ ClientBuilds(k.sources[i])
    OBVIOUS
  <2>1. CASE i = d.id
    BY <2>1, <1>9
  <2>2. CASE i # d.id
    <3>1. i \in DOMAIN c.sources /\ k.sources[i] = live.sources[i]
      BY <2>2, <1>4, <1>5, <1>6, <1>7, <1>8
    <3>2. QED
      BY <2>2, <3>1, <1>8 DEF UsableBut, live
  <2>3. QED
    BY <2>1, <2>2
<1>12. DisplayTokenSet(k)
  BY <1>5, <1>7, <1>8 DEF UsableBut, live, DisplayTokenSet
<1>13. CollectorBuilds(k)
  BY <1>11, <1>12 DEF CollectorBuilds, Validate
<1>14. OperationOK(op, c, s)
  BY <1>1 DEF OperationOK, UpsertSourceOK
<1>15. QED
  BY <1>9, <1>10, <1>13, <1>14 DEF Accepted, op

\* A source whose test passed can be saved from the form that comes back, and
\* is then the host that was tested: with the token typed once more, or without
\* it if it is the saved one.  This is so though the test may take a certificate
\* on trust, and whatever the source was before; the other sources must be in
\* order (Manager.TestSource, redirectAdminWithDraft, Manager.UpsertSource).
THEOREM TestedIsSaved ==
  ASSUME NEW in \in SourceUpdate, NEW c \in Config, NEW s \in Secrets, ValuesFrom(c, s),
         NEW cert \in Optional(Trust), NEW answers \in BOOLEAN,
         in.mode \in Modes, TestOK(in, c, s, cert, answers), UsableBut(in.id, c, s)
  PROVE  LET host == TestedHost(in, c, s, cert)
             Saved(op) == /\ Accepted(op, c, s)
                          /\ Prepared(op, c, s).config.sources[in.id] = host
         IN  /\ Saved(SaveTested(in, TestFingerprint(host)))
             /\ in.token \in {Blank, s.proxmox[in.id]} =>
                  Saved(SaveDraft(in, TestFingerprint(host)))
<1> DEFINE host == TestedHost(in, c, s, cert)
           fp == TestFingerprint(host)
           typed == [Draft(in, fp) EXCEPT !.token = in.token]
           left == [Draft(in, fp) EXCEPT !.token = Blank]
           src == SourceFromUpdate(in, c, s)
           t == FirstNonEmpty(in.token, s.proxmox[in.id])
<1>1. in.id \in Ids /\ in.token \in Optional(Tokens) /\ s.proxmox[in.id] \in Optional(Tokens)
  BY DEF SourceUpdate, Secrets
<1>2. typed \in SourceUpdate /\ typed.id = in.id /\ typed.token = in.token
      /\ SourceFromUpdate(typed, c, s) = host /\ host \in Source
  BY <1>1, DraftDescribes
<1>3. src \in Source /\ src.value = t
  BY SourceFromUpdateType DEF SourceFromUpdate
<1>4. host.url = src.url /\ host.env = src.env /\ host.value = src.value
  <2> HIDE DEF src
  <2>1. QED
    BY <1>3 DEF TestedHost, Source, src
<1>5. host.url # Blank /\ (host.value # Blank \/ host.env # Blank)
  BY <1>4 DEF TestOK, UpsertSourceOK
<1>6. SourceValid(host) /\ ClientBuilds(host)
  BY <1>5 DEF TestOK, SourceValid
<1>7. host.value = t
  BY <1>3, <1>4
<1> HIDE DEF host, fp, src, typed, left
<1>8. /\ Accepted([kind |-> "save", in |-> typed], c, s)
      /\ Prepared([kind |-> "save", in |-> typed], c, s).config.sources[in.id] = host
  BY <1>2, <1>5, <1>6, <1>7, DescribedIsSaved
<1>9. ASSUME in.token \in {Blank, s.proxmox[in.id]}
      PROVE  /\ Accepted([kind |-> "save", in |-> left], c, s)
             /\ Prepared([kind |-> "save", in |-> left], c, s).config.sources[in.id] = host
  <2>1. FirstNonEmpty(Blank, s.proxmox[in.id]) = t /\ Blank \in Optional(Tokens)
    BY <1>9 DEF FirstNonEmpty, Optional
  <2>2. left \in SourceUpdate /\ left.id = in.id /\ left.token = Blank
        /\ SourceFromUpdate(left, c, s) = host
    BY <2>1, DraftDescribes DEF left, fp, host
  <2>3. QED
    BY <1>2, <1>5, <1>6, <1>7, <2>1, <2>2, DescribedIsSaved
<1>10. Draft(in, fp) = left
  BY DEF Draft, left
<1>11. QED
  BY <1>8, <1>9, <1>10 DEF SaveTested, SaveDraft, typed, fp, host

=============================================================================
