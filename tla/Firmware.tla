------------------------------ MODULE Firmware ------------------------------
(***************************************************************************)
(* The display device: one loop that reads two buttons, polls the bridge   *)
(* and draws a screen; before that, boot, the set-up portal and the Wi-Fi  *)
(* connection.  The loop is a single thread: what interleaves with it are  *)
(* the network, the bridge, the people at the buttons and in the portal,   *)
(* and a power loss at any moment, which leaves only the settings, stored  *)
(* key by key.                                                             *)
(*                                                                         *)
(* A value of a setting is known by what it is, not by its text.  Of a     *)
(* list only the number of its entries and the selected one are kept.      *)
(***************************************************************************)
EXTENDS Integers, Sequences, FiniteSets

CONSTANTS
  Forms,        \* what is entered in the portal: a value for every key
  Networks,     \* Wi-Fi networks: pairs [ssid, password] one can connect with
  Bridges,      \* bridges: pairs [bridge, token] that answer
  StateLists,   \* lists of /api/v1/display-state
  DetailLists,  \* lists of /api/v1/detail-state
  Screens,      \* the screens in their order, each with its list or None
  MaxItems,     \* MAX_HOSTS and its like: entries the device keeps of a list
  Blank,        \* no value
  None          \* no list

Text == {"ssid", "password", "bridge", "token"}
Keys == Text \cup {"bright"}
Lists == StateLists \cup DetailLists

Brightness == 0..255

ASSUME FirmwareAssumption ==
  /\ \A f \in Forms : f = [k \in Keys |-> f[k]] /\ f["bright"] \in Brightness
  /\ StateLists \cap DetailLists = {}
  /\ Screens \in Seq(Lists \cup {None}) /\ Screens # <<>>
  /\ MaxItems \in Nat \ {0}

VARIABLES
  prefs,     \* flash: the stored settings
  cfg,       \* the settings in memory
  at,        \* where the program is
  todo,      \* keys still to be written
  count,     \* entries of each list
  sel,       \* the selected entry of each list, from 0
  screen,    \* screenIndex, from 1
  error,     \* lastError is not empty
  synced,    \* lastOK is not 0: a state was received since boot
  wifi,      \* the network is there
  serving,   \* the bridge is there, and its answers can be parsed
  entered    \* history: forms whose saving began since the settings were last empty

flash == <<prefs, entered>>
shown == <<count, sel, screen, error, synced>>
outside == <<wifi, serving>>
vars == <<flash, cfg, at, todo, shown, outside>>

Empty == [k \in Keys |-> IF k = "bright" THEN 220 ELSE Blank]

Configured(c) == \A k \in {"ssid", "bridge", "token"} : c[k] # Blank

Places == {"off", "connect", "portal", "save", "toggle", "erase", "restart", "fetch", "detail", "loop"}

-----------------------------------------------------------------------------
(***************************************************************************)
(* Power, boot, connection.                                                *)
(***************************************************************************)
ClearedMemory ==
  /\ todo' = <<>>
  /\ count' = [l \in Lists |-> 0]
  /\ sel' = [l \in Lists |-> 0]
  /\ screen' = 1
  /\ error' = FALSE
  /\ synced' = FALSE

Init ==
  /\ prefs = Empty
  /\ cfg = Empty
  /\ at = "off"
  /\ todo = <<>>
  /\ count = [l \in Lists |-> 0]
  /\ sel = [l \in Lists |-> 0]
  /\ screen = 1
  /\ error = FALSE
  /\ synced = FALSE
  /\ wifi = FALSE
  /\ serving = FALSE
  /\ entered = {}

PowerOff ==
  /\ at # "off"
  /\ at' = "off"
  /\ cfg' = Empty
  /\ ClearedMemory
  /\ UNCHANGED <<flash, outside>>

\* setup: the portal if there is no complete set of settings, else connectWiFi.
Boot ==
  /\ at \in {"off", "restart"}
  /\ cfg' = prefs
  /\ at' = IF Configured(prefs) THEN "connect" ELSE "portal"
  /\ ClearedMemory
  /\ UNCHANGED <<flash, outside>>

Linked == wifi /\ [ssid |-> cfg["ssid"], password |-> cfg["password"]] \in Networks

\* Twenty seconds, then the portal, from which only a restart leads back.
ConnectWiFi ==
  /\ at = "connect"
  /\ at' = IF Linked THEN "fetch" ELSE "portal"
  /\ error' = ~Linked
  /\ UNCHANGED <<flash, cfg, todo, count, sel, screen, synced, outside>>

(***************************************************************************)
(* The settings in flash.                                                  *)
(***************************************************************************)
\* Slip: the password is written last.
SaveOrderPasswordLast == <<"ssid", "bridge", "token", "password", "bright">>

SaveOrder == <<"ssid", "password", "bridge", "token", "bright">>

\* POST /save of the portal.  Each key is then written on its own.
PortalSave ==
  /\ at = "portal"
  /\ \E f \in Forms : cfg' = f /\ entered' = entered \cup {f}
  /\ at' = "save"
  /\ todo' = SaveOrder
  /\ UNCHANGED <<prefs, shown, outside>>

PutKey ==
  /\ at \in {"save", "toggle"} /\ todo # <<>>
  /\ prefs' = [prefs EXCEPT ![Head(todo)] = cfg[Head(todo)]]
  /\ todo' = Tail(todo)
  /\ UNCHANGED <<entered, cfg, at, shown, outside>>

\* After the portal's save the device restarts; after toggleBrightness it goes on.
Saved ==
  /\ at \in {"save", "toggle"} /\ todo = <<>>
  /\ at' = IF at = "toggle" THEN "loop" ELSE "restart"
  /\ UNCHANGED <<flash, cfg, todo, shown, outside>>

\* clearConfig, from the portal or with both buttons.  In the flash the entries
\* are erased one by one.
ClearConfig ==
  /\ at \in {"portal", "loop"}
  /\ at' = "erase"
  /\ entered' = entered \cup {Empty}
  /\ UNCHANGED <<prefs, cfg, todo, shown, outside>>

EraseKey ==
  /\ at = "erase"
  /\ \E k \in Keys :
       prefs[k] # Empty[k] /\ prefs' = [prefs EXCEPT ![k] = Empty[k]]
  /\ UNCHANGED <<entered, cfg, at, todo, shown, outside>>

Erased ==
  /\ at = "erase" /\ prefs = Empty
  /\ entered' = {}
  /\ at' = "restart"
  /\ UNCHANGED <<prefs, cfg, todo, shown, outside>>

(***************************************************************************)
(* Fetching: the state, and when that has worked the details.              *)
(***************************************************************************)
Reached ==
  Linked /\ serving /\ [bridge |-> cfg["bridge"], token |-> cfg["token"]] \in Bridges

\* Slip: one entry too many is kept.
AtMostAndOne(n) == IF n > MaxItems + 1 THEN MaxItems + 1 ELSE n

AtMost(n) == IF n > MaxItems THEN MaxItems ELSE n

\* Slip: a selection one behind the last entry passes for valid.
ClampedOneOff(n, i) == IF n = 0 THEN 0 ELSE IF i > n THEN n - 1 ELSE i

\* The selection after a list has come to have n entries.
Clamped(n, i) == IF n = 0 THEN 0 ELSE IF i >= n THEN n - 1 ELSE i

\* A payload with as many entries as the bridge likes; the lists of the other
\* payload stay.
Parsed(lists) ==
  \E sent \in [lists -> 0..MaxItems + 1] :
    /\ count' = [l \in Lists |-> IF l \in lists THEN AtMost(sent[l]) ELSE count[l]]
    /\ sel' = [l \in Lists |-> IF l \in lists THEN Clamped(AtMost(sent[l]), sel[l]) ELSE sel[l]]

\* An answer replaces the state; without one the old state is drawn again.
FetchState ==
  /\ at = "fetch"
  /\ IF Reached
     THEN /\ Parsed(StateLists)
          /\ error' = FALSE /\ synced' = TRUE
          /\ at' = "detail"
     ELSE /\ error' = TRUE
          /\ at' = "loop"
          /\ UNCHANGED <<count, sel, synced>>
  /\ UNCHANGED <<flash, cfg, todo, screen, outside>>

FetchDetailState ==
  /\ at = "detail"
  /\ at' = "loop"
  /\ IF Reached THEN Parsed(DetailLists) ELSE UNCHANGED <<count, sel>>
  /\ UNCHANGED <<flash, cfg, todo, screen, error, synced, outside>>

\* Slip: after an error the device polls no more.
PollUntilError ==
  /\ at = "loop" /\ ~error
  /\ at' = "fetch"
  /\ UNCHANGED <<flash, cfg, todo, shown, outside>>

Poll ==
  /\ at = "loop"
  /\ at' = "fetch"
  /\ UNCHANGED <<flash, cfg, todo, shown, outside>>

(***************************************************************************)
(* Buttons.  When a press comes and how long it is are left to chance.     *)
(***************************************************************************)
ChangeScreen ==
  /\ at = "loop"
  /\ screen' \in {IF screen = Len(Screens) THEN 1 ELSE screen + 1,
                  IF screen = 1 THEN Len(Screens) ELSE screen - 1}
  /\ UNCHANGED <<flash, cfg, at, todo, count, sel, error, synced, outside>>

\* Button B: the next entry of the screen's list, or a refresh.
ButtonBShort ==
  /\ at = "loop"
  /\ LET l == Screens[screen]
     IN  IF l = None THEN at' = "fetch" /\ UNCHANGED sel
         ELSE /\ count[l] > 0
              /\ sel' = [sel EXCEPT ![l] = (@ + 1) % count[l]]
              /\ UNCHANGED at
  /\ UNCHANGED <<flash, cfg, todo, count, screen, error, synced, outside>>

Toggled(b) == IF b > 180 THEN 60 ELSE IF b > 80 THEN 220 ELSE 140

\* Every key is written again.
ToggleBrightness ==
  /\ at = "loop"
  /\ cfg' = [cfg EXCEPT !["bright"] = Toggled(@)]
  /\ at' = "toggle"
  /\ todo' = SaveOrder
  /\ UNCHANGED <<flash, shown, outside>>

\* The network and the bridge come and go.
Outside ==
  /\ wifi' \in BOOLEAN
  /\ serving' \in BOOLEAN
  /\ UNCHANGED <<flash, cfg, at, todo, shown>>

-----------------------------------------------------------------------------
Program ==
  \/ ConnectWiFi \/ PutKey \/ Saved \/ EraseKey \/ Erased
  \/ FetchState \/ FetchDetailState

Next ==
  \/ Boot
  \/ PowerOff
  \/ ConnectWiFi
  \/ PortalSave
  \/ PutKey
  \/ Saved
  \/ ClearConfig
  \/ EraseKey
  \/ Erased
  \/ FetchState
  \/ FetchDetailState
  \/ Poll
  \/ ChangeScreen
  \/ ButtonBShort
  \/ ToggleBrightness
  \/ Outside

Spec == Init /\ [][Next]_vars

\* The program runs on while there is power, restarts by itself, and its poll
\* comes although buttons are pressed in between.  Nothing is assumed of people.
FairSpec ==
  /\ Spec
  /\ WF_vars(Program)
  /\ WF_vars(at = "restart" /\ Boot)
  /\ SF_vars(Poll)

-----------------------------------------------------------------------------
(***************************************************************************)
(* Properties.                                                             *)
(***************************************************************************)
\* Every variable holds what its C++ counterpart may hold.
TypeOK ==
  /\ DOMAIN prefs = Keys /\ DOMAIN cfg = Keys
  /\ prefs["bright"] \in Brightness /\ cfg["bright"] \in Brightness
  /\ at \in Places
  /\ count \in [Lists -> 0..MaxItems]
  /\ sel \in [Lists -> Nat]
  /\ screen \in DOMAIN Screens
  /\ {error, synced, wifi, serving} \subseteq BOOLEAN

\* What a screen draws of a list exists: the lists may shrink with every
\* answer, the two answers of a poll fail one without the other, and each of
\* the lists has a selection of its own to be corrected.
SelectionExists ==
  at = "loop" => \A l \in Lists : count[l] = 0 \/ sel[l] < count[l]

\* A power loss while the settings are written leaves a mixture in flash.  With
\* one form entered since the settings were last empty, the device connects
\* with exactly what was entered, or else opens the portal.
EnteredWhole ==
  at \in {"connect", "fetch", "detail", "loop"}
    => \A f \in Forms : entered = {f} => \A k \in Text : cfg[k] = f[k]

\* When from some time on power, network, bridge and settings are all right, the
\* device shows what the bridge says again and again, unless it waits in the
\* portal, which it never leaves by itself.
ShowsAgain ==
  <>[](at # "off" /\ Reached)
    => []<>(at = "portal" \/ (at = "loop" /\ synced /\ ~error))

AllClear == Screens[screen] = "alert" /\ count["alert"] = 0

\* The device says that everything is OK only when a bridge has told it so.
AllClearIsTold == at = "loop" /\ AllClear => synced
=============================================================================
