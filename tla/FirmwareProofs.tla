--------------------------- MODULE FirmwareProofs ---------------------------
(***************************************************************************)
(* For any forms, networks, bridges and lists: the device's state is       *)
(* well-formed, what it draws of a list exists, and it never runs with     *)
(* half of what was entered.                                               *)
(***************************************************************************)
EXTENDS Firmware, TLAPS

USE FirmwareAssumption

\* Where the lists' counts and selections come from.
LEMMA ListHelpers ==
  ASSUME NEW n \in Nat, NEW i \in Nat
  PROVE  /\ AtMost(n) \in 0 .. MaxItems /\ AtMost(n) \in Nat
         /\ Clamped(n, i) \in Nat
         /\ n = 0 \/ Clamped(n, i) < n
  BY DEF AtMost, Clamped

(***************************************************************************)
(* The lists.  A selection may be wrong only until the payload that made   *)
(* the list shorter has been parsed to its end: the invariant holds at     *)
(* every step, not only when a screen is drawn.                            *)
(***************************************************************************)
ListInv ==
  /\ count \in [Lists -> 0 .. MaxItems]
  /\ sel \in [Lists -> Nat]
  /\ \A l \in Lists : count[l] = 0 \/ sel[l] < count[l]

\* A payload keeps them so, whichever lists it carries.
LEMMA ParsedLists ==
  ASSUME ListInv, NEW lists \in SUBSET Lists, Parsed(lists)
  PROVE  ListInv'
  <1>1. PICK sent \in [lists -> 0 .. MaxItems + 1] :
          /\ count' = [l \in Lists |-> IF l \in lists THEN AtMost(sent[l]) ELSE count[l]]
          /\ sel' = [l \in Lists |-> IF l \in lists THEN Clamped(AtMost(sent[l]), sel[l]) ELSE sel[l]]
    BY DEF Parsed
  <1>2. ASSUME NEW l \in Lists
        PROVE  /\ count'[l] \in 0 .. MaxItems /\ sel'[l] \in Nat
               /\ count'[l] = 0 \/ sel'[l] < count'[l]
    <2>1. CASE l \in lists
      <3>1. sent[l] \in Nat /\ sel[l] \in Nat
        BY <1>1, <2>1 DEF ListInv
      <3>2. count'[l] = AtMost(sent[l]) /\ sel'[l] = Clamped(AtMost(sent[l]), sel[l])
        BY <1>1, <2>1
      <3>3. AtMost(sent[l]) \in 0 .. MaxItems /\ AtMost(sent[l]) \in Nat
        BY <3>1, ListHelpers
      <3>4. /\ Clamped(AtMost(sent[l]), sel[l]) \in Nat
            /\ AtMost(sent[l]) = 0 \/ Clamped(AtMost(sent[l]), sel[l]) < AtMost(sent[l])
        BY <3>1, <3>3, ListHelpers
      <3> QED
        BY <3>2, <3>3, <3>4
    <2>2. CASE l \notin lists
      BY <1>1, <2>2 DEF ListInv
    <2> QED
      BY <2>1, <2>2
  <1>3. /\ DOMAIN count' = Lists /\ DOMAIN sel' = Lists
        /\ count' = [l \in Lists |-> count'[l]] /\ sel' = [l \in Lists |-> sel'[l]]
    BY <1>1
  <1> QED
    BY <1>2, <1>3 DEF ListInv

LEMMA NextLists == ListInv /\ [Next]_vars => ListInv'
  <1> SUFFICES ASSUME ListInv, [Next]_vars PROVE ListInv'
      OBVIOUS
  <1>1. CASE ClearedMemory
    BY <1>1 DEF ClearedMemory, ListInv
  <1>2. CASE FetchState \/ FetchDetailState
    <2>1. StateLists \in SUBSET Lists /\ DetailLists \in SUBSET Lists
      BY DEF Lists
    <2>2. CASE UNCHANGED <<count, sel>>
      BY <2>2 DEF ListInv
    <2> QED
      BY <1>2, <2>1, <2>2, ParsedLists DEF FetchState, FetchDetailState
  <1>3. CASE ButtonBShort
    <2> DEFINE l == Screens[screen]
    <2>1. CASE l = None
      BY <1>3, <2>1 DEF ButtonBShort, ListInv
    <2>2. CASE l # None
      <3>1. /\ count' = count /\ count[l] > 0
            /\ sel' = [sel EXCEPT ![l] = (@ + 1) % count[l]]
        BY <1>3, <2>2 DEF ButtonBShort
      <3>2. CASE l \in Lists
        <4>1. /\ count[l] \in Nat \ {0} /\ sel[l] \in Nat
          BY <3>1, <3>2 DEF ListInv
        <4>2. (sel[l] + 1) % count[l] \in Nat /\ (sel[l] + 1) % count[l] < count[l]
          BY <4>1
        <4> HIDE DEF l
        <4>3. sel' \in [Lists -> Nat]
          BY <3>1, <3>2, <4>2 DEF ListInv
        <4>4. \A m \in Lists : count'[m] = 0 \/ sel'[m] < count'[m]
          BY <3>1, <3>2, <4>2 DEF ListInv
        <4> QED
          BY <3>1, <4>3, <4>4 DEF ListInv
      <3>3. CASE l \notin Lists
        <4>1. sel' = sel
          BY <3>1, <3>3 DEF ListInv
        <4> QED
          BY <3>1, <4>1 DEF ListInv
      <3> QED
        BY <3>2, <3>3
    <2> QED
      BY <2>1, <2>2
  <1>4. CASE UNCHANGED <<count, sel>>
    BY <1>4 DEF ListInv
  <1> QED
    BY <1>1, <1>2, <1>3, <1>4
       DEF Next, Boot, PowerOff, ConnectWiFi, PortalSave, PutKey, Saved, ClearConfig, EraseKey,
           Erased, Poll, ChangeScreen, ToggleBrightness, Outside, vars, shown

LEMMA InitLists == Init => ListInv
  BY DEF Init, ListInv

\* For any lists and payloads, and answers that fail one without the other:
\* what a screen draws of a list exists (parseState, parseDetailState, buttons).
THEOREM Selections == Spec => []SelectionExists
  <1>1. ListInv => SelectionExists
    BY DEF ListInv, SelectionExists
  <1> QED
    BY <1>1, InitLists, NextLists, PTL DEF Spec

-----------------------------------------------------------------------------
(***************************************************************************)
(* The settings.                                                           *)
(***************************************************************************)
\* Types, of settings that are functions.
SettingsInv ==
  /\ prefs = [k \in Keys |-> prefs[k]] /\ prefs["bright"] \in Brightness
  /\ cfg = [k \in Keys |-> cfg[k]] /\ cfg["bright"] \in Brightness
  /\ at \in Places
  /\ screen \in DOMAIN Screens
  /\ error \in BOOLEAN /\ synced \in BOOLEAN /\ wifi \in BOOLEAN /\ serving \in BOOLEAN

LEMMA EmptyValues ==
  /\ Empty = [k \in Keys |-> Empty[k]] /\ Empty["bright"] \in Brightness
  /\ \A k \in Text : Empty[k] = Blank /\ k \in Keys /\ k # "bright"
  /\ "bright" \in Keys /\ Keys = Text \cup {"bright"}
  /\ Text = {"ssid", "password", "bridge", "token"}
  BY DEF Empty, Keys, Text, Brightness

\* One case per action that changes settings.
LEMMA NextSettings == SettingsInv /\ [Next]_vars => SettingsInv'
  <1> SUFFICES ASSUME SettingsInv, [Next]_vars PROVE SettingsInv'
      OBVIOUS
  <1>1. 1 \in DOMAIN Screens /\ DOMAIN Screens = 1 .. Len(Screens)
    BY FirmwareAssumption
  <1>2. CASE Boot \/ PowerOff
    BY <1>1, <1>2, EmptyValues DEF Boot, PowerOff, ClearedMemory, SettingsInv, Places, flash, outside
  <1>3. CASE PortalSave
    BY <1>3 DEF PortalSave, SettingsInv, Places, shown, outside
  <1>4. CASE PutKey \/ EraseKey
    BY <1>4, EmptyValues DEF PutKey, EraseKey, SettingsInv, shown, outside
  <1>5. CASE ToggleBrightness
    <2>1. /\ cfg' = [cfg EXCEPT !["bright"] = Toggled(@)] /\ at' = "toggle"
          /\ UNCHANGED <<prefs, screen, error, synced, wifi, serving>>
      BY <1>5 DEF ToggleBrightness, flash, shown, outside
    <2>2. Toggled(cfg["bright"]) \in Brightness
      BY DEF SettingsInv, Toggled, Brightness
    <2>3. cfg' = [k \in Keys |-> cfg'[k]] /\ cfg'["bright"] \in Brightness
      BY <2>1, <2>2, EmptyValues DEF SettingsInv
    <2> QED
      BY <2>1, <2>3 DEF SettingsInv, Places
  <1>6. CASE ChangeScreen
    BY <1>1, <1>6 DEF ChangeScreen, SettingsInv, flash, outside
  <1>7. CASE Outside
    BY <1>7 DEF Outside, SettingsInv, flash, shown
  <1>8. CASE ConnectWiFi \/ FetchState \/ FetchDetailState \/ Poll \/ ButtonBShort
    BY <1>8 DEF ConnectWiFi, Linked, FetchState, FetchDetailState, Poll, ButtonBShort, SettingsInv, Places,
           flash, shown, outside
  <1>9. CASE Saved \/ ClearConfig \/ Erased
    BY <1>9 DEF Saved, ClearConfig, Erased, SettingsInv, Places, flash, shown, outside
  <1>10. CASE UNCHANGED vars
    BY <1>10 DEF vars, flash, shown, outside, SettingsInv
  <1> QED
    BY <1>2, <1>3, <1>4, <1>5, <1>6, <1>7, <1>8, <1>9, <1>10 DEF Next

LEMMA InitSettings == Init => SettingsInv
  <1>1. 1 \in DOMAIN Screens
    BY FirmwareAssumption
  <1> QED
    BY <1>1, EmptyValues DEF Init, SettingsInv, Places

\* Power losses, forms, answers and presses in any order leave the device's
\* state well-formed: brightness fits its byte, lists fit their arrays.
THEOREM TypeCorrect == Spec => []TypeOK
  <1>1. SettingsInv /\ ListInv => TypeOK
    <2> SUFFICES ASSUME SettingsInv, ListInv PROVE TypeOK
        OBVIOUS
    <2>1. DOMAIN prefs = Keys /\ DOMAIN cfg = Keys
      BY DEF SettingsInv
    <2>2. {error, synced, wifi, serving} \subseteq BOOLEAN
      BY DEF SettingsInv
    <2> QED
      BY <2>1, <2>2 DEF SettingsInv, ListInv, TypeOK
  <1> QED
    BY <1>1, InitSettings, NextSettings, InitLists, NextLists, PTL DEF Spec

-----------------------------------------------------------------------------
(***************************************************************************)
(* A first set-up cut short.  The token is the last text that is written   *)
(* and setup asks for it: where a token is in flash all the rest is.       *)
(***************************************************************************)
\* What may be left to write.
Rests == {SaveOrder, <<"password", "bridge", "token", "bright">>,
          <<"bridge", "token", "bright">>, <<"token", "bright">>, <<"bright">>, <<>>}

Elements(t) == {t[i] : i \in DOMAIN t}

Unwritten == Elements(todo)

Running == {"connect", "fetch", "detail", "loop", "toggle"}

WholeInv ==
  /\ at \in {"save", "toggle"} => todo \in Rests
  /\ at = "erase" => Empty \in entered
  /\ entered = {} => /\ \A k \in Text : prefs[k] = Blank
                     /\ at \notin Running \cup {"save"}
  /\ \A f \in Forms : entered = {f} =>
       /\ prefs["token"] = Blank \/ \A k \in Text : prefs[k] = f[k]
       /\ at \in Running => \A k \in Text : cfg[k] = f[k] /\ prefs[k] = f[k]
       /\ at = "save" => cfg = f /\ \A k \in Text : prefs[k] = f[k] \/ k \in Unwritten

\* What each rest consists of.
LEMMA RestElements ==
  /\ Elements(SaveOrder) = {"ssid", "password", "bridge", "token", "bright"}
  /\ Elements(<<"password", "bridge", "token", "bright">>) = {"password", "bridge", "token", "bright"}
  /\ Elements(<<"bridge", "token", "bright">>) = {"bridge", "token", "bright"}
  /\ Elements(<<"token", "bright">>) = {"token", "bright"}
  /\ Elements(<<"bright">>) = {"bright"}
  /\ Elements(<<>>) = {}
  BY DEF Elements, SaveOrder

\* Writing takes the keys in their order.
LEMMA Writing ==
  ASSUME todo \in Rests, todo # <<>>, todo' = Tail(todo)
  PROVE  /\ todo' \in Rests
         /\ Head(todo) \in Keys
         /\ \A k \in Unwritten : k = Head(todo) \/ k \in Unwritten'
         /\ Head(todo) = "token" => \A k \in Text : k = "token" \/ k \notin Unwritten
  <1>1. CASE todo = SaveOrder
    <2>1. /\ Head(todo) = "ssid" /\ Tail(todo) = <<"password", "bridge", "token", "bright">>
          /\ DOMAIN todo = {1, 2, 3, 4, 5}
      BY <1>1 DEF SaveOrder
    <2>2. Unwritten = {"ssid", "password", "bridge", "token", "bright"}
      BY <1>1, <2>1, RestElements DEF Unwritten
    <2>3. Unwritten' = {"password", "bridge", "token", "bright"}
      BY <1>1, <2>1, RestElements DEF Unwritten
    <2> QED
      BY <2>1, <2>2, <2>3 DEF Rests, Keys, Text
  <1>2. CASE todo = <<"password", "bridge", "token", "bright">>
    <2>1. /\ Head(todo) = "password" /\ Tail(todo) = <<"bridge", "token", "bright">>
      BY <1>2
    <2>2. Unwritten = {"password", "bridge", "token", "bright"}
      BY <1>2, <2>1, RestElements DEF Unwritten
    <2>3. Unwritten' = {"bridge", "token", "bright"}
      BY <1>2, <2>1, RestElements DEF Unwritten
    <2> QED
      BY <2>1, <2>2, <2>3 DEF Rests, Keys, Text
  <1>3. CASE todo = <<"bridge", "token", "bright">>
    <2>1. /\ Head(todo) = "bridge" /\ Tail(todo) = <<"token", "bright">>
      BY <1>3
    <2>2. Unwritten = {"bridge", "token", "bright"}
      BY <1>3, <2>1, RestElements DEF Unwritten
    <2>3. Unwritten' = {"token", "bright"}
      BY <1>3, <2>1, RestElements DEF Unwritten
    <2> QED
      BY <2>1, <2>2, <2>3 DEF Rests, Keys, Text
  <1>4. CASE todo = <<"token", "bright">>
    <2>1. /\ Head(todo) = "token" /\ Tail(todo) = <<"bright">>
      BY <1>4
    <2>2. Unwritten = {"token", "bright"}
      BY <1>4, <2>1, RestElements DEF Unwritten
    <2>3. Unwritten' = {"bright"}
      BY <1>4, <2>1, RestElements DEF Unwritten
    <2> QED
      BY <2>1, <2>2, <2>3 DEF Rests, Keys, Text
  <1>5. CASE todo = <<"bright">>
    <2>1. /\ Head(todo) = "bright" /\ Tail(todo) = <<>>
      BY <1>5
    <2>2. Unwritten = {"bright"}
      BY <1>5, <2>1, RestElements DEF Unwritten
    <2> QED
      BY <2>1, <2>2 DEF Rests, Keys, Text
  <1> QED
    BY <1>1, <1>2, <1>3, <1>4, <1>5 DEF Rests

\* At the start of a save everything is to be written, at its end nothing.
LEMMA WritingEnds ==
  /\ todo = SaveOrder => todo \in Rests /\ Text \subseteq Unwritten
  /\ todo = <<>> => Unwritten = {}
  <1>1. ASSUME todo = SaveOrder PROVE Text \subseteq Unwritten
    <2>1. Unwritten = {"ssid", "password", "bridge", "token", "bright"}
      BY <1>1, RestElements DEF Unwritten
    <2> QED
      BY <2>1 DEF Text
  <1> QED
    BY <1>1, RestElements DEF Rests, Unwritten

LEMMA NextWhole == SettingsInv /\ WholeInv /\ [Next]_vars => WholeInv'
  <1> SUFFICES ASSUME SettingsInv, WholeInv, [Next]_vars PROVE WholeInv'
      OBVIOUS
  <1>1. CASE PowerOff
    BY <1>1 DEF PowerOff, WholeInv, Running, flash
  <1>2. CASE Boot
    <2>1. /\ cfg' = prefs /\ UNCHANGED <<prefs, entered>>
          /\ \/ at' = "portal"
             \/ at' = "connect" /\ prefs["token"] # Blank
      BY <1>2 DEF Boot, Configured, flash
    <2>2. "token" \in Text
      BY DEF Text
    <2> QED
      BY <2>1, <2>2 DEF WholeInv, Running
  <1>3. CASE PortalSave
    <2>1. PICK f \in Forms : cfg' = f /\ entered' = entered \cup {f}
      BY <1>3 DEF PortalSave
    <2>2. at' = "save" /\ todo' = SaveOrder /\ prefs' = prefs
      BY <1>3 DEF PortalSave
    <2>3. todo' \in Rests /\ Text \subseteq Unwritten'
      <3>1. (todo = SaveOrder => todo \in Rests /\ Text \subseteq Unwritten)'
        BY WritingEnds, PTL
      <3> QED
        BY <2>2, <3>1
    <2>4. ASSUME NEW g \in Forms, entered' = {g}
          PROVE  g = f /\ (prefs["token"] = Blank \/ \A k \in Text : prefs[k] = g[k])
      <3>1. g = f /\ (entered = {} \/ entered = {g})
        BY <2>1, <2>4
      <3> QED
        BY <3>1, EmptyValues DEF WholeInv
    <2> QED
      BY <2>1, <2>2, <2>3, <2>4 DEF WholeInv, Running
  <1>4. CASE PutKey
    <2>1. /\ prefs' = [prefs EXCEPT ![Head(todo)] = cfg[Head(todo)]]
          /\ todo' = Tail(todo) /\ todo # <<>> /\ todo \in Rests
          /\ UNCHANGED <<entered, cfg, at>> /\ at \in {"save", "toggle"}
      BY <1>4 DEF PutKey, WholeInv
    <2>2. /\ todo' \in Rests /\ Head(todo) \in Keys
          /\ \A k \in Unwritten : k = Head(todo) \/ k \in Unwritten'
          /\ Head(todo) = "token" => \A k \in Text : k = "token" \/ k \notin Unwritten
      BY <2>1, Writing
    <2>3. \A k \in Text : prefs'[k] = IF k = Head(todo) THEN cfg[k] ELSE prefs[k]
      BY <2>1, EmptyValues DEF SettingsInv
    <2>4. entered # {}
      BY <2>1 DEF WholeInv, Running
    <2>5. ASSUME NEW f \in Forms, entered = {f}, at = "toggle"
          PROVE  \A k \in Text : cfg[k] = f[k] /\ prefs'[k] = f[k]
      BY <2>3, <2>5 DEF WholeInv, Running
    <2>6. ASSUME NEW f \in Forms, entered = {f}, at = "save"
          PROVE  /\ cfg = f /\ \A k \in Text : prefs'[k] = f[k] \/ k \in Unwritten'
                 /\ prefs'["token"] = Blank \/ \A k \in Text : prefs'[k] = f[k]
      <3>1. /\ cfg = f /\ \A k \in Text : prefs[k] = f[k] \/ k \in Unwritten
            /\ prefs["token"] = Blank \/ \A k \in Text : prefs[k] = f[k]
        BY <2>6 DEF WholeInv
      <3>2. \A k \in Text : prefs'[k] = f[k] \/ k \in Unwritten'
        BY <2>2, <2>3, <3>1
      <3>3. CASE Head(todo) = "token"
        <4>1. \A k \in Text : prefs'[k] = f[k]
          BY <2>2, <2>3, <3>1, <3>3
        <4> QED
          BY <3>1, <3>2, <4>1
      <3>4. CASE Head(todo) # "token"
        <4>1. prefs'["token"] = prefs["token"]
          BY <2>3, <3>4, EmptyValues
        <4>2. (\A k \in Text : prefs[k] = f[k]) => \A k \in Text : prefs'[k] = f[k]
          BY <2>3, <3>1
        <4> QED
          BY <3>1, <3>2, <4>1, <4>2
      <3> QED
        BY <3>3, <3>4
    <2> QED
      BY <2>1, <2>2, <2>4, <2>5, <2>6 DEF WholeInv, Running
  <1>5. CASE Saved
    <2>1. /\ todo = <<>> /\ UNCHANGED <<prefs, entered, cfg, todo>>
          /\ \/ at = "toggle" /\ at' = "loop"
             \/ at = "save" /\ at' = "restart"
      BY <1>5 DEF Saved, flash
    <2> QED
      BY <2>1 DEF WholeInv, Running
  <1>6. CASE ClearConfig
    <2>1. /\ at' = "erase" /\ entered' = entered \cup {Empty} /\ prefs' = prefs
      BY <1>6 DEF ClearConfig
    <2>2. ASSUME NEW f \in Forms, entered' = {f}
          PROVE  prefs["token"] = Blank
      <3>1. f = Empty /\ (entered = {} \/ entered = {f})
        BY <2>1, <2>2
      <3> QED
        BY <3>1, EmptyValues DEF WholeInv
    <2> QED
      BY <2>1, <2>2 DEF WholeInv, Running
  <1>7. CASE EraseKey
    <2>1. /\ UNCHANGED <<entered, cfg, at, todo>> /\ at = "erase"
      BY <1>7 DEF EraseKey
    <2>2. PICK k \in Keys : prefs' = [prefs EXCEPT ![k] = Empty[k]]
      BY <1>7 DEF EraseKey
    <2>3. \A j \in Text : prefs'[j] = Blank \/ prefs'[j] = prefs[j]
      BY <2>2, EmptyValues DEF SettingsInv
    <2>4. ASSUME NEW f \in Forms, entered = {f}
          PROVE  prefs'["token"] = Blank
      <3>1. f = Empty
        BY <2>1, <2>4 DEF WholeInv
      <3> QED
        BY <2>3, <2>4, <3>1, EmptyValues DEF WholeInv
    <2> QED
      BY <2>1, <2>3, <2>4 DEF WholeInv, Running
  <1>8. CASE Erased
    BY <1>8, EmptyValues DEF Erased, WholeInv, Running
  <1>9. CASE ToggleBrightness
    <2>1. /\ at = "loop" /\ at' = "toggle" /\ todo' = SaveOrder
          /\ cfg' = [cfg EXCEPT !["bright"] = Toggled(@)] /\ UNCHANGED <<prefs, entered>>
      BY <1>9 DEF ToggleBrightness, flash
    <2>2. \A k \in Text : cfg'[k] = cfg[k]
      BY <2>1, EmptyValues DEF SettingsInv
    <2>3. todo' \in Rests
      BY <2>1 DEF Rests
    <2> QED
      BY <2>1, <2>2, <2>3 DEF WholeInv, Running
  <1>10. CASE ConnectWiFi \/ FetchState \/ FetchDetailState \/ Poll \/ ButtonBShort \/ ChangeScreen
    <2>1. /\ UNCHANGED <<prefs, entered, cfg, todo>>
          /\ at \in Running /\ at # "toggle" /\ at' \in {"portal", "connect", "fetch", "detail", "loop"}
      BY <1>10 DEF ConnectWiFi, FetchState, FetchDetailState, Poll, ButtonBShort, ChangeScreen, Running, flash
    <2> QED
      BY <2>1 DEF WholeInv, Running
  <1>11. CASE UNCHANGED <<prefs, entered, cfg, at, todo>>
    BY <1>11 DEF WholeInv, Unwritten
  <1> QED
    BY <1>1, <1>2, <1>3, <1>4, <1>5, <1>6, <1>7, <1>8, <1>9, <1>10, <1>11
       DEF Next, Outside, vars, flash

\* For any forms: with one form entered since the settings were last empty, and
\* power losses anywhere in its saving, the device connects with exactly what
\* was entered or else opens the portal (saveConfig, loadConfig, setup).
THEOREM Whole == Spec => []EnteredWhole
  <1>1. Init => WholeInv
    BY EmptyValues DEF Init, WholeInv, Running
  <1>2. WholeInv => EnteredWhole
    BY DEF WholeInv, EnteredWhole, Running
  <1> QED
    BY <1>1, <1>2, InitSettings, NextSettings, NextWhole, PTL DEF Spec
=============================================================================
