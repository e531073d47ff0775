------------------------------ MODULE Buttons ------------------------------
(***************************************************************************)
(* The two buttons of the display and the loop that reads them.            *)
(*                                                                         *)
(* Nothing interrupts the loop: it reads a button when it comes round, and *)
(* is blind while it draws, fetches or counts how long both buttons are    *)
(* down.  What a press means is worked out from the readings before and    *)
(* after a gap of any of these lengths.  Firmware leaves presses to        *)
(* chance; this module is about which presses the loop makes out.          *)
(*                                                                         *)
(* Time is counted in ticks, the shortest wait of the loop; a contact      *)
(* stays as it is for a tick.  A moment the program remembers is kept as   *)
(* its age, no further than where comparisons stop telling ages apart:     *)
(* an unsigned difference of two readings of millis does not see the wrap. *)
(***************************************************************************)
EXTENDS Integers

CONSTANTS
  Long,      \* BUTTON_LONG_MS
  Poll,      \* POLL_MS
  MaxFetch   \* the longest fetchState, bounded by the timeouts of its requests

ASSUME ButtonsAssumption ==
  /\ Long \in Nat
  /\ Poll \in Nat
  /\ MaxFetch \in Nat \ {0}

VARIABLES
  pc,        \* where the loop is
  blocked,   \* ticks until the call the loop is in returns
  button,    \* buttonA and buttonB
  start,     \* age of handleButtons' start
  lastPoll,  \* age of lastPoll
  hold,      \* the fingers: for how many ticks a button has been down, 0 if up
  clean,     \* history: the loop had seen the button up when this press began
  answered,  \* history: this press has had its long action
  pending,   \* history: a press has begun since the last action of the button
  act        \* history: the action of the loop's last step

program == <<pc, blocked, button, start, lastPoll>>
history == <<clean, answered, pending>>
vars == <<program, hold, history, act>>

A == "A"
B == "B"
Both == {A, B}

Nothing == [button |-> "none", kind |-> "none"]
Acts == [button : Both, kind : {"short", "long"}]

-----------------------------------------------------------------------------
(***************************************************************************)
(* How long the loop is blind between two readings of a button: a delay, a *)
(* count of both buttons given up at the last moment, a screen drawn for   *)
(* either button, a refresh asked for, and the poll that has come due.     *)
(***************************************************************************)
Blind == 1 + (Long + 2) + 1 + 2 * MaxFetch

HoldCap == Long + 2 * Blind + 1

PollCap == Poll + Blind + 1

\* millis moves on by one.
Older(age, cap) == IF age < cap THEN age + 1 ELSE age

-----------------------------------------------------------------------------
(***************************************************************************)
(* ButtonState and setup: the first fetch is over, no button has been read. *)
(***************************************************************************)
Released == [previous |-> FALSE, pressedAt |-> 0, longHandled |-> FALSE]

Init ==
  /\ pc = "top"
  /\ blocked = 0
  /\ button = [b \in Both |-> Released]
  /\ start = 0
  /\ lastPoll = 0
  /\ hold = [b \in Both |-> 0]
  /\ clean = [b \in Both |-> TRUE]
  /\ answered = [b \in Both |-> FALSE]
  /\ pending = [b \in Both |-> FALSE]
  /\ act = Nothing

-----------------------------------------------------------------------------
(***************************************************************************)
(* A tick of a delay, a drawing or a fetch, and what the fingers do then.  *)
(***************************************************************************)
Tick ==
  /\ blocked > 0
  /\ blocked' = blocked - 1
  /\ start' = Older(start, Long + 1)
  /\ lastPoll' = Older(lastPoll, PollCap)
  /\ button' = [b \in Both |-> [button[b] EXCEPT !.pressedAt = Older(@, Long + 1)]]
  /\ \E down \in SUBSET Both :
       LET begun == {b \in down : hold[b] = 0}
       IN  /\ hold' = [b \in Both |-> IF b \in down THEN Older(hold[b], HoldCap) ELSE 0]
           /\ clean' = [b \in Both |-> IF b \in begun THEN ~button[b].previous ELSE clean[b]]
           /\ answered' = [b \in Both |-> answered[b] /\ b \notin begun]
           /\ pending' = [b \in Both |-> pending[b] \/ b \in begun]
  /\ UNCHANGED <<pc, act>>

Down(b) == hold[b] > 0

\* The next step of the loop, after a call that blocks for n ticks.
Goto(p, n) ==
  /\ blocked = 0
  /\ pc' = p
  /\ blocked' = n

\* Slip: the count of both buttons starts over in every turn of its loop.
HandleButtonsRestarting ==
  /\ pc \in {"top", "chord"}
  /\ IF Down(A) /\ Down(B)
     THEN /\ start' = 0
          /\ IF pc = "chord" /\ start > Long THEN Goto("reset", 0) ELSE Goto("chord", 1)
     ELSE UNCHANGED start /\ Goto(A, 0)
  /\ act' = Nothing
  /\ UNCHANGED <<button, lastPoll, hold, history>>

\* Slip: one button is enough to go on counting.
HandleButtonsEither ==
  /\ pc \in {"top", "chord"}
  /\ IF (Down(A) /\ Down(B)) \/ (pc = "chord" /\ \E b \in Both : Down(b))
     THEN /\ start' = IF pc = "top" THEN 0 ELSE start
          /\ IF start' > Long THEN Goto("reset", 0) ELSE Goto("chord", 1)
     ELSE UNCHANGED start /\ Goto(A, 0)
  /\ act' = Nothing
  /\ UNCHANGED <<button, lastPoll, hold, history>>

\* handleButtons: as long as both are down nothing else is done.
HandleButtons ==
  /\ pc \in {"top", "chord"}
  /\ IF Down(A) /\ Down(B)
     THEN /\ start' = IF pc = "top" THEN 0 ELSE start
          /\ IF start' > Long THEN Goto("reset", 0) ELSE Goto("chord", 1)
     ELSE UNCHANGED start /\ Goto(A, 0)
  /\ act' = Nothing
  /\ UNCHANGED <<button, lastPoll, hold, history>>

-----------------------------------------------------------------------------
(***************************************************************************)
(* pollButton.                                                             *)
(***************************************************************************)
\* Slip: a new press keeps the moment of the one before.
NoticedLate(b) ==
  IF Down(b) /\ ~button[b].previous
  THEN [button[b] EXCEPT !.longHandled = FALSE]
  ELSE button[b]

\* Slip: a new press counts as handled when the one before was.
NoticedHandled(b) ==
  IF Down(b) /\ ~button[b].previous
  THEN [button[b] EXCEPT !.pressedAt = 0]
  ELSE button[b]

\* A press is new when the reading before found the button up.
Noticed(b) ==
  IF Down(b) /\ ~button[b].previous
  THEN [button[b] EXCEPT !.pressedAt = 0, !.longHandled = FALSE]
  ELSE button[b]

LongDue(b) == Down(b) /\ ~Noticed(b).longHandled /\ Noticed(b).pressedAt > Long

\* Slip: the release after a long press counts as a short one.
ShortDueAlways(b) == ~Down(b) /\ button[b].previous

ShortDue(b) == ~Down(b) /\ button[b].previous /\ ~button[b].longHandled

\* The new state of the button, and what its action did.
PollButton(b) ==
  /\ button' = [button EXCEPT ![b] = [Noticed(b) EXCEPT
                  !.previous = Down(b), !.longHandled = @ \/ LongDue(b)]]
  /\ act' = CASE LongDue(b)  -> [button |-> b, kind |-> "long"]
              [] ShortDue(b) -> [button |-> b, kind |-> "short"]
              [] OTHER       -> Nothing
  /\ answered' = [answered EXCEPT ![b] = @ \/ LongDue(b)]
  /\ pending' = [pending EXCEPT ![b] = @ /\ act' = Nothing]
  /\ UNCHANGED <<start, hold, clean>>

\* fetchState, then render: a number of ticks.
FetchTimes == 1 .. MaxFetch

\* How long an action takes.  Button A: nextScreen and prevScreen draw.  Button
\* B: the next entry of the screen's list is drawn, if there is one, or the
\* device's screen refreshes; the brightness is saved.
ActionTimes(action) ==
  CASE action = Nothing -> {0}
    [] action = [button |-> B, kind |-> "short"] -> {0} \cup FetchTimes
    [] OTHER -> {1}

PollButtonA ==
  /\ pc = A
  /\ PollButton(A)
  /\ \E n \in ActionTimes(act') : Goto(B, n)
  /\ UNCHANGED lastPoll

PollButtonB ==
  /\ pc = B
  /\ PollButton(B)
  /\ \E n \in ActionTimes(act') : Goto("poll", n)
  /\ UNCHANGED lastPoll

\* The rest of loop: the state is polled when it is due, then delay.
PollState ==
  /\ pc = "poll"
  /\ IF lastPoll > Poll
     THEN lastPoll' = 0 /\ \E n \in FetchTimes : Goto("wait", n)
     ELSE Goto("wait", 0) /\ UNCHANGED lastPoll
  /\ act' = Nothing
  /\ UNCHANGED <<button, start, hold, history>>

Delay ==
  /\ pc = "wait"
  /\ Goto("top", 1)
  /\ act' = Nothing
  /\ UNCHANGED <<button, start, lastPoll, hold, history>>
\* factoryReset ends in a restart, and the bridge's address is gone: the portal
\* is served until somebody fills it in, and setup runs again.
Restart ==
  /\ pc = "reset"
  /\ pc' = "top"
  /\ button' = [b \in Both |-> Released]
  /\ start' = 0
  /\ lastPoll' = 0
  /\ hold' = [b \in Both |-> 0]
  /\ clean' = [b \in Both |-> TRUE]
  /\ answered' = [b \in Both |-> FALSE]
  /\ pending' = [b \in Both |-> FALSE]
  /\ act' = Nothing
  /\ UNCHANGED blocked

Next ==
  \/ Tick
  \/ HandleButtons
  \/ PollButtonA
  \/ PollButtonB
  \/ PollState
  \/ Delay
  \/ Restart

Spec == Init /\ [][Next]_vars

-----------------------------------------------------------------------------
(***************************************************************************)
(* Properties.                                                             *)
(***************************************************************************)
TypeOK ==
  /\ pc \in {"top", "chord", A, B, "poll", "wait", "reset"}
  /\ blocked \in 0 .. MaxFetch \cup {1}
  /\ button \in [Both -> [previous : BOOLEAN, pressedAt : 0 .. Long + 1, longHandled : BOOLEAN]]
  /\ start \in 0 .. Long + 1
  /\ lastPoll \in 0 .. PollCap
  /\ hold \in [Both -> 0 .. HoldCap]
  /\ clean \in [Both -> BOOLEAN]
  /\ answered \in [Both -> BOOLEAN]
  /\ pending \in [Both -> BOOLEAN]
  /\ act \in Acts \cup {Nothing}

(***************************************************************************)
(* A press is acted on once: the loop takes no action for a button unless  *)
(* a finger has come down on it since the button's last action, however    *)
(* the press, its release and the next one fall between two readings.      *)
(***************************************************************************)
OneActionPerPress ==
  [][\A b \in Both : act'.button = b /\ act' # act => pending[b]]_vars

(***************************************************************************)
(* A long action is for a long press: where the loop had seen the button   *)
(* up before the press, the finger has been down for longer than           *)
(* BUTTON_LONG_MS when prevScreen or toggleBrightness is called, whatever  *)
(* presses came before.  (A press that began unseen, while the loop was    *)
(* blind, is taken for a part of the one before.)                          *)
(***************************************************************************)
LongMeansLong ==
  [][\A b \in Both :
       act' = [button |-> b, kind |-> "long"] /\ act' # act /\ clean[b] => hold[b] > Long]_vars

(***************************************************************************)
(* A long press is noticed: where the loop had seen the button up before   *)
(* the press, the action comes within a long press and twice the longest   *)
(* time the loop is blind, whatever the other button does meanwhile;       *)
(* unless both are held and the device is reset.                           *)
(***************************************************************************)
LongPressAnswered ==
  \A b \in Both :
    clean[b] /\ hold[b] > Long + 2 * Blind => answered[b] \/ pc = "reset"

(***************************************************************************)
(* The configuration is cleared only when both buttons have been down all  *)
(* along for longer than BUTTON_LONG_MS.                                   *)
(***************************************************************************)
ResetIsDeliberate ==
  pc = "reset" => \A b \in Both : hold[b] > Long

(***************************************************************************)
(* The state is fetched in time whatever is done to the buttons: nobody    *)
(* who holds or works them can keep the device from polling for longer     *)
(* than POLL_MS and one of the loop's blind times.                         *)
(***************************************************************************)
KeepsPolling ==
  pc # "reset" => lastPoll <= Poll + Blind
=============================================================================
