---------------------------- MODULE ButtonsProofs ---------------------------
(***************************************************************************)
(* What the loop makes of the buttons, for every long press, poll interval *)
(* and longest fetch: nothing here depends on their values, or on how they *)
(* compare.                                                                *)
(***************************************************************************)
EXTENDS Buttons, TLAPS

USE ButtonsAssumption

\* The lengths the properties speak of.
LEMMA Lengths ==
  /\ Long \in Nat /\ Poll \in Nat /\ MaxFetch \in Nat \ {0}
  /\ Blind \in Nat /\ Blind = Long + 4 + 2 * MaxFetch
  /\ HoldCap \in Nat /\ HoldCap = Long + 2 * Blind + 1
  /\ PollCap \in Nat /\ PollCap = Poll + Blind + 1
  BY DEF Blind, HoldCap, PollCap

\* An age one tick later.
LEMMA OlderAge ==
  ASSUME NEW cap \in Nat, NEW age \in 0 .. cap
  PROVE  /\ Older(age, cap) \in 0 .. cap
         /\ Older(age, cap) <= age + 1
         /\ age < cap => Older(age, cap) = age + 1
         /\ age = cap => Older(age, cap) = cap
  BY DEF Older

ButtonRecord == [previous : BOOLEAN, pressedAt : 0 .. Long + 1, longHandled : BOOLEAN]

\* What the loop makes of a reading: a new press starts afresh.
LEMMA NoticedForms ==
  ASSUME TypeOK, NEW b \in Both
  PROVE  /\ Noticed(b) \in ButtonRecord
         /\ Noticed(b).previous = button[b].previous
         /\ Down(b) /\ ~button[b].previous
              => Noticed(b).pressedAt = 0 /\ ~Noticed(b).longHandled
         /\ ~(Down(b) /\ ~button[b].previous) => Noticed(b) = button[b]
         /\ hold[b] \in 0 .. HoldCap /\ hold[b] \in Nat
  <1>1. button[b] \in ButtonRecord
    BY DEF TypeOK, ButtonRecord
  <1>2. 0 \in 0 .. Long + 1
    BY Lengths
  <1>3. CASE Down(b) /\ ~button[b].previous
    <2>1. Noticed(b) = [button[b] EXCEPT !.pressedAt = 0, !.longHandled = FALSE]
      BY <1>3 DEF Noticed
    <2>2. /\ Noticed(b) \in ButtonRecord
          /\ Noticed(b).previous = button[b].previous
          /\ Noticed(b).pressedAt = 0 /\ Noticed(b).longHandled = FALSE
      BY <1>1, <1>2, <2>1 DEF ButtonRecord
    <2>3. hold[b] \in 0 .. HoldCap /\ hold[b] \in Nat
      BY Lengths DEF TypeOK
    <2> QED
      BY <1>3, <2>2, <2>3
  <1>4. CASE ~(Down(b) /\ ~button[b].previous)
    BY <1>1, <1>4, Lengths DEF TypeOK, Noticed
  <1> QED
    BY <1>3, <1>4

\* The outcome of a reading, without the CASE of its action.
LEMMA Reading ==
  ASSUME TypeOK, NEW b \in Both, PollButton(b)
  PROVE  /\ button' \in [Both -> ButtonRecord]
         /\ (button'[b].previous <=> Down(b))
         /\ button'[b].pressedAt = Noticed(b).pressedAt
         /\ (button'[b].longHandled <=> Noticed(b).longHandled \/ LongDue(b))
         /\ \A o \in Both : o # b =>
              /\ button'[o] = button[o]
              /\ answered'[o] = answered[o] /\ pending'[o] = pending[o]
         /\ answered' \in [Both -> BOOLEAN] /\ pending' \in [Both -> BOOLEAN]
         /\ (answered'[b] <=> answered[b] \/ LongDue(b))
         /\ (pending'[b] <=> pending[b] /\ act' = Nothing)
         /\ act' \in {[button |-> b, kind |-> "long"], [button |-> b, kind |-> "short"], Nothing}
         /\ act' = [button |-> b, kind |-> "long"] => LongDue(b)
         /\ act' = [button |-> b, kind |-> "short"] => ShortDue(b)
         /\ act' = Nothing => ~LongDue(b) /\ ~ShortDue(b)
         /\ UNCHANGED <<start, hold, clean>>
  <1>1. /\ button' = [button EXCEPT ![b] = [Noticed(b) EXCEPT
                        !.previous = Down(b), !.longHandled = @ \/ LongDue(b)]]
        /\ answered' = [answered EXCEPT ![b] = @ \/ LongDue(b)]
        /\ pending' = [pending EXCEPT ![b] = @ /\ act' = Nothing]
        /\ UNCHANGED <<start, hold, clean>>
    BY DEF PollButton
  <1>2. LongDue(b) \in BOOLEAN /\ ShortDue(b) \in BOOLEAN /\ Down(b) \in BOOLEAN
    BY DEF LongDue, ShortDue, Down
  <1>3. act' = CASE LongDue(b)  -> [button |-> b, kind |-> "long"]
                 [] ShortDue(b) -> [button |-> b, kind |-> "short"]
                 [] OTHER       -> Nothing
    BY DEF PollButton
  <1>4. ~(LongDue(b) /\ ShortDue(b))
    BY DEF LongDue, ShortDue
  <1>5. /\ LongDue(b) => act' = [button |-> b, kind |-> "long"]
        /\ ShortDue(b) => act' = [button |-> b, kind |-> "short"]
        /\ ~LongDue(b) /\ ~ShortDue(b) => act' = Nothing
    BY <1>3, <1>4
  <1>6. /\ [button |-> b, kind |-> "long"] # Nothing
        /\ [button |-> b, kind |-> "short"] # Nothing
        /\ [button |-> b, kind |-> "long"] # [button |-> b, kind |-> "short"]
    BY DEF Nothing, Both, A, B
  <1>7. Noticed(b) \in ButtonRecord
    BY NoticedForms
  <1>8. /\ [Noticed(b) EXCEPT !.previous = Down(b), !.longHandled = @ \/ LongDue(b)] \in ButtonRecord
        /\ button' \in [Both -> ButtonRecord]
        /\ button'[b] = [Noticed(b) EXCEPT !.previous = Down(b), !.longHandled = @ \/ LongDue(b)]
        /\ \A o \in Both : o # b => button'[o] = button[o]
    BY <1>1, <1>2, <1>7 DEF TypeOK, ButtonRecord
  <1>9. /\ answered' \in [Both -> BOOLEAN] /\ pending' \in [Both -> BOOLEAN]
        /\ answered'[b] = (answered[b] \/ LongDue(b))
        /\ pending'[b] = (pending[b] /\ act' = Nothing)
        /\ \A o \in Both : o # b => answered'[o] = answered[o] /\ pending'[o] = pending[o]
    BY <1>1, <1>2 DEF TypeOK
  <1>10. /\ button'[b].previous = Down(b)
         /\ button'[b].pressedAt = Noticed(b).pressedAt
         /\ button'[b].longHandled = (Noticed(b).longHandled \/ LongDue(b))
    BY <1>7, <1>8 DEF ButtonRecord
  <1> QED
    BY <1>1, <1>5, <1>6, <1>8, <1>9, <1>10

\* A tick, for one button: its press goes on, begins, or is over.
LEMMA TickForms ==
  ASSUME TypeOK, Tick
  PROVE  /\ blocked \in Nat \ {0} /\ blocked' = blocked - 1 /\ pc' = pc /\ act' = act
         /\ start' = Older(start, Long + 1) /\ lastPoll' = Older(lastPoll, PollCap)
         /\ button' \in [Both -> ButtonRecord]
         /\ hold' \in [Both -> 0 .. HoldCap]
         /\ clean' \in [Both -> BOOLEAN] /\ answered' \in [Both -> BOOLEAN]
         /\ pending' \in [Both -> BOOLEAN]
         /\ \A b \in Both :
              /\ button'[b].previous = button[b].previous
              /\ button'[b].longHandled = button[b].longHandled
              /\ button'[b].pressedAt = Older(button[b].pressedAt, Long + 1)
              /\ \/ hold'[b] = 0 /\ clean'[b] = clean[b] /\ answered'[b] = answered[b]
                    /\ pending'[b] = pending[b]
                 \/ /\ hold[b] = 0 /\ hold'[b] = 1 /\ (clean'[b] <=> ~button[b].previous)
                    /\ ~answered'[b] /\ pending'[b]
                 \/ /\ hold[b] > 0 /\ hold'[b] = Older(hold[b], HoldCap)
                    /\ clean'[b] = clean[b] /\ answered'[b] = answered[b]
                    /\ pending'[b] = pending[b]
  <1>1. PICK down \in SUBSET Both :
          LET begun == {b \in down : hold[b] = 0}
          IN  /\ hold' = [b \in Both |-> IF b \in down THEN Older(hold[b], HoldCap) ELSE 0]
              /\ clean' = [b \in Both |-> IF b \in begun THEN ~button[b].previous ELSE clean[b]]
              /\ answered' = [b \in Both |-> answered[b] /\ b \notin begun]
              /\ pending' = [b \in Both |-> pending[b] \/ b \in begun]
    BY DEF Tick
  <1>2. \A b \in Both : hold[b] \in 0 .. HoldCap /\ button[b] \in ButtonRecord
                        /\ clean[b] \in BOOLEAN /\ answered[b] \in BOOLEAN /\ pending[b] \in BOOLEAN
    BY DEF TypeOK, ButtonRecord
  <1>3. \A b \in Both : /\ Older(hold[b], HoldCap) \in 0 .. HoldCap
                        /\ hold[b] = 0 => Older(hold[b], HoldCap) = 1
    BY <1>2, OlderAge, Lengths
  <1>4. button' = [b \in Both |-> [button[b] EXCEPT !.pressedAt = Older(@, Long + 1)]]
    BY DEF Tick
  <1>5. \A b \in Both : Older(button[b].pressedAt, Long + 1) \in 0 .. Long + 1
    <2>1. Long + 1 \in Nat
      BY Lengths
    <2>2. \A b \in Both : button[b].pressedAt \in 0 .. Long + 1
      BY <1>2 DEF ButtonRecord
    <2>3. QED
      BY <2>1, <2>2, OlderAge
  <1>6. /\ button' \in [Both -> ButtonRecord]
        /\ \A b \in Both :
              /\ button'[b].previous = button[b].previous
              /\ button'[b].longHandled = button[b].longHandled
              /\ button'[b].pressedAt = Older(button[b].pressedAt, Long + 1)
    BY <1>2, <1>4, <1>5 DEF ButtonRecord
  <1>7. /\ hold' \in [Both -> 0 .. HoldCap]
        /\ clean' \in [Both -> BOOLEAN] /\ answered' \in [Both -> BOOLEAN]
        /\ pending' \in [Both -> BOOLEAN]
    <2>1. 0 \in 0 .. HoldCap
      BY Lengths
    <2>2. hold' \in [Both -> 0 .. HoldCap]
      BY <1>1, <1>3, <2>1
    <2>3. \A b \in Both : (~button[b].previous) \in BOOLEAN
      BY <1>2 DEF ButtonRecord
    <2>4. clean' \in [Both -> BOOLEAN]
      BY <1>1, <1>2, <2>3
    <2>5. /\ answered' \in [Both -> BOOLEAN]
          /\ pending' \in [Both -> BOOLEAN]
      BY <1>1
    <2> QED
      BY <2>2, <2>4, <2>5
  <1>8. ASSUME NEW b \in Both
        PROVE  \/ hold'[b] = 0 /\ clean'[b] = clean[b] /\ answered'[b] = answered[b]
                  /\ pending'[b] = pending[b]
               \/ /\ hold[b] = 0 /\ hold'[b] = 1 /\ (clean'[b] <=> ~button[b].previous)
                  /\ ~answered'[b] /\ pending'[b]
               \/ /\ hold[b] > 0 /\ hold'[b] = Older(hold[b], HoldCap)
                  /\ clean'[b] = clean[b] /\ answered'[b] = answered[b]
                  /\ pending'[b] = pending[b]
    <2>1. CASE b \notin down
      BY <1>1, <1>2, <2>1
    <2>2. CASE b \in down /\ hold[b] = 0
      BY <1>1, <1>2, <1>3, <2>2
    <2>3. CASE b \in down /\ hold[b] # 0
      BY <1>1, <1>2, <2>3
    <2> QED
      BY <2>1, <2>2, <2>3
  <1>9. /\ blocked \in Nat \ {0} /\ blocked' = blocked - 1 /\ pc' = pc /\ act' = act
        /\ start' = Older(start, Long + 1) /\ lastPoll' = Older(lastPoll, PollCap)
    BY Lengths DEF Tick, TypeOK
  <1> QED
    BY <1>6, <1>7, <1>8, <1>9

-----------------------------------------------------------------------------
(***************************************************************************)
(* The type invariant.                                                     *)
(***************************************************************************)
\* setup leaves both buttons released.
LEMMA InitType == Init => TypeOK
  BY Lengths DEF Init, TypeOK, Released, Both, A, B

\* Where a reading leads, and how long its action blocks the loop.
LEMMA AfterReading ==
  ASSUME TypeOK, NEW b \in Both, PollButton(b), NEW p, NEW n \in ActionTimes(act'), Goto(p, n)
  PROVE  /\ blocked = 0 /\ pc' = p /\ blocked' = n
         /\ blocked' \in 0 .. MaxFetch
         /\ b = A => blocked' <= 1
  <1>1. act' \in {[button |-> b, kind |-> "long"], [button |-> b, kind |-> "short"], Nothing}
    BY Reading
  <1>2. CASE act' = Nothing
    <2>1. act' # [button |-> B, kind |-> "short"]
      BY <1>2 DEF Nothing, B
    <2>2. n \in {0}
      BY <1>2, <2>1 DEF ActionTimes
    <2> QED
      BY <2>2, Lengths DEF Goto
  <1>3. CASE act' = [button |-> b, kind |-> "short"] /\ b = B
    <2>1. act' # Nothing
      BY <1>3 DEF Nothing, B
    <2>2. n \in {0} \cup FetchTimes
      BY <1>3, <2>1 DEF ActionTimes
    <2> QED
      BY <1>3, <2>2, Lengths DEF FetchTimes, Goto, A, B
  <1>4. CASE act' # Nothing /\ act' # [button |-> B, kind |-> "short"]
    <2>1. n \in {1}
      BY <1>4 DEF ActionTimes
    <2> QED
      BY <2>1, Lengths DEF Goto
  <1>5. b = B => act' # [button |-> A, kind |-> "short"]
    BY <1>1 DEF Nothing, A, B
  <1> QED
    BY <1>1, <1>2, <1>3, <1>4 DEF Both

\* Every step keeps the types: one case per action.
LEMMA NextType == TypeOK /\ [Next]_vars => TypeOK'
  <1> SUFFICES ASSUME TypeOK, [Next]_vars PROVE TypeOK'
      OBVIOUS
  <1>1. CASE Tick
    <2> /\ Long + 1 \in Nat /\ PollCap \in Nat /\ MaxFetch \in Nat
        /\ start \in 0 .. Long + 1 /\ lastPoll \in 0 .. PollCap
        /\ blocked \in 0 .. MaxFetch \cup {1}
      BY Lengths DEF TypeOK
    <2>1. /\ Older(start, Long + 1) \in 0 .. Long + 1
          /\ Older(lastPoll, PollCap) \in 0 .. PollCap
      BY OlderAge
    <2>2. blocked - 1 \in 0 .. MaxFetch \cup {1}
      <3>1. blocked \in Nat \ {0}
        BY <1>1, TickForms
      <3> QED
        BY <3>1
    <2> QED
      BY <1>1, <2>1, <2>2, TickForms DEF TypeOK, ButtonRecord
  <1>2. CASE HandleButtons
    <2>1. /\ pc' \in {"chord", "reset", A} /\ blocked' \in {0, 1}
          /\ start' \in 0 .. Long + 1 /\ act' = Nothing
          /\ UNCHANGED <<button, lastPoll, hold, history>>
      BY <1>2, Lengths DEF HandleButtons, Goto, TypeOK
    <2> QED
      BY <2>1, Lengths DEF TypeOK, history
  <1>3. ASSUME NEW b \in Both, PollButton(b), NEW p \in {B, "poll"},
               NEW n \in ActionTimes(act'), Goto(p, n), UNCHANGED lastPoll
        PROVE  TypeOK'
    <2>1. act' \in Acts \cup {Nothing}
      BY <1>3, Reading DEF Acts
    <2> QED
      BY <1>3, <2>1, Reading, AfterReading DEF TypeOK, ButtonRecord
  <1>4. CASE PollButtonA
    BY <1>3, <1>4 DEF PollButtonA, Both
  <1>5. CASE PollButtonB
    BY <1>3, <1>5 DEF PollButtonB, Both
  <1>6. CASE PollState
    <2>1. /\ pc' = "wait" /\ blocked' \in 0 .. MaxFetch /\ lastPoll' \in {0, lastPoll}
          /\ act' = Nothing /\ UNCHANGED <<button, start, hold, history>>
      BY <1>6, Lengths DEF PollState, Goto, FetchTimes
    <2> QED
      BY <2>1, Lengths DEF TypeOK, history
  <1>7. CASE Delay
    BY <1>7 DEF Delay, Goto, TypeOK, history
  <1>8. CASE Restart
    BY <1>8, Lengths DEF Restart, TypeOK, Released, Both, A, B
  <1>9. CASE UNCHANGED vars
    BY <1>9 DEF TypeOK, vars, program, history
  <1> QED
    BY <1>1, <1>2, <1>4, <1>5, <1>6, <1>7, <1>8, <1>9 DEF Next

\* Whatever the fingers do and however long fetches take, the loop's state is
\* well-formed (ButtonState, handleButtons, loop).
THEOREM TypeCorrect == Spec => []TypeOK
  BY InitType, NextType, PTL DEF Spec

-----------------------------------------------------------------------------
(***************************************************************************)
(* One action for a press.  A press that the loop has not noticed, and one *)
(* it has noticed and not acted on, are later than the last action.        *)
(***************************************************************************)
OnceInv ==
  \A b \in Both : /\ Down(b) /\ ~button[b].previous => pending[b]
                  /\ button[b].previous /\ ~button[b].longHandled => pending[b]

\* Only a reading acts, and it leaves nothing to act on.
LEMMA NextOnce == TypeOK /\ OnceInv /\ [Next]_vars => OnceInv'
  <1> SUFFICES ASSUME TypeOK, OnceInv, [Next]_vars, NEW o \in Both
               PROVE  /\ Down(o)' /\ ~button'[o].previous => pending'[o]
                      /\ button'[o].previous /\ ~button'[o].longHandled => pending'[o]
      BY DEF OnceInv
  <1>1. CASE Tick
    <2>1. /\ button'[o].previous = button[o].previous
          /\ button'[o].longHandled = button[o].longHandled
          /\ \/ hold'[o] = 0 /\ pending'[o] = pending[o]
             \/ pending'[o]
             \/ hold[o] > 0 /\ pending'[o] = pending[o]
      BY <1>1, TickForms
    <2> QED
      BY <2>1 DEF OnceInv, Down
  <1>2. ASSUME NEW b \in Both, PollButton(b)
        PROVE  /\ Down(o)' /\ ~button'[o].previous => pending'[o]
               /\ button'[o].previous /\ ~button'[o].longHandled => pending'[o]
    <2>1. CASE o # b
      BY <1>2, <2>1, Reading DEF OnceInv, Down
    <2>2. CASE o = b
      <3>1. /\ button'[o].previous <=> Down(o)
            /\ Down(o)' <=> Down(o)
            /\ button'[o].longHandled <=> Noticed(o).longHandled \/ LongDue(o)
            /\ pending'[o] <=> pending[o] /\ act' = Nothing
            /\ act' = Nothing \/ LongDue(o) \/ ShortDue(o)
        BY <1>2, <2>2, Reading DEF Down
      <3>2. Down(o) /\ ~Noticed(o).longHandled => pending[o]
        BY NoticedForms DEF OnceInv
      <3> QED
        BY <3>1, <3>2 DEF ShortDue
    <2> QED
      BY <2>1, <2>2
  <1>3. CASE UNCHANGED <<button, hold, pending>>
    BY <1>3 DEF OnceInv, Down
  <1>4. CASE Restart
    BY <1>4 DEF Restart, Down, Released
  <1> QED
    BY <1>1, <1>2, <1>3, <1>4
       DEF Next, HandleButtons, PollButtonA, PollButtonB, PollState, Delay, vars, program,
           history, Both

\* For any lengths, and however a press, its release and the next press fall
\* between two readings: the loop acts on a press at most once (pollButton).
THEOREM ActsOnce == Spec => OneActionPerPress
  <1>1. Init => OnceInv
    BY DEF Init, OnceInv, Released, Down
  <1>2. TypeOK /\ OnceInv /\ [Next]_vars
          => [\A b \in Both : act'.button = b /\ act' # act => pending[b]]_vars
    <2> SUFFICES ASSUME TypeOK, OnceInv, Next, NEW o \in Both, act'.button = o, act' # act
                 PROVE  pending[o]
      OBVIOUS
    <2>1. act' # Nothing
      BY DEF Nothing, Both, A, B
    <2>2. ASSUME NEW b \in Both, PollButton(b) PROVE pending[o]
      <3>1. act'.button = b
        BY <2>1, <2>2, Reading
      <3>2. LongDue(o) \/ ShortDue(o)
        BY <2>1, <2>2, <3>1, Reading
      <3> QED
        BY <3>2, NoticedForms DEF OnceInv, LongDue, ShortDue
    <2> QED
      BY <2>1, <2>2
         DEF Next, Tick, HandleButtons, PollButtonA, PollButtonB, PollState, Delay, Restart, Both
  <1> QED
    BY <1>1, <1>2, TypeCorrect, NextOnce, PTL DEF Spec, OneActionPerPress

-----------------------------------------------------------------------------
(***************************************************************************)
(* What counts as long.  The loop's count of a press that it saw begin is  *)
(* never ahead of the finger, and neither is its count of both buttons.    *)
(***************************************************************************)
LongInv ==
  \A b \in Both : clean[b] /\ Down(b) /\ button[b].previous => hold[b] > button[b].pressedAt

\* A finger's time, and a count behind it, one tick later.
LEMMA StaysBehind ==
  ASSUME NEW h \in 1 .. HoldCap, NEW n \in 0 .. Long + 1, h > n
  PROVE  Older(h, HoldCap) > Older(n, Long + 1)
  BY Lengths DEF Older

\* A new press is counted from its first reading.
LEMMA NextLong == TypeOK /\ LongInv /\ [Next]_vars => LongInv'
  <1> SUFFICES ASSUME TypeOK, LongInv, [Next]_vars, NEW o \in Both,
                      clean'[o], Down(o)', button'[o].previous
               PROVE  hold'[o] > button'[o].pressedAt
      BY DEF LongInv
  <1>1. CASE Tick
    <2>1. /\ button[o].previous
          /\ button'[o].pressedAt = Older(button[o].pressedAt, Long + 1)
          /\ hold[o] > 0 /\ hold'[o] = Older(hold[o], HoldCap) /\ clean[o]
      BY <1>1, TickForms DEF Down
    <2>2. /\ hold[o] \in 1 .. HoldCap /\ button[o].pressedAt \in 0 .. Long + 1
          /\ hold[o] > button[o].pressedAt
      BY <2>1, Lengths DEF TypeOK, LongInv, Down
    <2> QED
      BY <2>1, <2>2, StaysBehind
  <1>2. ASSUME NEW b \in Both, PollButton(b) PROVE hold'[o] > button'[o].pressedAt
    <2>1. CASE o # b
      BY <1>2, <2>1, Reading DEF LongInv, Down
    <2>2. CASE o = b
      <3>1. /\ button'[o].pressedAt = Noticed(o).pressedAt /\ Down(o) /\ clean[o]
            /\ hold'[o] = hold[o]
        BY <1>2, <2>2, Reading DEF Down
      <3> QED
        BY <3>1, NoticedForms DEF LongInv, Down
    <2> QED
      BY <2>1, <2>2
  <1>3. CASE UNCHANGED <<button, hold, clean>>
    BY <1>3 DEF LongInv, Down
  <1>4. CASE Restart
    BY <1>4 DEF Restart, Down, Released
  <1> QED
    BY <1>1, <1>2, <1>3, <1>4
       DEF Next, HandleButtons, PollButtonA, PollButtonB, PollState, Delay, vars, program,
           history, Both

\* For any lengths: a press that the loop saw begin has lasted longer than
\* BUTTON_LONG_MS when it is answered as a long one (pollButton).
THEOREM LongIsLong == Spec => LongMeansLong
  <1>1. Init => LongInv
    BY DEF Init, LongInv, Released
  <1>2. TypeOK /\ LongInv /\ [Next]_vars
          => [\A b \in Both : act' = [button |-> b, kind |-> "long"] /\ act' # act /\ clean[b]
                             => hold[b] > Long]_vars
    <2> SUFFICES ASSUME TypeOK, LongInv, Next, NEW o \in Both,
                        act' = [button |-> o, kind |-> "long"], act' # act, clean[o]
                 PROVE  hold[o] > Long
      OBVIOUS
    <2>1. act' # Nothing
      BY DEF Nothing, Both, A, B
    <2>2. ASSUME NEW b \in Both, PollButton(b) PROVE hold[o] > Long
      <3>1. o = b /\ LongDue(b)
        BY <2>1, <2>2, Reading
      <3>2. Down(o) /\ Noticed(o).pressedAt > Long
        BY <3>1 DEF LongDue
      <3>3. button[o].previous /\ Noticed(o) = button[o]
        BY <3>2, NoticedForms, Lengths
      <3>4. hold[o] > button[o].pressedAt /\ button[o].pressedAt > Long
        BY <3>2, <3>3 DEF LongInv
      <3>5. button[o].pressedAt \in Nat /\ hold[o] \in Nat
        BY Lengths, NoticedForms DEF TypeOK
      <3> QED
        BY <3>4, <3>5, Lengths
    <2> QED
      BY <2>1, <2>2
         DEF Next, Tick, HandleButtons, PollButtonA, PollButtonB, PollState, Delay, Restart, Both
  <1> QED
    BY <1>1, <1>2, TypeCorrect, NextLong, PTL DEF Spec, LongMeansLong

ChordInv ==
  /\ pc = "chord" => \A b \in Both : /\ blocked # 0 => blocked = 1 /\ Down(b) /\ start <= Long
                                     /\ Down(b) => hold[b] > start
  /\ pc = "reset" => blocked = 0 /\ \A b \in Both : hold[b] > Long

\* Between two readings of both buttons a single tick goes by.
LEMMA NextChord == TypeOK /\ ChordInv /\ [Next]_vars => ChordInv'
  <1> SUFFICES ASSUME TypeOK, ChordInv, [Next]_vars PROVE ChordInv'
      OBVIOUS
  <1>1. CASE Tick
    <2>1. /\ pc' = pc /\ blocked \in Nat \ {0} /\ blocked' = blocked - 1
          /\ start' = Older(start, Long + 1)
      BY <1>1, TickForms
    <2>2. pc # "reset"
      BY <2>1 DEF ChordInv
    <2>3. ASSUME pc = "chord", NEW b \in Both, Down(b)' PROVE hold'[b] > start'
      <3>1. blocked = 1 /\ hold[b] > 0 /\ hold[b] > start
        BY <2>1, <2>3 DEF ChordInv, Down
      <3>2. hold'[b] = Older(hold[b], HoldCap)
        BY <1>1, <2>3, <3>1, TickForms DEF Down
      <3>3. hold[b] \in 1 .. HoldCap /\ start \in 0 .. Long + 1
        BY <3>1, Lengths DEF TypeOK
      <3> QED
        BY <2>1, <3>1, <3>2, <3>3, StaysBehind
    <2>4. pc = "chord" => blocked' = 0
      BY <2>1 DEF ChordInv, Both
    <2> QED
      BY <2>1, <2>2, <2>3, <2>4 DEF ChordInv
  <1>2. CASE HandleButtons
    <2>1. CASE ~(Down(A) /\ Down(B))
      BY <1>2, <2>1 DEF HandleButtons, Goto, ChordInv, A
    <2>2. CASE Down(A) /\ Down(B)
      <3>1. /\ start' = (IF pc = "top" THEN 0 ELSE start)
            /\ IF start' > Long THEN pc' = "reset" /\ blocked' = 0
                                ELSE pc' = "chord" /\ blocked' = 1
            /\ hold' = hold /\ pc \in {"top", "chord"}
        BY <1>2, <2>2 DEF HandleButtons, Goto
      <3>2. /\ start \in Nat /\ start' \in Nat
            /\ \A b \in Both : Down(b) /\ hold[b] \in Nat /\ hold[b] > 0
        BY <2>2, <3>1, Lengths DEF TypeOK, Both, Down
      <3>3. \A b \in Both : hold[b] > start'
        BY <3>1, <3>2 DEF ChordInv
      <3> QED
        BY <3>1, <3>2, <3>3, Lengths DEF ChordInv, Down
    <2> QED
      BY <2>1, <2>2
  <1>3. CASE PollButtonA \/ PollButtonB \/ PollState \/ Delay \/ Restart
    BY <1>3 DEF PollButtonA, PollButtonB, PollState, Delay, Restart, Goto, ChordInv, B
  <1>4. CASE UNCHANGED vars
    BY <1>4 DEF ChordInv, Down, vars, program
  <1> QED
    BY <1>1, <1>2, <1>3, <1>4 DEF Next

\* For any lengths: the configuration is cleared only when both buttons have
\* been down all along for longer than BUTTON_LONG_MS (handleButtons).
THEOREM Deliberate == Spec => []ResetIsDeliberate
  <1>1. Init => ChordInv
    BY DEF Init, ChordInv
  <1>2. ChordInv => ResetIsDeliberate
    BY DEF ChordInv, ResetIsDeliberate
  <1> QED
    BY <1>1, <1>2, TypeCorrect, NextChord, PTL DEF Spec

-----------------------------------------------------------------------------
(***************************************************************************)
(* How long the loop is blind.  At every point of the loop, a bound on the *)
(* time since a button was read, and on the time since the loop was at its *)
(* poll: a tick adds one to each, and no other step takes from it, until   *)
(* that point comes round again.                                           *)
(***************************************************************************)
\* Since button b was read, by where the loop is.  What follows reading A is the
\* drawing of a screen, and what follows reading B can be a fetch; then come the
\* poll, a delay and, if it was given up, the count of both buttons.
SinceRead(b) ==
  LET first == IF b = A THEN 1 ELSE 0
  IN  CASE pc = "poll"  -> first + MaxFetch - blocked
        [] pc = "wait"  -> first + 2 * MaxFetch - blocked
        [] pc = "top"   -> first + 2 * MaxFetch + 1 - blocked
        [] pc = "chord" -> first + 2 * MaxFetch + 1 + start
        [] pc = A       -> first + 2 * MaxFetch + 2 + Long
        [] pc = B       -> IF b = A THEN 1 - blocked ELSE 2 * MaxFetch + 3 + Long - blocked
        [] OTHER        -> 0

\* Since the loop last found that it need not poll, or began to.
SincePoll ==
  CASE pc = "wait"  -> MaxFetch - blocked
    [] pc = "top"   -> MaxFetch + 1 - blocked
    [] pc = "chord" -> MaxFetch + 1 + start
    [] pc = A       -> MaxFetch + 2 + Long
    [] pc = B       -> MaxFetch + 3 + Long - blocked
    [] pc = "poll"  -> 2 * MaxFetch + 3 + Long - blocked
    [] OTHER        -> 0

\* A call never blocks for longer than the bounds allow it.
BlockInv ==
  /\ blocked \in Nat /\ blocked <= MaxFetch
  /\ pc \in {"top", "chord", B} => blocked <= 1
  /\ pc \in {A, "reset"} => blocked = 0
  /\ pc = "chord" /\ blocked # 0 => start <= Long

LEMMA Bounds ==
  ASSUME TypeOK, BlockInv
  PROVE  /\ \A b \in Both : SinceRead(b) \in 0 .. Blind
         /\ SincePoll \in 0 .. Blind
  <1>1. /\ start \in 0 .. Long + 1
        /\ pc \in {"top", "chord", A, B, "poll", "wait", "reset"}
    BY DEF TypeOK
  <1>2. SincePoll \in 0 .. Blind
    BY <1>1, Lengths DEF BlockInv, SincePoll, A, B
  <1>3. SinceRead(A) \in 0 .. Blind
    BY <1>1, Lengths DEF BlockInv, SinceRead, A, B
  <1>4. SinceRead(B) \in 0 .. Blind
    BY <1>1, Lengths DEF BlockInv, SinceRead, A, B
  <1> QED
    BY <1>2, <1>3, <1>4 DEF Both

\* The same of the next state.
Bounded == SincePoll \in Nat /\ \A b \in Both : SinceRead(b) \in Nat

LEMMA BoundsLater == TypeOK' /\ BlockInv' => Bounded'
  <1>1. TypeOK /\ BlockInv => Bounded
    BY Bounds, Lengths DEF Bounded
  <1> QED
    BY <1>1, PTL

\* One lemma per step: what it does to the bounds.
LEMMA TickBounds ==
  ASSUME TypeOK, BlockInv, Tick
  PROVE  /\ BlockInv'
         /\ \A b \in Both : SinceRead(b)' >= SinceRead(b) + 1
         /\ SincePoll' >= SincePoll + 1
  <1>1. /\ blocked \in Nat \ {0} /\ blocked' = blocked - 1 /\ pc' = pc
        /\ start' = Older(start, Long + 1)
    BY TickForms
  <1>2. /\ start \in 0 .. Long + 1 /\ pc \in {"top", "chord", A, B, "poll", "wait", "reset"}
    BY DEF TypeOK
  <1>3. pc = "chord" => start' = start + 1
    BY <1>1, <1>2, Lengths DEF BlockInv, Older
  <1>4. BlockInv'
    BY <1>1, <1>2, Lengths DEF BlockInv
  <1>5. SincePoll' >= SincePoll + 1
    BY <1>1, <1>2, <1>3, Lengths DEF BlockInv, SincePoll, A, B
  <1>6. SinceRead(A)' >= SinceRead(A) + 1
    BY <1>1, <1>2, <1>3, Lengths DEF BlockInv, SinceRead, A, B
  <1>7. SinceRead(B)' >= SinceRead(B) + 1
    BY <1>1, <1>2, <1>3, Lengths DEF BlockInv, SinceRead, A, B
  <1> QED
    BY <1>4, <1>5, <1>6, <1>7 DEF Both

LEMMA HandleBounds ==
  ASSUME TypeOK, BlockInv, HandleButtons
  PROVE  /\ BlockInv'
         /\ pc' # "reset" => /\ \A b \in Both : SinceRead(b)' >= SinceRead(b)
                             /\ SincePoll' >= SincePoll
  <1>1. /\ pc \in {"top", "chord"} /\ blocked = 0 /\ start \in 0 .. Long + 1
        /\ \/ pc' = "reset" /\ blocked' = 0
           \/ pc' = A /\ blocked' = 0
           \/ pc' = "chord" /\ blocked' = 1 /\ start' <= Long
        /\ start' \in {0, start} /\ (pc = "chord" => start' = start)
    BY DEF HandleButtons, Goto, TypeOK
  <1>2. start' \in Nat
    BY <1>1, Lengths
  <1>3. BlockInv'
    BY <1>1, <1>2, Lengths DEF BlockInv, A, B
  <1>4. pc' # "reset" => SincePoll' >= SincePoll
    BY <1>1, <1>2, Lengths DEF SincePoll, A, B
  <1>5. pc' # "reset" => SinceRead(A)' >= SinceRead(A)
    BY <1>1, <1>2, Lengths DEF SinceRead, A, B
  <1>6. pc' # "reset" => SinceRead(B)' >= SinceRead(B)
    BY <1>1, <1>2, Lengths DEF SinceRead, A, B
  <1> QED
    BY <1>3, <1>4, <1>5, <1>6 DEF Both

LEMMA ReadingBounds ==
  ASSUME TypeOK, BlockInv, PollButtonA \/ PollButtonB
  PROVE  /\ BlockInv' /\ pc' # "reset" /\ lastPoll' = lastPoll
         /\ SincePoll' >= SincePoll
         /\ \E b, o \in Both : /\ b # o /\ PollButton(b)
                               /\ SinceRead(o)' >= SinceRead(o)
                               /\ SinceRead(b)' \in Nat
  <1>1. CASE PollButtonA
    <2>1. /\ PollButton(A) /\ pc = A /\ pc' = B /\ blocked = 0 /\ blocked' \in {0, 1}
          /\ lastPoll' = lastPoll
      BY <1>1, AfterReading DEF PollButtonA, Both
    <2>2. /\ BlockInv' /\ SincePoll' >= SincePoll
      BY <2>1, Lengths DEF BlockInv, SincePoll, A, B
    <2>3. /\ SinceRead(B)' >= SinceRead(B) /\ SinceRead(A)' \in Nat
      BY <2>1, Lengths DEF SinceRead, A, B
    <2> QED
      BY <2>1, <2>2, <2>3 DEF Both, A, B
  <1>2. CASE PollButtonB
    <2>1. /\ PollButton(B) /\ pc = B /\ pc' = "poll" /\ blocked = 0
          /\ blocked' \in 0 .. MaxFetch /\ lastPoll' = lastPoll
      BY <1>2, AfterReading DEF PollButtonB, Both
    <2>2. /\ BlockInv' /\ SincePoll' >= SincePoll
      BY <2>1, Lengths DEF BlockInv, SincePoll, A, B
    <2>3. /\ SinceRead(A)' >= SinceRead(A) /\ SinceRead(B)' \in Nat
      BY <2>1, Lengths DEF SinceRead, A, B
    <2> QED
      BY <2>1, <2>2, <2>3 DEF Both, A, B
  <1> QED
    BY <1>1, <1>2

LEMMA PollBounds ==
  ASSUME TypeOK, BlockInv, PollState \/ Delay
  PROVE  /\ BlockInv' /\ pc' # "reset"
         /\ \A b \in Both : SinceRead(b)' >= SinceRead(b)
         /\ SincePoll' \in Nat
         /\ Delay => SincePoll' >= SincePoll
  <1>1. /\ blocked = 0 /\ blocked' \in 0 .. MaxFetch
        /\ \/ pc = "poll" /\ pc' = "wait" /\ ~Delay
           \/ pc = "wait" /\ pc' = "top" /\ blocked' = 1
    BY Lengths DEF PollState, Delay, Goto, FetchTimes
  <1>2. BlockInv' /\ SincePoll' \in Nat /\ (Delay => SincePoll' >= SincePoll)
    BY <1>1, Lengths DEF BlockInv, SincePoll, A, B
  <1>3. SinceRead(A)' >= SinceRead(A)
    BY <1>1, Lengths DEF SinceRead, A, B
  <1>4. SinceRead(B)' >= SinceRead(B)
    BY <1>1, Lengths DEF SinceRead, A, B
  <1> QED
    BY <1>1, <1>2, <1>3, <1>4 DEF Both, A, B

LEMMA RestartBounds ==
  ASSUME BlockInv, Restart
  PROVE  BlockInv'
  BY Lengths DEF Restart, BlockInv

-----------------------------------------------------------------------------
\* The device polls: its count since the last poll is what it may be at each
\* point of the loop.
PollInv == BlockInv /\ (pc # "reset" => lastPoll <= Poll + SincePoll)

LEMMA NextPoll == TypeOK /\ PollInv /\ [Next]_vars => PollInv'
  <1> SUFFICES ASSUME TypeOK, PollInv, [Next]_vars PROVE PollInv'
      OBVIOUS
  <1>1. /\ BlockInv /\ lastPoll \in Nat /\ lastPoll \in 0 .. PollCap
        /\ Poll \in Nat /\ PollCap \in Nat /\ SincePoll \in Nat
    BY Bounds, Lengths DEF PollInv, TypeOK
  <1> DEFINE now == SincePoll
             next == SincePoll'
  <1>2. ASSUME BlockInv', next \in Nat, pc # "reset", NEW d \in {0, 1}, next >= now + d,
               lastPoll' \in Nat, lastPoll' <= lastPoll + d
        PROVE  PollInv'
    <2>1. lastPoll <= Poll + now /\ now \in Nat
      BY <1>1, <1>2 DEF PollInv
    <2> HIDE DEF now, next
    <2>2. lastPoll' <= Poll + next
      BY <1>1, <1>2, <2>1
    <2> QED
      BY <1>2, <2>2 DEF PollInv, next
  <1>3. ASSUME BlockInv', next \in Nat, lastPoll' \in Nat, lastPoll' <= Poll
        PROVE  PollInv'
    <2> HIDE DEF now, next
    <2>1. lastPoll' <= Poll + next
      BY <1>1, <1>3
    <2> QED
      BY <1>3, <2>1 DEF PollInv, next
  <1>4. ASSUME next \in Nat, next >= now PROVE next >= now + 0
    <2>1. now \in Nat
      BY <1>1
    <2> HIDE DEF now, next
    <2> QED
      BY <1>4, <2>1
  <1>5. CASE Tick
    <2>1. BlockInv' /\ next >= now + 1 /\ next \in Nat /\ pc # "reset"
      BY <1>1, <1>5, TickBounds, TickForms, NextType, BoundsLater DEF Bounded, BlockInv
    <2>2. lastPoll' <= lastPoll + 1 /\ lastPoll' \in Nat
      BY <1>1, <1>5, OlderAge DEF Tick
    <2> QED
      BY <1>2, <2>1, <2>2
  <1>6. CASE HandleButtons
    <2>1. BlockInv' /\ lastPoll' = lastPoll /\ pc # "reset"
      BY <1>1, <1>6, HandleBounds DEF HandleButtons
    <2>2. CASE pc' = "reset"
      BY <2>1, <2>2 DEF PollInv
    <2>3. CASE pc' # "reset"
      <3>1. next \in Nat /\ next >= now
        BY <1>1, <1>6, <2>1, <2>3, HandleBounds, NextType, BoundsLater DEF Bounded
      <3> QED
        BY <1>1, <1>2, <1>4, <2>1, <3>1
    <2> QED
      BY <2>2, <2>3
  <1>7. CASE PollButtonA \/ PollButtonB
    <2>1. BlockInv' /\ lastPoll' = lastPoll /\ next >= now /\ pc # "reset"
      BY <1>1, <1>7, ReadingBounds DEF PollButtonA, PollButtonB, A, B
    <2>2. next \in Nat
      BY <1>7, <2>1, NextType, BoundsLater DEF Bounded
    <2> QED
      BY <1>1, <1>2, <1>4, <2>1, <2>2
  <1>8. CASE PollState
    <2>1. BlockInv' /\ next \in Nat
      BY <1>1, <1>8, PollBounds
    <2>2. lastPoll' = 0 \/ (lastPoll <= Poll /\ lastPoll' = lastPoll)
      BY <1>1, <1>8 DEF PollState
    <2> QED
      BY <1>1, <1>3, <2>1, <2>2
  <1>9. CASE Delay
    <2>1. BlockInv' /\ next \in Nat /\ next >= now /\ lastPoll' = lastPoll /\ pc # "reset"
      BY <1>1, <1>9, PollBounds DEF Delay
    <2> QED
      BY <1>1, <1>2, <1>4, <2>1
  <1>10. CASE Restart
    <2>1. BlockInv' /\ lastPoll' = 0 /\ pc' = "top" /\ blocked' = 0
      BY <1>1, <1>10, RestartBounds DEF Restart, BlockInv
    <2>2. next \in Nat
      BY <2>1, Lengths DEF SincePoll, A, B
    <2> QED
      BY <1>1, <1>3, <2>1, <2>2
  <1>11. CASE UNCHANGED vars
    BY <1>11 DEF PollInv, BlockInv, SincePoll, vars, program
  <1> QED
    BY <1>5, <1>6, <1>7, <1>8, <1>9, <1>10, <1>11 DEF Next

\* For any lengths, and whatever is done to the buttons: the device polls again
\* within POLL_MS and one of the loop's blind times (loop, handleButtons).
THEOREM Polls == Spec => []KeepsPolling
  <1>1. Init => PollInv
    BY Lengths DEF Init, PollInv, BlockInv, SincePoll, A, B
  <1>2. TypeOK /\ PollInv => KeepsPolling
    BY Bounds, Lengths DEF PollInv, KeepsPolling, TypeOK
  <1> QED
    BY <1>1, <1>2, TypeCorrect, NextPoll, PTL DEF Spec

-----------------------------------------------------------------------------
(***************************************************************************)
(* A long press is answered.  A press that is not noticed yet is no older  *)
(* than the last reading; one that is noticed was no older than a blind    *)
(* time when it was, and goes on being counted; and at its first reading   *)
(* with more than BUTTON_LONG_MS on the count it is answered.              *)
(***************************************************************************)
Waiting(b) ==
  /\ Down(b) /\ ~button[b].previous => hold[b] <= SinceRead(b)
  /\ clean[b] /\ Down(b) /\ button[b].previous /\ ~answered[b] =>
       /\ ~button[b].longHandled
       /\ hold[b] <= Long + Blind + SinceRead(b)
       /\ button[b].pressedAt <= Long => hold[b] <= button[b].pressedAt + Blind

WaitInv == BlockInv /\ (pc # "reset" => \A b \in Both : Waiting(b))

\* What a button's state is made of.
LEMMA ButtonParts ==
  ASSUME TypeOK, NEW b \in Both
  PROVE  /\ hold[b] \in Nat /\ hold[b] \in 0 .. HoldCap
         /\ button[b].pressedAt \in Nat /\ button[b].pressedAt \in 0 .. Long + 1
         /\ Long + 1 \in Nat /\ Long \in Nat /\ Blind \in Nat /\ HoldCap \in Nat
  BY Lengths DEF TypeOK

\* Between its readings a button's press only grows older.
LEMMA TickWaits ==
  ASSUME TypeOK, BlockInv, NEW b \in Both, Waiting(b), Tick
  PROVE  Waiting(b)'
  <1> DEFINE now == SinceRead(b)
             next == SinceRead(b)'
  <1>1. now \in Nat /\ next \in Nat /\ next >= now + 1
    <2>1. BlockInv' /\ next >= now + 1
      BY TickBounds
    <2>2. TypeOK'
      BY NextType DEF Next
    <2> QED
      BY <2>1, <2>2, Bounds, BoundsLater, Lengths DEF Bounded
  <1>2. /\ Down(b) /\ ~button[b].previous => hold[b] <= now
        /\ clean[b] /\ Down(b) /\ button[b].previous /\ ~answered[b] =>
             /\ ~button[b].longHandled
             /\ hold[b] <= Long + Blind + now
             /\ button[b].pressedAt <= Long => hold[b] <= button[b].pressedAt + Blind
    BY DEF Waiting
  <1>3. /\ button'[b].previous <=> button[b].previous
        /\ button'[b].longHandled <=> button[b].longHandled
        /\ button'[b].pressedAt = Older(button[b].pressedAt, Long + 1)
        /\ \/ hold'[b] = 0 /\ clean'[b] = clean[b] /\ answered'[b] = answered[b]
           \/ hold'[b] = 1 /\ (clean'[b] <=> ~button[b].previous)
           \/ /\ hold[b] > 0 /\ hold'[b] = Older(hold[b], HoldCap)
              /\ clean'[b] = clean[b] /\ answered'[b] = answered[b]
    BY TickForms
  <1> HIDE DEF now, next
  <1>4. /\ Older(hold[b], HoldCap) \in Nat /\ Older(hold[b], HoldCap) <= hold[b] + 1
        /\ button'[b].pressedAt <= Long => button'[b].pressedAt = button[b].pressedAt + 1
        /\ hold[b] \in Nat /\ button[b].pressedAt \in Nat /\ Long \in Nat /\ Blind \in Nat
    <2>1. /\ Older(hold[b], HoldCap) \in 0 .. HoldCap
          /\ Older(hold[b], HoldCap) <= hold[b] + 1
      BY OlderAge, ButtonParts
    <2>2. /\ button[b].pressedAt < Long + 1
               => Older(button[b].pressedAt, Long + 1) = button[b].pressedAt + 1
          /\ button[b].pressedAt = Long + 1
               => Older(button[b].pressedAt, Long + 1) = Long + 1
      BY OlderAge, ButtonParts
    <2> QED
      BY <1>3, <2>1, <2>2, ButtonParts
  <1>5. Down(b)' /\ ~button'[b].previous => hold'[b] <= next
    BY <1>1, <1>2, <1>3, <1>4 DEF Down
  <1>6. ASSUME clean'[b], Down(b)', button'[b].previous, ~answered'[b]
        PROVE  /\ ~button'[b].longHandled
               /\ hold'[b] <= Long + Blind + next
               /\ button'[b].pressedAt <= Long => hold'[b] <= button'[b].pressedAt + Blind
    <2>1. /\ clean[b] /\ Down(b) /\ button[b].previous /\ ~answered[b]
          /\ hold'[b] = Older(hold[b], HoldCap)
      <3>1. hold'[b] # 0 /\ button[b].previous
        BY <1>3, <1>6 DEF Down
      <3>2. /\ hold[b] > 0 /\ hold'[b] = Older(hold[b], HoldCap)
            /\ clean'[b] = clean[b] /\ answered'[b] = answered[b]
        BY <1>3, <1>6, <3>1
      <3> QED
        BY <1>6, <3>1, <3>2 DEF Down
    <2> QED
      BY <1>1, <1>2, <1>3, <1>4, <2>1
  <1> QED
    BY <1>5, <1>6 DEF Waiting, next

\* A step that does not read the button leaves its press as it is.
LEMMA UnreadWaits ==
  ASSUME TypeOK, BlockInv, BlockInv', TypeOK', NEW b \in Both, Waiting(b),
         UNCHANGED <<hold[b], button[b], clean[b], answered[b]>>,
         SinceRead(b)' >= SinceRead(b)
  PROVE  Waiting(b)'
  <1> DEFINE now == SinceRead(b)
             next == SinceRead(b)'
  <1>1. now \in Nat /\ next \in Nat /\ next >= now
    BY Bounds, BoundsLater, Lengths DEF Bounded
  <1>2. /\ Down(b) /\ ~button[b].previous => hold[b] <= now
        /\ clean[b] /\ Down(b) /\ button[b].previous /\ ~answered[b] =>
             /\ ~button[b].longHandled
             /\ hold[b] <= Long + Blind + now
             /\ button[b].pressedAt <= Long => hold[b] <= button[b].pressedAt + Blind
    BY DEF Waiting
  <1> HIDE DEF now, next
  <1>3. /\ Down(b) /\ ~button[b].previous => hold[b] <= next
        /\ clean[b] /\ Down(b) /\ button[b].previous /\ ~answered[b] =>
             /\ ~button[b].longHandled
             /\ hold[b] <= Long + Blind + next
             /\ button[b].pressedAt <= Long => hold[b] <= button[b].pressedAt + Blind
    BY <1>1, <1>2, ButtonParts
  <1> QED
    BY <1>3 DEF Waiting, Down, next

\* A reading notices a press, goes on counting it, or answers it.
LEMMA ReadWaits ==
  ASSUME TypeOK, BlockInv, NEW b \in Both, Waiting(b), PollButton(b), SinceRead(b)' \in Nat
  PROVE  Waiting(b)'
  <1> DEFINE now == SinceRead(b)
             next == SinceRead(b)'
  <1>1. /\ now \in 0 .. Blind /\ next \in Nat
        /\ Down(b) /\ ~button[b].previous => hold[b] <= now
        /\ clean[b] /\ Down(b) /\ button[b].previous /\ ~answered[b] =>
             /\ ~button[b].longHandled
             /\ button[b].pressedAt <= Long => hold[b] <= button[b].pressedAt + Blind
    BY Bounds DEF Waiting
  <1>2. /\ button'[b].previous <=> Down(b)
        /\ button'[b].pressedAt = Noticed(b).pressedAt
        /\ button'[b].longHandled <=> Noticed(b).longHandled \/ LongDue(b)
        /\ answered'[b] <=> answered[b] \/ LongDue(b)
        /\ hold' = hold /\ clean' = clean
    BY Reading
  <1> HIDE DEF now, next
  <1>3. ~(Down(b)' /\ ~button'[b].previous)
    BY <1>2 DEF Down
  <1>4. ASSUME clean'[b], Down(b)', button'[b].previous, ~answered'[b]
        PROVE  /\ ~button'[b].longHandled
               /\ hold'[b] <= Long + Blind + next
               /\ button'[b].pressedAt <= Long => hold'[b] <= button'[b].pressedAt + Blind
    <2>1. clean[b] /\ Down(b) /\ ~answered[b] /\ ~LongDue(b)
      BY <1>2, <1>4
    <2>2. ~Noticed(b).longHandled
      BY <1>1, <2>1, NoticedForms
    <2>3. ~(Noticed(b).pressedAt > Long)
      BY <2>1, <2>2 DEF LongDue
    <2>4. hold[b] <= Noticed(b).pressedAt + Blind /\ Noticed(b).pressedAt \in Nat
      <3>1. CASE button[b].previous
        BY <1>1, <2>1, <2>3, <3>1, NoticedForms, ButtonParts
      <3>2. CASE ~button[b].previous
        BY <1>1, <2>1, <3>2, NoticedForms, ButtonParts
      <3> QED
        BY <3>1, <3>2
    <2> QED
      BY <1>1, <1>2, <2>1, <2>2, <2>3, <2>4, ButtonParts
  <1> QED
    BY <1>3, <1>4 DEF Waiting, next

\* One case per action.
LEMMA NextWait == TypeOK /\ WaitInv /\ [Next]_vars => WaitInv'
  <1> SUFFICES ASSUME TypeOK, WaitInv, [Next]_vars PROVE WaitInv'
      OBVIOUS
  <1>1. BlockInv /\ TypeOK'
    BY NextType DEF WaitInv
  <1>2. CASE Tick
    <2>1. pc # "reset"
      BY <1>1, <1>2 DEF BlockInv, Tick
    <2> QED
      BY <1>1, <1>2, <2>1, TickBounds, TickWaits DEF WaitInv
  <1>3. CASE HandleButtons \/ PollState \/ Delay
    <2>1. /\ BlockInv' /\ pc # "reset"
          /\ pc' # "reset" => \A b \in Both : SinceRead(b)' >= SinceRead(b)
          /\ \A b \in Both : UNCHANGED <<hold[b], button[b], clean[b], answered[b]>>
      BY <1>1, <1>3, HandleBounds, PollBounds DEF HandleButtons, PollState, Delay, history
    <2> QED
      BY <1>1, <2>1, UnreadWaits DEF WaitInv
  <1>4. CASE PollButtonA \/ PollButtonB
    <2>1. BlockInv' /\ pc # "reset"
      BY <1>1, <1>4, ReadingBounds DEF PollButtonA, PollButtonB, A, B
    <2>2. PICK b, o \in Both : /\ b # o /\ PollButton(b)
                               /\ SinceRead(o)' >= SinceRead(o)
                               /\ SinceRead(b)' \in Nat
      BY <1>1, <1>4, ReadingBounds
    <2>3. Waiting(b)'
      BY <1>1, <2>1, <2>2, ReadWaits DEF WaitInv
    <2>4. UNCHANGED <<hold[o], button[o], clean[o], answered[o]>>
      BY <2>2, Reading
    <2>5. Waiting(o)'
      BY <1>1, <2>1, <2>2, <2>4, UnreadWaits DEF WaitInv
    <2>6. \A d \in Both : d = b \/ d = o
      BY <2>2 DEF Both
    <2> QED
      BY <2>1, <2>3, <2>5, <2>6 DEF WaitInv
  <1>5. CASE Restart
    <2>1. \A b \in Both : Waiting(b)'
      BY <1>5 DEF Restart, Waiting, Down, Released
    <2> QED
      BY <1>1, <1>5, <2>1, RestartBounds DEF WaitInv
  <1>6. CASE UNCHANGED vars
    BY <1>6 DEF WaitInv, BlockInv, Waiting, SinceRead, Down, vars, program, history
  <1> QED
    BY <1>2, <1>3, <1>4, <1>5, <1>6 DEF Next

\* For any lengths: a long press that the loop saw begin is answered within a
\* long press and twice the time the loop is blind, whatever the other button
\* does; unless both are held and the device is reset (pollButton).
THEOREM Answered == Spec => []LongPressAnswered
  <1>1. Init => WaitInv
    BY Lengths DEF Init, WaitInv, BlockInv, Waiting, Down
  <1>2. TypeOK /\ WaitInv => LongPressAnswered
    <2> SUFFICES ASSUME TypeOK, WaitInv, pc # "reset", NEW b \in Both,
                        clean[b], hold[b] > Long + 2 * Blind, ~answered[b]
                 PROVE  FALSE
      BY DEF LongPressAnswered
    <2> DEFINE now == SinceRead(b)
    <2>1. /\ now \in 0 .. Blind
          /\ Down(b) /\ ~button[b].previous => hold[b] <= now
          /\ Down(b) /\ button[b].previous => hold[b] <= Long + Blind + now
      BY Bounds DEF WaitInv, Waiting
    <2> HIDE DEF now
    <2>2. Down(b)
      BY ButtonParts DEF Down
    <2> QED
      BY <2>1, <2>2, ButtonParts
  <1> QED
    BY <1>1, <1>2, TypeCorrect, NextWait, PTL DEF Spec
=============================================================================
