--------------------------- MODULE CadenceProofs ---------------------------
(* The heartbeats of Autoplayer, alone and with the iterator thread.  First  *)
(* what holds of the cadence for every set of views and screens and for      *)
(* every delay; then that the heartbeats with the thread implement it, and   *)
(* that a decision is based on the results of the simulation, for every      *)
(* number of iterations.                                                     *)
EXTENDS IteratorThread, SequenceTheorems, TLAPS

-----------------------------------------------------------------------------
(* The cadence alone.                                                        *)

(* The flags, kept apart from the numbers for the provers' sake.             *)
FlagsOK == /\ settled \in BOOLEAN /\ isReset \in BOOLEAN
           /\ final \in BOOLEAN /\ needsFinish \in BOOLEAN

Before == {"scrape", "evaluate", "popup", "secondary", "primary"}

(* What the counter knows: unless it was reset, the last stable + 1 views    *)
(* considered are the saved one.  From an input to the end of its cadence    *)
(* this does not hold, but there the reset is due.                           *)
Counted == /\ Len(recent) > stable
           /\ \A i \in 1 .. Len(recent) : i >= Len(recent) - stable => recent[i] = saved

CountInv ==
    /\ seen \in Screens
    /\ recent \in Seq(Views) /\ Len(recent) <= FrameDelay + 1
    /\ stable \in 0 .. FrameDelay
    /\ pc \in Before \cup {"finish"}
    /\ pc \in Before => isReset \/ Counted
    /\ pc = "finish" => isReset \/ needsFinish \/ Counted
    /\ ActsOnStableView

USE DelayAssumption

LEMMA InitCount == Init => CountInv
BY DEF Init, CountInv, Before, ActsOnStableView

(* One more view at the end, and perhaps one less at the front.              *)
LEMMA LastFramesFacts ==
    ASSUME NEW s \in Seq(Views), Len(s) <= FrameDelay + 1, NEW v \in Views
    PROVE  /\ LastFrames(Append(s, v)) \in Seq(Views)
           /\ Len(LastFrames(Append(s, v))) <= FrameDelay + 1
           /\ Len(LastFrames(Append(s, v))) >= 1
           /\ LastFrames(Append(s, v))[Len(LastFrames(Append(s, v)))] = v
           /\ \A n \in 0 .. FrameDelay :
                /\ Len(s) > n
                /\ \A i \in 1 .. Len(s) : i >= Len(s) - n => s[i] = v
                => LET t == LastFrames(Append(s, v)) 
                       m == IF n < FrameDelay THEN n + 1 ELSE n IN
                   /\ Len(t) > m
                   /\ \A i \in 1 .. Len(t) : i >= Len(t) - m => t[i] = v
<1> DEFINE a == Append(s, v)
           t == LastFrames(a)
<1>1. /\ a \in Seq(Views) /\ Len(a) = Len(s) + 1
      /\ \A i \in 1 .. Len(s) : a[i] = s[i]
      /\ a[Len(s) + 1] = v
  BY AppendProperties
<1>2. CASE Len(a) > FrameDelay + 1
  <2>1. /\ t = Tail(a) /\ a # << >>
    BY <1>1, <1>2 DEF LastFrames
  <2>2. /\ t \in Seq(Views) /\ Len(t) = Len(s)
        /\ \A i \in 1 .. Len(s) : t[i] = a[i + 1]
    BY <1>1, <2>1, HeadTailProperties
  <2>3. Len(s) = FrameDelay + 1
    BY <1>1, <1>2
  <2>4. t[Len(t)] = v
    BY <1>1, <2>2, <2>3
  <2>5. ASSUME NEW n \in 0 .. FrameDelay, Len(s) > n,
               \A i \in 1 .. Len(s) : i >= Len(s) - n => s[i] = v,
               NEW i \in 1 .. Len(t),
               i >= Len(t) - (IF n < FrameDelay THEN n + 1 ELSE n)
        PROVE  t[i] = v
    BY <1>1, <2>2, <2>3, <2>4, <2>5
  <2>6. t \in Seq(Views) /\ Len(t) = FrameDelay + 1 /\ t[Len(t)] = v
    BY <2>2, <2>3, <2>4
  <2>7. ASSUME NEW n \in 0 .. FrameDelay, Len(s) > n,
               \A i \in 1 .. Len(s) : i >= Len(s) - n => s[i] = v
        PROVE  LET m == IF n < FrameDelay THEN n + 1 ELSE n IN
               /\ Len(t) > m
               /\ \A i \in 1 .. Len(t) : i >= Len(t) - m => t[i] = v
    <3> HIDE DEF t
    <3> QED BY <2>5, <2>6, <2>7
  <2> QED
    BY <2>6, <2>7
<1>3. CASE ~(Len(a) > FrameDelay + 1)
  <2>1. t = a
    BY <1>3 DEF LastFrames
  <2>2. ASSUME NEW n \in 0 .. FrameDelay, Len(s) > n,
               \A i \in 1 .. Len(s) : i >= Len(s) - n => s[i] = v,
               NEW i \in 1 .. Len(t),
               i >= Len(t) - (IF n < FrameDelay THEN n + 1 ELSE n)
        PROVE  t[i] = v
    BY <1>1, <2>1, <2>2
  <2> QED
    BY <1>1, <1>3, <2>1, <2>2
<1> QED
  BY <1>2, <1>3

(* The frame of this heartbeat is considered.                                *)
LEMMA FrameCounted ==
    ASSUME recent \in Seq(Views), Len(recent) <= FrameDelay + 1,
           stable \in 0 .. FrameDelay, isReset \/ Counted, seen.view \in Views,
           UpdateStableFrames, recent' = LastFrames(Append(recent, seen.view))
    PROVE  /\ recent' \in Seq(Views) /\ Len(recent') <= FrameDelay + 1
           /\ stable' \in 0 .. FrameDelay
           /\ isReset' \/ Counted'
           /\ stable' >= FrameDelay
                => /\ Len(recent') = FrameDelay + 1
                   /\ \A i \in 1 .. Len(recent') : recent'[i] = seen.view
<1> DEFINE t == LastFrames(Append(recent, seen.view))
<1>1. /\ t \in Seq(Views) /\ Len(t) <= FrameDelay + 1 /\ Len(t) >= 1
      /\ t[Len(t)] = seen.view
  BY LastFramesFacts
<1>2. CASE isReset /\ saved' = seen.view /\ stable' = 0 /\ isReset' = FALSE
  <2>1. Counted'
    BY <1>1, <1>2 DEF Counted
  <2> QED
    BY <1>1, <1>2, <2>1 DEF Counted
<1>3. CASE ~isReset /\ saved = seen.view /\ UNCHANGED <<saved, isReset>>
           /\ stable' = IF stable < FrameDelay THEN stable + 1 ELSE stable
  <2>1. Counted
    BY <1>3
  <2>0. /\ Len(recent) > stable
        /\ \A i \in 1 .. Len(recent) : i >= Len(recent) - stable => recent[i] = seen.view
    BY <1>3, <2>1 DEF Counted
  <2> HIDE DEF t
  <2>2. /\ Len(t) > stable'
        /\ \A i \in 1 .. Len(t) : i >= Len(t) - stable' => t[i] = seen.view
    BY <1>3, <2>0, LastFramesFacts DEF t
  <2>3. Counted'
    BY <1>3, <2>2 DEF Counted, t
  <2>4. stable' \in 0 .. FrameDelay
    BY <1>3
  <2>5. stable' >= FrameDelay => Len(t) = FrameDelay + 1
    BY <1>1, <2>2, <2>4
  <2>6. ASSUME stable' >= FrameDelay, NEW i \in 1 .. Len(t)
        PROVE  t[i] = seen.view
    BY <1>1, <2>2, <2>4, <2>5, <2>6
  <2>7. recent' = t
    BY DEF t
  <2> QED
    BY <1>1, <2>3, <2>4, <2>5, <2>6, <2>7
<1>4. CASE ~isReset /\ saved # seen.view /\ stable' = 0 /\ isReset' = TRUE
  BY <1>1, <1>4
<1>5. \/ isReset /\ saved' = seen.view /\ stable' = 0 /\ isReset' = FALSE
      \/ /\ ~isReset /\ saved = seen.view /\ UNCHANGED <<saved, isReset>>
         /\ stable' = IF stable < FrameDelay THEN stable + 1 ELSE stable
      \/ ~isReset /\ saved # seen.view /\ stable' = 0 /\ isReset' = TRUE
  BY DEF UpdateStableFrames
<1> QED
  BY <1>2, <1>3, <1>4, <1>5

LEMMA StepFlags == FlagsOK /\ [Next]_vars => FlagsOK'
<1> SUFFICES ASSUME FlagsOK, [Next]_vars PROVE FlagsOK'
  OBVIOUS
<1> USE DEF FlagsOK
<1>1. CASE Scrape
  BY <1>1 DEF Scrape, counter
<1>2. CASE Evaluate
  <2>1. isReset' \in BOOLEAN
    BY <1>2 DEF Evaluate, CalculateFinalAnswer, UpdateStableFrames
  <2>2. final' \in BOOLEAN
    BY <1>2 DEF Evaluate, CalculateFinalAnswer
  <2> QED
    BY <1>2, <2>1, <2>2 DEF Evaluate, CalculateFinalAnswer
<1>3. CASE ClickPopup
  BY <1>3 DEF ClickPopup, counter
<1>4. CASE NoPopup
  BY <1>4 DEF NoPopup, counter
<1>5. CASE Secondary
  BY <1>5 DEF Secondary, Reset
<1>6. CASE NoSecondary
  BY <1>6 DEF NoSecondary, counter
<1>7. CASE Primary \/ NoPrimary
  BY <1>7 DEF Primary, NoPrimary, counter
<1>8. CASE Finish
  BY <1>8 DEF Finish, Reset, counter
<1>9. CASE Settle \/ UNCHANGED vars
  BY <1>9 DEF Settle, vars, counter
<1> QED
  BY <1>1, <1>2, <1>3, <1>4, <1>5, <1>6, <1>7, <1>8, <1>9 DEF Next, Heartbeat

LEMMA CountStep == CountInv /\ FlagsOK /\ [Next]_vars => CountInv'
<1> SUFFICES ASSUME CountInv, FlagsOK, [Next]_vars PROVE CountInv'
  OBVIOUS
<1> USE DEF CountInv, Before
<1>1. CASE Scrape
  <2>1. seen' \in Screens
    BY <1>1 DEF Scrape
  <2>2. /\ pc = "scrape" /\ pc' = "evaluate"
        /\ UNCHANGED <<saved, stable, isReset, recent>>
    BY <1>1 DEF Scrape, counter
  <2> QED
    BY <2>1, <2>2 DEF Counted, ActsOnStableView
<1>2. CASE Evaluate
  <2>1. /\ pc = "evaluate" /\ pc' = "popup" /\ seen' = seen
        /\ final' => MyTurn /\ stable' >= FrameDelay
    BY <1>2 DEF Evaluate, CalculateFinalAnswer
  <2>2. seen.view \in Views
    BY ScreenAssumption DEF AllScreens
  <2>3. CASE UpdateStableFrames /\ recent' = LastFrames(Append(recent, seen.view))
    <3>1. /\ recent' \in Seq(Views) /\ Len(recent') <= FrameDelay + 1
          /\ stable' \in 0 .. FrameDelay
          /\ isReset' \/ Counted'
          /\ stable' >= FrameDelay
               => /\ Len(recent') = FrameDelay + 1
                  /\ \A i \in 1 .. Len(recent') : recent'[i] = seen.view
      BY <2>1, <2>2, <2>3, FrameCounted
    <3> QED
      BY <2>1, <3>1 DEF ActsOnStableView
  <2>4. CASE UNCHANGED <<saved, stable, isReset, recent>> /\ ~final'
    BY <2>1, <2>4 DEF Counted, ActsOnStableView
  <2>5. PICK working, delay \in BOOLEAN :
          /\ IF MyTurn /\ ~working
             THEN /\ UpdateStableFrames
                  /\ recent' = LastFrames(Append(recent, seen.view))
             ELSE UNCHANGED <<saved, stable, isReset, recent>>
          /\ final' = (MyTurn /\ ~working /\ ~delay /\ stable' >= FrameDelay)
    BY <1>2 DEF Evaluate, CalculateFinalAnswer
  <2>6. CASE MyTurn /\ ~working
    BY <2>3, <2>5, <2>6
  <2>7. CASE ~(MyTurn /\ ~working)
    BY <2>4, <2>5, <2>7
  <2> QED
    BY <2>6, <2>7
<1>3. CASE ClickPopup \/ Primary
  <2>1. CASE ClickPopup
    <3>1. /\ recent' = << >> /\ pc' = "finish" /\ needsFinish' = TRUE
          /\ UNCHANGED <<seen, stable>>
      BY <2>1 DEF ClickPopup, Send, counter
    <3> QED
      BY <3>1, EmptySeq DEF ActsOnStableView
  <2>2. CASE Primary
    <3>1. /\ recent' = << >> /\ pc' = "finish" /\ needsFinish' = TRUE
          /\ UNCHANGED <<seen, stable>>
      BY <2>2 DEF Primary, Send, counter
    <3> QED
      BY <3>1, EmptySeq DEF ActsOnStableView
  <2> QED
    BY <1>3, <2>1, <2>2
<1>4. CASE NoPopup \/ NoSecondary \/ NoPrimary
  <2>1. /\ UNCHANGED <<seen, saved, stable, isReset, final, recent>>
        /\ \/ pc = "popup" /\ pc' = "secondary"
           \/ pc = "secondary" /\ pc' = "primary"
           \/ pc = "primary" /\ pc' = "finish"
    BY <1>4 DEF NoPopup, NoSecondary, NoPrimary, GoOn, counter
  <2>2. isReset' \/ Counted'
    BY <2>1 DEF Counted
  <2> QED
    BY <2>1, <2>2 DEF ActsOnStableView
<1>5. CASE Secondary
  BY <1>5 DEF Secondary, Send, Reset, ActsOnStableView
<1>6. CASE Finish
  <2>1. /\ pc = "finish" /\ pc' = "scrape" /\ UNCHANGED <<seen, recent>>
        /\ \/ needsFinish /\ stable' = 0 /\ isReset' = TRUE
           \/ ~needsFinish /\ UNCHANGED <<saved, stable, isReset>>
    BY <1>6 DEF Finish, Reset, counter
  <2>2. isReset' \/ Counted'
    BY <2>1 DEF Counted
  <2> QED
    BY <2>1, <2>2 DEF ActsOnStableView
<1>7. CASE Settle \/ UNCHANGED vars
  BY <1>7 DEF Settle, vars, counter, Counted, ActsOnStableView
<1> QED
  BY <1>1, <1>2, <1>3, <1>4, <1>5, <1>6, <1>7 DEF Next, Heartbeat

(* For every delay and whatever is seen, an action is only possible after    *)
(* FrameDelay + 1 frames with the view it is meant for, all of them scraped  *)
(* since the last input.                                                     *)
THEOREM StableBeforeActing == Spec => []ActsOnStableView
<1>1. Init => CountInv /\ FlagsOK
  BY InitCount DEF Init, FlagsOK
<1>2. FlagsOK /\ [Next]_vars => FlagsOK'
  BY StepFlags
<1>3. CountInv => ActsOnStableView
  BY DEF CountInv
<1> QED
  BY <1>1, <1>2, <1>3, CountStep, PTL DEF Spec
-----------------------------------------------------------------------------

(* What the counters that go round and the ghost of the input may hold.      *)
RoundInv == /\ beat \in 0 .. HeartbeatsToPause - 1 /\ nextPopup \in 0 .. Popups
            /\ saved \in Views /\ did \in Inputs

(* The pause is never without a heartbeat, whatever the scrape delay is.     *)
LEMMA PauseType == HeartbeatsToPause \in Nat \ {0}
<1>1. 3000 \div ScrapeDelay \in Int
  OBVIOUS
<1> QED
  BY <1>1 DEF HeartbeatsToPause, AtLeastOne

LEMMA PopupAtType ==
    ASSUME nextPopup \in 0 .. Popups, NEW i \in 0 .. Popups - 1
    PROVE  PopupAt(i) \in 0 .. Popups - 1
BY PopupAssumption DEF PopupAt

LEMMA RoundStep == RoundInv /\ CountInv /\ [Next]_vars => RoundInv'
<1> SUFFICES ASSUME RoundInv, CountInv, [Next]_vars PROVE RoundInv'
  OBVIOUS
<1> USE DEF RoundInv
<1>0. /\ Nothing \in Inputs /\ Input("secondary", 0) \in Inputs
      /\ Input("primary", 0) \in Inputs
      /\ \A b \in 0 .. Popups - 1 : Input("popup", b) \in Inputs
  BY PopupAssumption DEF Nothing, Input, Inputs
<1>1. CASE Scrape
  <2>1. (beat + 1) % HeartbeatsToPause \in 0 .. HeartbeatsToPause - 1
    BY PauseType
  <2> QED
    BY <1>0, <1>1, <2>1 DEF Scrape, counter
<1>2. CASE Evaluate
  <2>1. seen.view \in Views
    BY ScreenAssumption DEF CountInv, AllScreens
  <2>2. saved' \in Views
    BY <1>2, <2>1 DEF Evaluate, CalculateFinalAnswer, UpdateStableFrames
  <2> QED
    BY <1>2, <2>2 DEF Evaluate, CalculateFinalAnswer
<1>3. CASE ClickPopup
  <2>1. PICK i \in 0 .. Popups - 1 :
          nextPopup' = PopupAt(i) + 1 /\ did' = Input("popup", PopupAt(i))
    BY <1>3 DEF ClickPopup, Send
  <2>2. PopupAt(i) \in 0 .. Popups - 1
    BY PopupAtType
  <2>3. nextPopup' \in 0 .. Popups
    BY <2>1, <2>2, PopupAssumption
  <2> QED
    BY <1>0, <1>3, <2>1, <2>2, <2>3 DEF ClickPopup, counter
<1>4. CASE NoPopup
  <2>1. nextPopup' \in 0 .. Popups
    BY <1>4, PopupAssumption DEF NoPopup
  <2> QED
    BY <1>4, <2>1 DEF NoPopup, GoOn, counter
<1>5. CASE Secondary
  BY <1>0, <1>5 DEF Secondary, Send, Reset
<1>6. CASE NoSecondary \/ NoPrimary
  BY <1>6 DEF NoSecondary, NoPrimary, GoOn, counter
<1>7. CASE Primary
  BY <1>0, <1>7 DEF Primary, Send, counter
<1>8. CASE Finish
  BY <1>8 DEF Finish, Reset, counter
<1>9. CASE Settle \/ UNCHANGED vars
  BY <1>9 DEF Settle, vars, counter
<1> QED
  BY <1>1, <1>2, <1>3, <1>4, <1>5, <1>6, <1>7, <1>8, <1>9 DEF Next, Heartbeat

(* The type invariant, for every delay, every number of popup buttons and    *)
(* everything that can be scraped.                                           *)
THEOREM TypeCorrect == Spec => []TypeOK
<1>1. Init => CountInv /\ FlagsOK
  BY InitCount DEF Init, FlagsOK
<1>2. Init => RoundInv
  BY PauseType, PopupAssumption DEF Init, RoundInv, Nothing, Inputs
<1>3. FlagsOK /\ [Next]_vars => FlagsOK'
  BY StepFlags
<1>4. CountInv /\ FlagsOK /\ RoundInv => TypeOK
  BY DEF CountInv, FlagsOK, RoundInv, Before, TypeOK
<1> QED
  BY <1>1, <1>2, <1>3, <1>4, CountStep, RoundStep, PTL DEF Spec

-----------------------------------------------------------------------------

(* Before the end of the cadence there was no input yet; at the end it is    *)
(* either followed by a reset that is still due, or by one that is done.     *)
ResetDone == isReset /\ stable = 0

ResetInv ==
    /\ pc \in Before \ {"scrape"} => did = Nothing
    /\ pc = "finish" /\ did # Nothing => needsFinish \/ ResetDone
    /\ pc = "scrape" /\ did # Nothing => ResetDone

LEMMA ResetStep == ResetInv /\ [Next]_vars => ResetInv'
<1> SUFFICES ASSUME ResetInv, [Next]_vars PROVE ResetInv'
  OBVIOUS
<1> USE DEF ResetInv, ResetDone, Before
<1>1. CASE Scrape
  BY <1>1 DEF Scrape
<1>2. CASE Evaluate
  BY <1>2 DEF Evaluate, CalculateFinalAnswer
<1>3. CASE ClickPopup
  BY <1>3 DEF ClickPopup
<1>4. CASE NoPopup \/ NoSecondary \/ NoPrimary
  BY <1>4 DEF NoPopup, NoSecondary, NoPrimary, GoOn
<1>5. CASE Secondary
  BY <1>5 DEF Secondary, Reset
<1>6. CASE Primary
  BY <1>6 DEF Primary
<1>7. CASE Finish
  BY <1>7 DEF Finish, Reset, counter
<1>8. CASE Settle \/ UNCHANGED vars
  BY <1>8 DEF Settle, vars, counter
<1> QED
  BY <1>1, <1>2, <1>3, <1>4, <1>5, <1>6, <1>7, <1>8 DEF Next, Heartbeat

(* For every delay and whatever is seen: a cadence that ended in an input    *)
(* left the counter reset.                                                   *)
THEOREM ResetAfterInput == Spec => []InputResets
<1>1. Init => ResetInv
  BY DEF Init, ResetInv
<1>2. ResetInv => InputResets
  BY DEF ResetInv, ResetDone, InputResets
<1> QED
  BY <1>1, <1>2, ResetStep, PTL DEF Spec

-----------------------------------------------------------------------------
(* The cadence with the iterator thread.                                     *)

(* As long as the results of a failed dealing cannot be followed by a        *)
(* simulation with the standard algorithm; see MCIteratorThreadFailed.       *)
NoMixedDealing == Collisions = {} \/ \A v \in Views : CardsIn[v] \in EnhancedCards

USE CardAssumption, ButtonAssumption, TurnAssumption, NumberAssumption

\* Types, as far as the steps need them.
ThreadTypeOK ==
    /\ changed \in BOOLEAN /\ opponents \in BOOLEAN /\ hasty \in BOOLEAN
    /\ unnoticed \in BOOLEAN /\ dealt \in BOOLEAN /\ woken \in BOOLEAN
    /\ epc \in {"idle", "init", "masks", "reset", "opponents", "wait"}
    /\ tpc \in {"look", "busy", "turn", "opponents", "trial", "store", "after",
                "publish"}
    /\ required \in {0, Iterations} /\ calculated \in 0 .. Iterations
    /\ loaded \in 0 .. Iterations - 1
    /\ masks \in Cards
    /\ tally \in [cards : SUBSET Cards, trials : Nat]

Phases == {"popup", "secondary", "primary"}

\* Until the first restart nothing has been simulated, and no frame counted.
FirstRestart ==
    required = 0 => /\ tpc = "look" /\ calculated = 0 /\ changed
                    /\ epc \in {"idle", "init"} /\ (isReset \/ epc = "init")

\* Restarts happen between the evaluation and the end of the heartbeat.
RestartsInPhase ==
    /\ epc # "idle" => pc \in Phases
    /\ epc \in {"masks", "reset", "wait", "opponents"} => required = Iterations
    /\ woken => pc = "scrape"

\* A thread that has nothing to do does not stir while its data is prepared.
Prepared ==
    ~hasty /\ epc \in {"masks", "reset"}
      => /\ tpc = "look" /\ calculated = Iterations /\ tally = NoTally
         /\ final => Commanded

Done(cards) ==
    \/ results = ResultsOf(cards)
    \/ results = Undefined /\ cards \in Collisions

\* How far the simulation is, wherever the thread is.
Progress ==
    ~hasty /\ required = Iterations /\ epc \notin {"masks", "reset"} =>
      /\ tpc = "look" => \/ calculated \in {0, 1} /\ tally = NoTally
                         \/ calculated = Iterations /\ Done(masks)
      /\ tpc = "busy" => calculated \in {0, 1} /\ tally = NoTally
      /\ tpc \in {"turn", "opponents"} => calculated = 1 /\ tally = NoTally
      /\ tpc = "trial" =>
           /\ calculated >= 1 /\ tally.trials = calculated - 1
           /\ calculated > 1 => dealt /\ tally.cards = {masks}
           /\ calculated = 1 => tally.cards = {}
      /\ tpc = "store" =>
           /\ calculated >= 1 /\ calculated < Iterations /\ loaded = calculated
           /\ tally.trials = calculated /\ dealt /\ tally.cards = {masks}
      /\ tpc \in {"after", "publish"} =>
           /\ calculated = Iterations
           /\ \/ dealt /\ tally = [cards |-> {masks}, trials |-> Iterations - 1]
              \/ ~dealt /\ results = Undefined /\ masks \in Collisions

\* In time for the next evaluation the thread has begun.
InTime ==
    ~hasty /\ required = Iterations /\ (woken \/ pc = "evaluate") => calculated >= 1

\* A final answer waits for the simulation.
FinalIsComplete ==
    pc \in Phases /\ final /\ ~hasty /\ epc \in {"idle", "opponents"}
      => required = Iterations /\ calculated = Iterations

\* The cards of the simulation are those of the answer.
FinalCards ==
    pc \in Phases /\ final /\ ~unnoticed /\ epc \notin {"init", "masks"}
      => masks = CardsToSimulate

\* A dealing only fails where hand ranges collide.
FailsByCollision == Collisions = {} => dealt

ThreadInv ==
    /\ ThreadTypeOK /\ FirstRestart /\ RestartsInPhase /\ Prepared /\ Progress
    /\ InTime /\ FinalIsComplete /\ FinalCards /\ FailsByCollision

-----------------------------------------------------------------------------
(* Every step of the composition is one of the cadence, or none at all.      *)
LEMMA StepOfCadence ==
    ~settled /\ [ThreadNext]_all => [Next]_vars /\ ~settled'
<1> SUFFICES ASSUME ~settled, [ThreadNext]_all PROVE [Next]_vars /\ ~settled'
  OBVIOUS
<1>1. CASE Beat
  <2>1. CASE TimelyScrape
    BY <2>1 DEF TimelyScrape, Scrape, Next, Heartbeat
  <2>2. CASE EvaluateAll
    <3>1. PICK delay \in BOOLEAN : CalculateFinalAnswer(IteratorThreadWorking, delay)
      BY <2>2 DEF EvaluateAll
    <3>2. IteratorThreadWorking \in BOOLEAN
      BY DEF IteratorThreadWorking
    <3>3. Evaluate
      BY <3>1, <3>2 DEF Evaluate
    <3>4. UNCHANGED settled
      BY <3>1 DEF CalculateFinalAnswer
    <3> QED
      BY <3>3, <3>4 DEF Next, Heartbeat
  <2>3. CASE Act
    <3>1. ClickPopup \/ NoPopup \/ NoSecondary \/ NoPrimary \/ Secondary \/ Primary
      BY <2>3 DEF Act
    <3>2. UNCHANGED settled
      BY <3>1 DEF ClickPopup, NoPopup, NoSecondary, NoPrimary, Secondary, Primary
    <3> QED
      BY <3>1, <3>2 DEF Next, Heartbeat
  <2>4. CASE EndOfHeartbeat
    BY <2>4 DEF EndOfHeartbeat, Finish, Next, Heartbeat
  <2> QED
    BY <1>1, <2>1, <2>2, <2>3, <2>4 DEF Beat
<1>2. CASE Restarting \/ Command \/ IteratorThreadFunction \/ Calm \/ UNCHANGED all
  BY <1>2 DEF Restarting, Command, IteratorThreadFunction, Calm, all, vars
<1> QED
  BY <1>1, <1>2 DEF ThreadNext, HeartbeatThread

(* The heartbeats with the thread implement the cadence of Autoplayer, whose *)
(* choice of a working iterator stands for the thread.                       *)
THEOREM ImplementsCadence == ThreadSpec => Spec
<1>1. ThreadInit => Init /\ ~settled
  BY DEF ThreadInit, Init
<1>2. ~settled /\ [ThreadNext]_all => [Next]_vars /\ ~settled'
  BY StepOfCadence
<1> QED
  BY <1>1, <1>2, PTL DEF ThreadSpec, Spec

(* What was shown of the cadence holds with the thread, too: no action       *)
(* without FrameDelay + 1 frames of the very view it is meant for.           *)
THEOREM StableWithThread == ThreadSpec => []ActsOnStableView
BY ImplementsCadence, StableBeforeActing, PTL

-----------------------------------------------------------------------------
ThreadFrame == UNCHANGED <<vars, engineVars, epc, recalc, hasty, unnoticed, calm>>
RestartFrame == UNCHANGED <<vars, threadVars, woken, calm>>
BeatFrame == epc = "idle" /\ UNCHANGED <<threadVars, calm>>
Frame == UNCHANGED <<vars, engineVars, epc, recalc, shared, threadVars, woken,
                     hasty, unnoticed>>

(* The cases of a step, each with what it leaves alone.                      *)
LEMMA StepCases ==
    ASSUME [ThreadNext]_all
    PROVE  \/ /\ ThreadFrame
              /\ \/ Look \/ Busy \/ NotMyTurn \/ Turn \/ Opponents \/ Trial
                 \/ Store \/ Collide \/ EndOfLoop \/ AfterLoop \/ Publish
           \/ /\ RestartFrame
              /\ \/ InitIteratorLoop \/ SetupMasks \/ RestartDone
                 \/ CalculateNOpponents \/ RecalcIsDone \/ Recalc
           \/ /\ BeatFrame
              /\ TimelyScrape \/ EvaluateAll \/ Act \/ EndOfHeartbeat
           \/ Frame
BY DEF ThreadNext, HeartbeatThread, Beat, Restarting, Command,
   IteratorThreadFunction, Calm, ThreadFrame, RestartFrame, BeatFrame, Frame, all

USE DEF vars, counter, engineVars, shared, threadVars,
        ThreadFrame, RestartFrame, BeatFrame, Frame

LEMMA CardsType == CountInv => CardsToSimulate \in Cards
BY ScreenAssumption DEF CountInv, CardsToSimulate, AllScreens

LEMMA WakeFacts == Wake => woken' \in BOOLEAN /\ (woken' => woken \/ pc = "scrape")
BY Zenon DEF Wake

LEMMA TypeStep ==
    ASSUME CountInv, ThreadTypeOK, [ThreadNext]_all PROVE ThreadTypeOK'
<1>1. ASSUME ThreadFrame, Look \/ Busy \/ NotMyTurn \/ Turn \/ Opponents
      PROVE  ThreadTypeOK'
  BY <1>1, WakeFacts DEF ThreadTypeOK, Look, Busy, NotMyTurn, Turn, Opponents
<1>2. ASSUME ThreadFrame, Trial PROVE ThreadTypeOK'
  BY <1>2 DEF ThreadTypeOK, Trial
<1>3. ASSUME ThreadFrame, Store \/ Collide \/ EndOfLoop \/ AfterLoop \/ Publish
      PROVE  ThreadTypeOK'
  <2>1. CASE Store
    BY <1>3, <2>1 DEF ThreadTypeOK, Store
  <2>2. CASE Collide
    <3>1. calculated' \in 0 .. Iterations
      BY <2>2 DEF ThreadTypeOK, Collide
    <3>2. UNCHANGED <<changed, opponents, hasty, unnoticed, woken, epc, required,
                      loaded, masks, tally>>
      BY <1>3, <2>2 DEF Collide
    <3>3. dealt' = FALSE /\ tpc' = "after"
      BY <2>2 DEF Collide
    <3> QED
      BY <3>1, <3>2, <3>3 DEF ThreadTypeOK
  <2>3. CASE EndOfLoop \/ AfterLoop \/ Publish
    BY <1>3, <2>3 DEF ThreadTypeOK, EndOfLoop, AfterLoop, Publish, ResetIteratorVars
  <2> QED
    BY <1>3, <2>1, <2>2, <2>3
<1>4. ASSUME RestartFrame, InitIteratorLoop PROVE ThreadTypeOK'
  <2>1. hasty' \in BOOLEAN
    BY <1>4, Zenon DEF InitIteratorLoop
  <2>2. tally' \in [cards : SUBSET Cards, trials : Nat]
    BY <1>4 DEF InitIteratorLoop, NoTally
  <2> QED
    BY <1>4, <2>1, <2>2 DEF ThreadTypeOK, InitIteratorLoop
<1>5. ASSUME RestartFrame, SetupMasks \/ RestartDone \/ CalculateNOpponents
                           \/ RecalcIsDone \/ Recalc
      PROVE  ThreadTypeOK'
  <2>1. CASE SetupMasks
    BY <1>5, <2>1, CardsType DEF ThreadTypeOK, SetupMasks
  <2>2. CASE RestartDone
    <3>1. calculated' = 0 /\ changed' \in BOOLEAN
      BY <2>2 DEF ThreadTypeOK, RestartDone, ResetIteratorVars
    <3>2. epc' \in {"idle", "opponents", "wait"}
      BY <2>2 DEF RestartDone, AfterUpdateOnMyTurn
    <3>3. UNCHANGED <<opponents, hasty, unnoticed, woken, dealt, tpc, required,
                      loaded, masks, tally>>
      BY <1>5, <2>2 DEF RestartDone
    <3> QED
      BY <3>1, <3>2, <3>3 DEF ThreadTypeOK
  <2>3. CASE CalculateNOpponents \/ RecalcIsDone \/ Recalc
    BY <1>5, <2>3 DEF ThreadTypeOK, CalculateNOpponents, RecalcIsDone, Recalc
  <2> QED
    BY <1>5, <2>1, <2>2, <2>3
<1>6. ASSUME BeatFrame, TimelyScrape \/ Act \/ EndOfHeartbeat PROVE ThreadTypeOK'
  BY <1>6 DEF ThreadTypeOK, TimelyScrape, Act, EndOfHeartbeat
<1>7. ASSUME BeatFrame, EvaluateAll PROVE ThreadTypeOK'
  BY <1>7 DEF ThreadTypeOK, EvaluateAll, UpdateOnMyTurn, AfterUpdateOnMyTurn
<1>8. ASSUME Frame PROVE ThreadTypeOK'
  BY <1>8 DEF ThreadTypeOK
<1> QED
  BY <1>1, <1>2, <1>3, <1>4, <1>5, <1>6, <1>7, <1>8, StepCases

LEMMA FirstRestartStep ==
    ASSUME ThreadTypeOK, FirstRestart, [ThreadNext]_all PROVE FirstRestart'
<1>1. ASSUME ThreadFrame, Look PROVE FirstRestart'
  BY <1>1 DEF ThreadTypeOK, FirstRestart, Look, IteratorThreadComplete
<1>2. ASSUME ThreadFrame, \/ Busy \/ NotMyTurn \/ Turn \/ Opponents \/ Trial
                          \/ Store \/ Collide \/ EndOfLoop \/ AfterLoop \/ Publish
      PROVE  FirstRestart'
  BY <1>2 DEF FirstRestart, Busy, NotMyTurn, Turn, Opponents, Trial, Store,
     Collide, EndOfLoop, AfterLoop, Publish
<1>3. ASSUME RestartFrame, InitIteratorLoop \/ SetupMasks \/ RestartDone
                           \/ CalculateNOpponents \/ RecalcIsDone \/ Recalc
      PROVE  FirstRestart'
  BY <1>3 DEF FirstRestart, InitIteratorLoop, SetupMasks, RestartDone,
     CalculateNOpponents, RecalcIsDone, Recalc
<1>4. ASSUME BeatFrame, TimelyScrape \/ EndOfHeartbeat PROVE FirstRestart'
  BY <1>4 DEF FirstRestart, TimelyScrape, Scrape, EndOfHeartbeat, Finish, Reset
<1>5. ASSUME BeatFrame, Act PROVE FirstRestart'
  BY <1>5 DEF ThreadTypeOK, FirstRestart, Act, ClickPopup, NoPopup, NoSecondary,
     NoPrimary, Secondary, Primary, Reset
<1>6. ASSUME BeatFrame, EvaluateAll PROVE FirstRestart'
  <2>1. CASE seen.view \in TurnViews
    BY <1>6, <2>1 DEF FirstRestart, EvaluateAll, UpdateOnMyTurn,
       StartOfPrWinComputationsNeeded
  <2>2. CASE seen.view \notin TurnViews
    <3>1. ~MyTurn
      BY <2>2 DEF MyTurn
    <3> QED
      BY <1>6, <2>2, <3>1 DEF FirstRestart, EvaluateAll, CalculateFinalAnswer
  <2> QED
    BY <2>1, <2>2
<1>7. ASSUME Frame PROVE FirstRestart'
  BY <1>7 DEF FirstRestart
<1> QED
  BY <1>1, <1>2, <1>3, <1>4, <1>5, <1>6, <1>7, StepCases

LEMMA PhaseStep ==
    ASSUME ThreadTypeOK, FirstRestart, RestartsInPhase, [ThreadNext]_all
    PROVE  RestartsInPhase'
<1>1. ASSUME ThreadFrame,
             \/ Look \/ Busy \/ NotMyTurn \/ Turn \/ Opponents \/ Trial
             \/ Store \/ Collide \/ EndOfLoop \/ AfterLoop \/ Publish
      PROVE  RestartsInPhase'
  BY <1>1, WakeFacts DEF RestartsInPhase, Look, Busy, NotMyTurn, Turn, Opponents,
     Trial, Store, Collide, EndOfLoop, AfterLoop, Publish
<1>2. ASSUME RestartFrame, InitIteratorLoop \/ SetupMasks \/ RestartDone
                           \/ CalculateNOpponents \/ RecalcIsDone \/ Recalc
      PROVE  RestartsInPhase'
  BY <1>2 DEF RestartsInPhase, Phases, InitIteratorLoop, SetupMasks, RestartDone,
     AfterUpdateOnMyTurn, CalculateNOpponents, RecalcIsDone, Recalc
<1>3. ASSUME BeatFrame, TimelyScrape \/ EndOfHeartbeat PROVE RestartsInPhase'
  BY <1>3 DEF RestartsInPhase, TimelyScrape, Scrape, EndOfHeartbeat, Finish
<1>4. ASSUME BeatFrame, Act PROVE RestartsInPhase'
  BY <1>4 DEF RestartsInPhase, Act, ClickPopup, NoPopup, NoSecondary, NoPrimary,
     Secondary, Primary
<1>5. ASSUME BeatFrame, EvaluateAll PROVE RestartsInPhase'
  <2>1. pc = "evaluate" /\ pc' = "popup" /\ UNCHANGED <<required, woken>>
    BY <1>5 DEF EvaluateAll, CalculateFinalAnswer
  <2>2. CASE changed'
    BY <1>5, <2>1, <2>2 DEF RestartsInPhase, Phases, EvaluateAll, UpdateOnMyTurn,
       StartOfPrWinComputationsNeeded
  <2>3. CASE ~changed'
    <3>1. ~changed
      BY <1>5, <2>3 DEF EvaluateAll
    <3>2. required = Iterations
      BY <3>1 DEF ThreadTypeOK, FirstRestart
    <3> QED
      BY <1>5, <2>1, <3>2 DEF RestartsInPhase, Phases, EvaluateAll, UpdateOnMyTurn,
         AfterUpdateOnMyTurn
  <2> QED
    BY <2>2, <2>3
<1>6. ASSUME Frame PROVE RestartsInPhase'
  BY <1>6 DEF RestartsInPhase
<1> QED
  BY <1>1, <1>2, <1>3, <1>4, <1>5, <1>6, StepCases

(* While a restart prepares the data, a thread that was done does not stir.  *)
LEMMA PreparedStep ==
    ASSUME ThreadTypeOK, RestartsInPhase, Prepared, [ThreadNext]_all
    PROVE  Prepared'
<1>1. ASSUME ThreadFrame, Look PROVE Prepared'
  BY <1>1 DEF ThreadTypeOK, RestartsInPhase, Prepared, Commanded, Look,
     IteratorThreadComplete
<1>2. ASSUME ThreadFrame, \/ Busy \/ NotMyTurn \/ Turn \/ Opponents \/ Trial
                          \/ Store \/ Collide \/ EndOfLoop \/ AfterLoop \/ Publish
      PROVE  Prepared'
  BY <1>2 DEF Prepared, Busy, NotMyTurn, Turn, Opponents, Trial, Store,
     Collide, EndOfLoop, AfterLoop, Publish
<1>3. ASSUME RestartFrame, InitIteratorLoop PROVE Prepared'
  <2>1. ~hasty' => /\ ~(calculated < Iterations) /\ ~Publishing
                   /\ final => Commanded
    BY <1>3, Zenon DEF InitIteratorLoop
  <2> QED
    BY <1>3, <2>1 DEF ThreadTypeOK, Prepared, InitIteratorLoop, Publishing,
       IteratorThreadComplete, Commanded
<1>4. ASSUME RestartFrame, SetupMasks \/ RestartDone
                           \/ CalculateNOpponents \/ RecalcIsDone \/ Recalc
      PROVE  Prepared'
  BY <1>4 DEF Prepared, Commanded, SetupMasks, RestartDone, AfterUpdateOnMyTurn,
     CalculateNOpponents, RecalcIsDone, Recalc
<1>5. ASSUME BeatFrame, TimelyScrape \/ Act \/ EndOfHeartbeat PROVE Prepared'
  BY <1>5 DEF Prepared, TimelyScrape, Act, EndOfHeartbeat
<1>6. ASSUME BeatFrame, EvaluateAll PROVE Prepared'
  BY <1>6 DEF Prepared, EvaluateAll, UpdateOnMyTurn, AfterUpdateOnMyTurn
<1>7. ASSUME Frame PROVE Prepared'
  BY <1>7 DEF Prepared, Commanded
<1> QED
  BY <1>1, <1>2, <1>3, <1>4, <1>5, <1>6, <1>7, StepCases

(* Where the thread is and what it has counted, and what a restart hands it. *)
LEMMA ProgressStep ==
    ASSUME NoMixedDealing, CountInv, ThreadTypeOK, FailsByCollision, Prepared,
           Progress, [ThreadNext]_all
    PROVE  Progress'
<1>1. ASSUME ThreadFrame, \/ Look \/ Busy \/ NotMyTurn \/ Turn \/ Opponents
                          \/ Store \/ Collide \/ EndOfLoop \/ AfterLoop
      PROVE  Progress'
  BY <1>1 DEF ThreadTypeOK, Progress, Look, Busy, NotMyTurn, Turn, Opponents,
     Store, Collide, MayCollide, EndOfLoop, AfterLoop, Done,
     IteratorThreadComplete, NoTally
<1>2. ASSUME ThreadFrame, Trial PROVE Progress'
  <2>1. seen.view \in Views
    BY ScreenAssumption DEF CountInv, AllScreens
  <2>2. dealt'
    BY <1>2, <2>1 DEF Trial, UseEnhancedPrWin, NoMixedDealing, FailsByCollision
  <2> QED
    BY <1>2, <2>2 DEF ThreadTypeOK, Progress, Trial, NoTally
<1>3. ASSUME ThreadFrame, Publish PROVE Progress'
  <2>1. CASE ~hasty /\ required = Iterations /\ epc \notin {"masks", "reset"}
    <3>1. Done(masks)'
      BY <1>3, <2>1 DEF Progress, Publish, Done, ResultsOf, IteratorThreadComplete
    <3> QED
      BY <1>3, <2>1, <3>1 DEF Progress, Publish
  <2> QED
    BY <1>3, <2>1 DEF Progress, Publish
<1>4. ASSUME RestartFrame, InitIteratorLoop \/ SetupMasks PROVE Progress'
  BY <1>4 DEF Progress, InitIteratorLoop, SetupMasks
<1>5. ASSUME RestartFrame, RestartDone PROVE Progress'
  BY <1>5 DEF ThreadTypeOK, Progress, Prepared, RestartDone, ResetIteratorVars
<1>6. ASSUME RestartFrame, CalculateNOpponents \/ RecalcIsDone \/ Recalc
      PROVE  Progress'
  BY <1>6 DEF Progress, Done, CalculateNOpponents, RecalcIsDone, Recalc
<1>7. ASSUME BeatFrame, TimelyScrape \/ EvaluateAll \/ Act \/ EndOfHeartbeat
      PROVE  Progress'
  BY <1>7 DEF Progress, Done, TimelyScrape, EvaluateAll, Act, EndOfHeartbeat
<1>8. ASSUME Frame PROVE Progress'
  BY <1>8 DEF Progress, Done
<1> QED
  BY <1>1, <1>2, <1>3, <1>4, <1>5, <1>6, <1>7, <1>8, StepCases

LEMMA FailsStep ==
    ASSUME FailsByCollision, [ThreadNext]_all PROVE FailsByCollision'
BY StepCases DEF FailsByCollision, Look, Busy, NotMyTurn, Turn, Opponents, Trial,
   Store, Collide, MayCollide, EndOfLoop, AfterLoop, Publish

(* A scrape is late enough, and a restart early enough, for the thread.      *)
LEMMA InTimeStep ==
    ASSUME ThreadTypeOK, RestartsInPhase, Prepared, Progress, InTime,
           [ThreadNext]_all
    PROVE  InTime'
<1>1. ASSUME ThreadFrame, \/ Look \/ Busy \/ NotMyTurn \/ Turn \/ Opponents
                          \/ Trial \/ Store
      PROVE  InTime'
  BY <1>1, WakeFacts DEF ThreadTypeOK, InTime, Look, Busy, NotMyTurn, Turn,
     Opponents, Trial, Store, IteratorThreadComplete
<1>2. ASSUME ThreadFrame, Collide \/ EndOfLoop \/ AfterLoop \/ Publish
      PROVE  InTime'
  BY <1>2 DEF ThreadTypeOK, InTime, Progress, Prepared, Collide, EndOfLoop,
     AfterLoop, Publish, IteratorThreadComplete
<1>3. ASSUME RestartFrame, InitIteratorLoop \/ SetupMasks \/ RestartDone
                           \/ CalculateNOpponents \/ RecalcIsDone \/ Recalc
      PROVE  InTime'
  BY <1>3 DEF InTime, RestartsInPhase, Phases, InitIteratorLoop, SetupMasks,
     RestartDone, CalculateNOpponents, RecalcIsDone, Recalc
<1>4. ASSUME BeatFrame, TimelyScrape PROVE InTime'
  BY <1>4 DEF ThreadTypeOK, InTime, Progress, TimelyScrape, Timely
<1>5. ASSUME BeatFrame, EvaluateAll \/ EndOfHeartbeat PROVE InTime'
  BY <1>5 DEF InTime, RestartsInPhase, EvaluateAll, CalculateFinalAnswer,
     EndOfHeartbeat, Finish
<1>6. ASSUME BeatFrame, Act PROVE InTime'
  BY <1>6 DEF InTime, Act, ClickPopup, NoPopup, NoSecondary, NoPrimary, Secondary,
     Primary, GoOn
<1>7. ASSUME Frame PROVE InTime'
  BY <1>7 DEF InTime
<1> QED
  BY <1>1, <1>2, <1>3, <1>4, <1>5, <1>6, <1>7, StepCases

(* An answer becomes final after the simulation, and stays so unless it is   *)
(* restarted.                                                                *)
LEMMA CompleteStep ==
    ASSUME CountInv, ThreadTypeOK, FirstRestart, RestartsInPhase, Prepared,
           Progress, InTime, FinalIsComplete, [ThreadNext]_all
    PROVE  FinalIsComplete'
<1>1. ASSUME ThreadFrame,
             \/ Look \/ Busy \/ NotMyTurn \/ Turn \/ Opponents \/ Trial \/ Store
      PROVE  FinalIsComplete'
  BY <1>1 DEF ThreadTypeOK, FinalIsComplete, Progress, Look, Busy, NotMyTurn, Turn,
     Opponents, Trial, Store
<1>2. ASSUME ThreadFrame, Collide \/ EndOfLoop \/ AfterLoop \/ Publish
      PROVE  FinalIsComplete'
  BY <1>2 DEF ThreadTypeOK, FinalIsComplete, Collide, EndOfLoop, AfterLoop,
     Publish, IteratorThreadComplete
<1>3. ASSUME RestartFrame, InitIteratorLoop \/ SetupMasks \/ Recalc
      PROVE  FinalIsComplete'
  BY <1>3 DEF FinalIsComplete, InitIteratorLoop, SetupMasks, Recalc
<1>4. ASSUME RestartFrame, RestartDone PROVE FinalIsComplete'
  BY <1>4 DEF FinalIsComplete, Prepared, RestartDone
<1>5. ASSUME RestartFrame, CalculateNOpponents PROVE FinalIsComplete'
  BY <1>5 DEF FinalIsComplete, CalculateNOpponents
<1>6. ASSUME RestartFrame, RecalcIsDone PROVE FinalIsComplete'
  BY <1>6 DEF ThreadTypeOK, RestartsInPhase, FinalIsComplete, RecalcIsDone,
     IteratorThreadComplete
<1>7. ASSUME BeatFrame, TimelyScrape \/ EndOfHeartbeat PROVE FinalIsComplete'
  BY <1>7 DEF FinalIsComplete, Phases, TimelyScrape, Scrape, EndOfHeartbeat, Finish
<1>8. ASSUME BeatFrame, Act PROVE FinalIsComplete'
  BY <1>8 DEF FinalIsComplete, Phases, Act, ClickPopup, NoPopup, NoSecondary,
     NoPrimary, Secondary, Primary, GoOn, Reset
<1>9. ASSUME BeatFrame, EvaluateAll PROVE FinalIsComplete'
  <2> SUFFICES ASSUME final', ~hasty
               PROVE  required = Iterations /\ calculated = Iterations
    BY <1>9 DEF FinalIsComplete, EvaluateAll
  <2>1. PICK delay \in BOOLEAN : CalculateFinalAnswer(IteratorThreadWorking, delay)
    BY <1>9 DEF EvaluateAll
  <2>2. MyTurn /\ ~IteratorThreadWorking /\ stable' >= FrameDelay
    BY <2>1, Zenon DEF CalculateFinalAnswer
  <2>3. ~isReset
    <3>1. UpdateStableFrames
      BY <2>1, <2>2, Zenon DEF CalculateFinalAnswer
    <3>2. stable' # 0
      BY <2>2, DelayAssumption
    <3> QED
      BY <3>1, <3>2 DEF UpdateStableFrames
  <2>4. required = Iterations
    BY <1>9, <2>3 DEF ThreadTypeOK, FirstRestart
  <2>5. calculated >= 1
    BY <2>1, <2>4 DEF InTime, CalculateFinalAnswer
  <2> QED
    BY <2>2, <2>4, <2>5 DEF ThreadTypeOK, IteratorThreadWorking
<1>10. ASSUME Frame PROVE FinalIsComplete'
  BY <1>10 DEF FinalIsComplete
<1> QED
  BY <1>1, <1>2, <1>3, <1>4, <1>5, <1>6, <1>7, <1>8, <1>9, <1>10, StepCases

(* What is simulated are the cards of the answer, unless it was not noticed  *)
(* that they are others.                                                     *)
LEMMA CardsStep ==
    ASSUME ThreadTypeOK, FinalCards, [ThreadNext]_all PROVE FinalCards'
<1>1. ASSUME ThreadFrame,
             \/ Look \/ Busy \/ NotMyTurn \/ Turn \/ Opponents \/ Trial
             \/ Store \/ Collide \/ EndOfLoop \/ AfterLoop \/ Publish
      PROVE  FinalCards'
  BY <1>1 DEF FinalCards, CardsToSimulate, Look, Busy, NotMyTurn, Turn, Opponents,
     Trial, Store, Collide, EndOfLoop, AfterLoop, Publish
<1>2. ASSUME RestartFrame, InitIteratorLoop \/ SetupMasks \/ RestartDone
                           \/ CalculateNOpponents \/ RecalcIsDone \/ Recalc
      PROVE  FinalCards'
  BY <1>2 DEF FinalCards, CardsToSimulate, InitIteratorLoop, SetupMasks,
     RestartDone, CalculateNOpponents, RecalcIsDone, Recalc
<1>3. ASSUME BeatFrame, TimelyScrape \/ EndOfHeartbeat PROVE FinalCards'
  BY <1>3 DEF FinalCards, Phases, TimelyScrape, Scrape, EndOfHeartbeat, Finish
<1>4. ASSUME BeatFrame, Act PROVE FinalCards'
  BY <1>4 DEF FinalCards, Phases, CardsToSimulate, Act, ClickPopup, NoPopup,
     NoSecondary, NoPrimary, Secondary, Primary, GoOn, Reset
<1>5. ASSUME BeatFrame, EvaluateAll PROVE FinalCards'
  <2> SUFFICES ASSUME final', ~unnoticed', epc' # "init"
               PROVE  masks' = CardsToSimulate'
    BY DEF FinalCards
  <2>1. PICK delay \in BOOLEAN : CalculateFinalAnswer(IteratorThreadWorking, delay)
    BY <1>5 DEF EvaluateAll
  <2>2. seen.view \in TurnViews
    BY <2>1, Zenon DEF CalculateFinalAnswer, MyTurn
  <2>3. ~changed'
    BY <1>5, <2>2 DEF EvaluateAll, UpdateOnMyTurn, StartOfPrWinComputationsNeeded
  <2>4. masks = CardsToSimulate
    BY <1>5, <2>3, Zenon DEF EvaluateAll
  <2> QED
    BY <1>5, <2>1, <2>4 DEF EvaluateAll, CalculateFinalAnswer, CardsToSimulate
<1>6. ASSUME Frame PROVE FinalCards'
  BY <1>6 DEF FinalCards, CardsToSimulate
<1> QED
  BY <1>1, <1>2, <1>3, <1>4, <1>5, <1>6, StepCases

LEMMA InitThread == ThreadInit => ThreadInv
<1> SUFFICES ASSUME ThreadInit PROVE ThreadInv
  OBVIOUS
<1>1. ThreadTypeOK
  <2>1. tally \in [cards : SUBSET Cards, trials : Nat]
    BY DEF ThreadInit, NoTally
  <2>2. /\ changed \in BOOLEAN /\ opponents \in BOOLEAN /\ hasty \in BOOLEAN
        /\ unnoticed \in BOOLEAN /\ dealt \in BOOLEAN /\ woken \in BOOLEAN
    BY Zenon DEF ThreadInit
  <2>3. required = 0 /\ calculated = 0 /\ loaded = 0 /\ masks = NoCards
        /\ epc = "idle" /\ tpc = "look"
    BY Zenon DEF ThreadInit
  <2> QED
    BY <2>1, <2>2, <2>3 DEF ThreadTypeOK
<1> QED
  BY <1>1 DEF ThreadInit, Init, ThreadInv, FirstRestart, RestartsInPhase, Prepared,
     Progress, InTime, FinalIsComplete, FinalCards, FailsByCollision, Phases

LEMMA ThreadStep ==
    NoMixedDealing /\ CountInv /\ ThreadInv /\ [ThreadNext]_all => ThreadInv'
BY TypeStep, FirstRestartStep, PhaseStep, PreparedStep, ProgressStep, InTimeStep,
   CompleteStep, CardsStep, FailsStep DEF ThreadInv

LEMMA InvDecides == ThreadInv => DecidesOnResults
<1> SUFFICES ASSUME ThreadInv, Deciding, ~hasty, ~unnoticed, ~Publishing
             PROVE  \/ results = ResultsOf(CardsToSimulate)
                    \/ results = Undefined /\ CardsToSimulate \in Collisions
  BY DEF DecidesOnResults
<1>1. required = Iterations /\ calculated = Iterations
  BY DEF ThreadInv, FinalIsComplete, Deciding, Phases
<1>2. tpc = "look"
  BY <1>1 DEF Publishing, IteratorThreadComplete
<1>3. Done(masks)
  BY <1>1, <1>2 DEF ThreadInv, Progress, Deciding
<1>4. masks = CardsToSimulate
  BY DEF ThreadInv, FinalCards, Deciding, Phases
<1> QED
  BY <1>3, <1>4 DEF Done

(* Every decision is based on the results of all iterations with the cards   *)
(* it is made for (CIteratorThread.cpp:164-331), for every number of         *)
(* iterations, of views and of stable frames, as long as the enhanced and    *)
(* the standard algorithm do not take turns over colliding hand ranges.      *)
THEOREM DecidesCorrect == NoMixedDealing => (ThreadSpec => []DecidesOnResults)
<1>1. CASE NoMixedDealing
  <2>1. ThreadInit => ThreadInv /\ CountInv /\ FlagsOK /\ ~settled
    BY InitThread, InitCount DEF ThreadInit, Init, FlagsOK
  <2>2. ThreadInv /\ CountInv /\ FlagsOK /\ ~settled /\ [ThreadNext]_all
          => (ThreadInv /\ CountInv /\ FlagsOK /\ ~settled)'
    BY <1>1, ThreadStep, StepOfCadence, CountStep, StepFlags
  <2> QED
    BY <2>1, <2>2, InvDecides, PTL DEF ThreadSpec
<1> QED
  BY <1>1
=============================================================================
