----------------------------- MODULE Autoplayer -----------------------------
(***************************************************************************)
(* The cadence of the autoplayer over the heartbeats: what one heartbeat   *)
(* sees, whether it takes it for final (CalculateFinalAnswer with          *)
(* CStableFramesCounter), and CAutoplayer::DoAutoplayer, which handles     *)
(* popups first, then every few heartbeats the secondary formulas, and     *)
(* then the primary ones.  How a primary decision turns into inputs is the *)
(* business of PrimaryAction; here it is one input.                        *)
(*                                                                         *)
(* The table may change at any time, but the engine only knows what it     *)
(* scraped at the start of the heartbeat ("seen").                         *)
(***************************************************************************)
EXTENDS Naturals, Sequences

CONSTANTS
    Views,          \* cards, bets, balances, dealer and buttons, as compared
    MyTurnViews,    \* enough buttons to be seen, and our cards known
    Screens,        \* what can be scraped, see ScreenAssumption
    Popups,         \* k_max_number_of_i86X_buttons
    FrameDelay,     \* Preferences()->frame_delay()
    ScrapeDelay     \* Preferences()->scrape_delay(), in milliseconds

AllScreens == [view : Views,
               popups : SUBSET (0 .. Popups - 1),  \* clickable i86 buttons
               chair : BOOLEAN,                    \* userchair_confirmed
               \* a secondary formula is true, and its action is possible or not
               secondary : {"none", "works", "blocked"}]

ASSUME ScreenAssumption == Screens \subseteq AllScreens /\ MyTurnViews \subseteq Views
ASSUME DelayAssumption == FrameDelay \in Nat /\ ScrapeDelay \in Nat \ {0}
ASSUME PopupAssumption == Popups \in Nat \ {0}

VARIABLES
    seen,       \* the scrape of this heartbeat
    settled,    \* ghost: from now on nothing changes
    beat,       \* the heartbeat counter modulo HeartbeatsToPause
    nextPopup,  \* _next_i86_starting_button
    saved,      \* the view of SaveCurrentState
    stable,     \* _NumberOfStableFrames, up to FrameDelay
    isReset,    \* _isReset
    final,      \* isfinalanswer
    needsFinish,\* action_sequence_needs_to_be_finished
    recent,     \* ghost: the last views considered since the last input
    did,        \* ghost: the input of this heartbeat
    pc

counter == <<saved, stable, isReset, final>>
vars == <<seen, settled, beat, nextPopup, counter, needsFinish, recent, did, pc>>

Nothing == [what |-> "nothing", button |-> 0]
Input(what, button) == [what |-> what, button |-> button]

AtLeastOne(n) == IF n < 1 THEN 1 ELSE n

\* Mutant: the pause of three seconds is divided by milliseconds.
HeartbeatsToPauseInSeconds == AtLeastOne(3 \div ScrapeDelay)

\* CAutoplayer::TimeToHandleSecondaryFormulas.
HeartbeatsToPause == AtLeastOne(3000 \div ScrapeDelay)

Init == /\ seen \in Screens /\ settled = FALSE
        /\ beat = 0 /\ nextPopup = 0
        /\ saved \in Views /\ stable = 0 /\ isReset = TRUE /\ final = FALSE
        /\ needsFinish = FALSE /\ recent = << >> /\ did = Nothing
        /\ pc = "scrape"

-----------------------------------------------------------------------------

\* The start of CHeartbeatThread's cycle, up to DoScrape.
Scrape == /\ pc = "scrape" /\ pc' = "evaluate"
          /\ seen' \in IF settled THEN {seen} ELSE Screens
          /\ beat' = (beat + 1) % HeartbeatsToPause
          /\ did' = Nothing
          /\ UNCHANGED <<settled, nextPopup, counter, needsFinish, recent>>

MyTurn == seen.view \in MyTurnViews

LastFrames(s) == IF Len(s) > FrameDelay + 1 THEN Tail(s) ELSE s

\* Mutant: a changed frame is only not counted.
UpdateStableFramesNoReset ==
    IF isReset THEN saved' = seen.view /\ stable' = 0 /\ isReset' = FALSE
    ELSE /\ stable' = IF saved = seen.view /\ stable < FrameDelay
                      THEN stable + 1 ELSE stable
         /\ UNCHANGED <<saved, isReset>>

\* CStableFramesCounter::UpdateNumberOfStableFrames.  A changed frame resets
\* the counter without being saved; the next one is.
UpdateStableFrames ==
    \/ /\ isReset
       /\ saved' = seen.view /\ stable' = 0 /\ isReset' = FALSE
    \/ /\ ~isReset /\ saved = seen.view
       /\ stable' = IF stable < FrameDelay THEN stable + 1 ELSE stable
       /\ UNCHANGED <<saved, isReset>>
    \/ /\ ~isReset /\ saved # seen.view
       /\ stable' = 0 /\ isReset' = TRUE
       /\ UNCHANGED saved

\* CSymbolEngineAutoplayer::CalculateFinalAnswer, where the iterator is still
\* working (then the frame does not count) or not, and f$delay not over or over.
CalculateFinalAnswer(working, delay) ==
    /\ pc = "evaluate" /\ pc' = "popup"
    /\ IF MyTurn /\ ~working
       THEN /\ UpdateStableFrames
            /\ recent' = LastFrames(Append(recent, seen.view))
       ELSE UNCHANGED <<saved, stable, isReset, recent>>
    /\ final' = (MyTurn /\ ~working /\ ~delay /\ stable' >= FrameDelay)
    /\ UNCHANGED <<seen, settled, beat, nextPopup, needsFinish, did>>

\* What the iterator thread does here is up to IteratorThread.
Evaluate ==
    \E working, delay \in IF settled THEN {FALSE} ELSE BOOLEAN :
      CalculateFinalAnswer(working, delay)

\* Every input goes through the mutex of all instances; recent starts anew.
Send(input) == did' = input /\ recent' = << >>

\* Where CMyMutex times out, or there is nothing to be done.
GoOn(next) == pc' = next /\ UNCHANGED <<did, recent>>

-----------------------------------------------------------------------------

\* Mutant: the search always begins with the first button.
PopupAtFromFirst(i) == i % Popups

PopupAt(i) == (nextPopup + i) % Popups

\* CCasinoInterface::HandleInterfacebuttonsI86 clicks the first clickable
\* button, going round from the one after the last clicked.
ClickPopup ==
    /\ pc = "popup" /\ pc' = "finish"
    /\ \E i \in 0 .. Popups - 1 :
         /\ PopupAt(i) \in seen.popups
         /\ \A j \in 0 .. i - 1 : PopupAt(j) \notin seen.popups
         /\ nextPopup' = PopupAt(i) + 1
         /\ Send(Input("popup", PopupAt(i)))
    /\ needsFinish' = TRUE
    /\ UNCHANGED <<seen, settled, beat, counter>>

\* No popup, or no mutex for it: the popup is left where it is.
NoPopup ==
    /\ pc = "popup" /\ GoOn("secondary")
    /\ nextPopup' = IF seen.popups = {} THEN 0 ELSE nextPopup
    /\ UNCHANGED <<seen, settled, beat, counter, needsFinish>>

TimeForSecondary == beat = 0

Reset == stable' = 0 /\ isReset' = TRUE /\ UNCHANGED <<saved, final>>

\* CAutoplayer::ExecuteSecondaryFormulasIfNecessary with success.
Secondary ==
    /\ pc = "secondary" /\ pc' = "finish" /\ TimeForSecondary
    /\ seen.secondary = "works"
    /\ Send(Input("secondary", 0))
    /\ Reset /\ needsFinish' = FALSE
    /\ UNCHANGED <<seen, settled, beat, nextPopup>>

\* Not now, nothing true, no mutex, or nothing that can be done.
NoSecondary ==
    /\ pc = "secondary" /\ GoOn("primary")
    /\ needsFinish' \in IF TimeForSecondary /\ seen.secondary = "blocked"
                        THEN {FALSE, needsFinish} ELSE {needsFinish}
    /\ UNCHANGED <<seen, settled, beat, nextPopup, counter>>

\* CAutoplayer::ExecutePrimaryFormulasIfNecessary with the mutex: f$fold is
\* true per default, so that there is something to be done.
Primary ==
    /\ pc = "primary" /\ pc' = "finish"
    /\ seen.chair /\ final
    /\ Send(Input("primary", 0))
    /\ needsFinish' = TRUE
    /\ UNCHANGED <<seen, settled, beat, nextPopup, counter>>

NoPrimary ==
    /\ pc = "primary" /\ GoOn("finish")
    /\ UNCHANGED <<seen, settled, beat, nextPopup, counter, needsFinish>>

\* CAutoplayer::FinishActionSequenceIfNecessary.
Finish ==
    /\ pc = "finish" /\ pc' = "scrape"
    /\ IF needsFinish THEN Reset /\ needsFinish' = FALSE
                      ELSE UNCHANGED <<counter, needsFinish>>
    /\ UNCHANGED <<seen, settled, beat, nextPopup, recent, did>>

Settle == /\ ~settled /\ settled' = TRUE
          /\ UNCHANGED <<seen, beat, nextPopup, counter, needsFinish, recent, did, pc>>

-----------------------------------------------------------------------------

Heartbeat == \/ Scrape \/ Evaluate \/ ClickPopup \/ NoPopup \/ Secondary
             \/ NoSecondary \/ Primary \/ NoPrimary \/ Finish

Next == Heartbeat \/ Settle

Spec == Init /\ [][Next]_vars

\* The heartbeat thread goes on for ever; the mutex is free again and again,
\* for every kind of input.
FairSpec == Spec /\ WF_vars(Heartbeat)
                 /\ SF_vars(ClickPopup) /\ SF_vars(Secondary) /\ SF_vars(Primary)

-----------------------------------------------------------------------------

Inputs == [what : {"nothing", "popup", "secondary", "primary"},
           button : 0 .. Popups - 1]

\* Type correctness.
TypeOK ==
    /\ seen \in Screens /\ settled \in BOOLEAN
    /\ beat \in 0 .. HeartbeatsToPause - 1 /\ nextPopup \in 0 .. Popups
    /\ saved \in Views /\ stable \in 0 .. FrameDelay
    /\ isReset \in BOOLEAN /\ final \in BOOLEAN /\ needsFinish \in BOOLEAN
    /\ recent \in Seq(Views) /\ Len(recent) <= FrameDelay + 1
    /\ did \in Inputs
    /\ pc \in {"scrape", "evaluate", "popup", "secondary", "primary", "finish"}

\* A primary action is only possible after FrameDelay + 1 frames with the
\* very view it is meant for, all of them scraped since the last input of any
\* kind: the casino may be slow to redraw, and a click of ours must never be
\* answered by another one that still sees the old buttons.
ActsOnStableView ==
    pc \in {"popup", "secondary", "primary"} /\ final
      => Len(recent) = FrameDelay + 1
         /\ \A i \in 1 .. Len(recent) : recent[i] = seen.view

\* An answer is never given twice to the same frames: between a primary input
\* and the input before it the counter was reset.
InputResets == pc = "scrape" /\ did # Nothing => isReset /\ stable = 0

\* Our turn is not slept through: where nothing changes any more and no popup
\* is in the way, a primary action follows, also with a secondary formula that
\* is true at every heartbeat (CAutoplayer.cpp:122-125).
PrimaryNotStarved ==
    settled /\ MyTurn /\ seen.chair /\ seen.popups = {} ~> did.what = "primary"

\* A popup that does not go away when it is clicked does not keep the others
\* from being clicked.
PopupsTakeTurns ==
    \A i \in 0 .. Popups - 1 :
      settled /\ i \in seen.popups ~> did.what = "popup" /\ did.button = i
=============================================================================
