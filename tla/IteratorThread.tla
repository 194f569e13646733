--------------------------- MODULE IteratorThread ---------------------------
(***************************************************************************)
(* The thread that simulates hands to estimate the chances to win          *)
(* (CIteratorThread), together with those who use it in the heartbeat      *)
(* thread: CSymbolEnginePrwin, which restarts it, CalculateFinalAnswer,    *)
(* which waits for it, and the command RECALC, which restarts it and waits *)
(* in the middle of a formula.                                             *)
(*                                                                         *)
(* The two threads share a handful of static variables and no lock.  The   *)
(* module composes the thread with the heartbeats of Autoplayer: every     *)
(* step is one of Autoplayer's or leaves its variables alone.              *)
(***************************************************************************)
EXTENDS Autoplayer, Integers, FiniteSets

CONSTANTS
    Cards,          \* what is known of our cards and the board, and ...
    NoCards,        \* ... that we have none
    CardsIn,        \* the cards of a view
    ButtonsIn,      \* its clickable autoplayer buttons
    Iterations,     \* f$prwin_number_of_iterations
    EnhancedCards,  \* where SET prw1326 lets the enhanced algorithm deal
    Collisions      \* where a hand range may hold nothing but dead cards

Buttons == {"fold", "call", "check", "raise", "allin"}

ASSUME CardAssumption == /\ NoCards \in Cards
                         /\ CardsIn \in [Views -> Cards]
                         /\ EnhancedCards \subseteq Cards
                         /\ Collisions \subseteq Cards
ASSUME ButtonAssumption == ButtonsIn \in [Views -> SUBSET Buttons]

\* Two visible buttons: CCasinoInterface::IsMyTurn, for which our cards do
\* not matter, unlike for CalculateFinalAnswer.
TurnViews == {v \in Views : Cardinality(ButtonsIn[v]) >= 2}

ASSUME TurnAssumption == MyTurnViews = {v \in TurnViews : CardsIn[v] # NoCards}

\* One iteration is no trial, and without a stable frame the answer is final
\* before the thread was asked.
ASSUME NumberAssumption == Iterations \in Nat \ {0, 1} /\ FrameDelay >= 1

VARIABLES
    bits,       \* _myturnbits
    changed,    \* _known_change_in_gamestate_since_last_prwin_calculation
    opponents,  \* nopponents_for_prwin is known: it is never less than 1
    epc,        \* where the heartbeat thread is in restart or wait
    recalc,     \* RECALC was commanded in this heartbeat
    tpc,        \* where the iterator thread is
    required,   \* _iterations_required
    calculated, \* _iterations_calculated
    loaded,     \* its value in the register of ++
    masks,      \* _plCards, _comCards
    tally,      \* _win, _tie, _los: how many trials, with which masks
    dealt,      \* enhanced_dealing_return is 0
    results,    \* _prwin, _prtie, _prlos: which tally, divided by what
    woken,      \* ghost: the thread has looked since the end of the heartbeat
    hasty,      \* ghost: restarted before the iterations were done, or late
    unnoticed,  \* ghost: other cards than the simulated ones, and no hint
    calm        \* ghost: from now on the table does not change

engineVars == <<bits, changed, opponents>>
shared == <<required, calculated, masks, tally, results>>
threadVars == <<tpc, loaded, dealt>>
all == <<vars, engineVars, epc, recalc, shared, threadVars,
         woken, hasty, unnoticed, calm>>

NoTally == [cards |-> {}, trials |-> 0]
NoResults == [over |-> NoTally, by |-> 0]
Undefined == [over |-> NoTally, by |-> -1]

IteratorThreadComplete == calculated >= required

IteratorThreadWorking == calculated > 0 /\ calculated < required

\* The trials are counted, and the results not yet published.
Publishing == IteratorThreadComplete /\ tpc # "look"

ThreadInit ==
    /\ Init
    /\ bits = {} /\ changed = TRUE /\ opponents = FALSE
    /\ epc = "idle" /\ recalc = FALSE
    /\ tpc = "look" /\ required = 0 /\ calculated = 0 /\ loaded = 0
    /\ masks = NoCards /\ tally = NoTally /\ dealt = TRUE /\ results = NoResults
    /\ woken = FALSE /\ hasty = FALSE /\ unnoticed = FALSE /\ calm = FALSE

-----------------------------------------------------------------------------
(* The iterator thread.                                                      *)

IsMyTurn(b) == b \cap {"fold", "call", "check"} # {}

Wake == woken' = (woken \/ pc = "scrape")

\* After Sleep(250): is there anything to be done?
Look ==
    /\ tpc = "look"
    /\ IF IteratorThreadComplete THEN Wake /\ UNCHANGED tpc
                                 ELSE tpc' = "busy" /\ UNCHANGED woken
    /\ UNCHANGED <<loaded, dealt, shared>>

\* "Set to 1 so it's clear the thread is busy".
Busy ==
    /\ tpc = "busy" /\ tpc' = "turn"
    /\ calculated' = 1 /\ results' = NoResults
    /\ Wake
    /\ UNCHANGED <<loaded, dealt, required, masks, tally>>

\* While the engine evaluates, the bits may be found cleared.
NotMyTurn ==
    /\ tpc = "turn" /\ tpc' = "look"
    /\ ~IsMyTurn(bits) \/ pc = "evaluate"
    /\ UNCHANGED <<loaded, dealt, shared, woken>>

Turn ==
    /\ tpc = "turn" /\ IsMyTurn(bits)
    /\ tpc' = IF IteratorThreadComplete THEN "look" ELSE "opponents"
    /\ UNCHANGED <<loaded, dealt, shared, woken>>

Opponents ==
    /\ tpc = "opponents"
    /\ IF opponents THEN tpc' = "trial" /\ calculated' = 1
                    ELSE tpc' = "look" /\ UNCHANGED calculated
    /\ UNCHANGED <<loaded, dealt, required, masks, tally, results, woken>>

UseEnhancedPrWin == CardsIn[seen.view] \in EnhancedCards

\* With the cards dealt to the other opponents a range may be exhausted at any
\* trial, or at none.
MayCollide == UseEnhancedPrWin /\ masks \in Collisions

\* One hand that is dealt and won, lost or tied.  Every thousandth time the
\* results so far are shown; then ++ reads the counter.
Trial ==
    /\ tpc = "trial" /\ calculated < required
    /\ tpc' = "store" /\ loaded' = calculated
    /\ dealt' = (dealt \/ UseEnhancedPrWin)
    /\ tally' = [cards |-> tally.cards \cup {masks}, trials |-> tally.trials + 1]
    /\ \/ UNCHANGED results
       \/ results' = [over |-> tally', by |-> calculated]
    /\ UNCHANGED <<required, calculated, masks, woken>>

\* The other half of ++, which is not atomic.
Store ==
    /\ tpc = "store" /\ tpc' = "trial"
    /\ calculated' = loaded + 1 /\ loaded' = 0
    /\ UNCHANGED <<dealt, required, masks, tally, results, woken>>

\* Mutant: the loop is left with the iterations it has.
CollideUncounted ==
    /\ tpc = "trial" /\ calculated < required /\ MayCollide
    /\ tpc' = "after" /\ dealt' = FALSE
    /\ results' = Undefined
    /\ UNCHANGED <<loaded, required, calculated, masks, tally, woken>>

\* EnhancedDealingAlgorithm finds nothing but dead cards for a chair.
Collide ==
    /\ tpc = "trial" /\ calculated < required /\ MayCollide
    /\ tpc' = "after" /\ dealt' = FALSE
    /\ results' = Undefined /\ calculated' = required
    /\ UNCHANGED <<loaded, required, masks, tally, woken>>

EndOfLoop ==
    /\ tpc = "trial" /\ calculated >= required /\ tpc' = "after"
    /\ UNCHANGED <<loaded, dealt, shared, woken>>

\* Mutant: the iterations of the last simulation count for the next one.
ResetResultsOnly == results' = NoResults /\ UNCHANGED calculated

ResetIteratorVars == results' = NoResults /\ calculated' = 0

\* "Computation stopped with some kind of error": restarted meanwhile.
AfterLoop ==
    /\ tpc = "after" /\ tpc' = "publish"
    /\ IF IteratorThreadComplete THEN UNCHANGED <<results, calculated>>
                                 ELSE ResetIteratorVars
    /\ UNCHANGED <<loaded, dealt, required, masks, tally, woken>>

\* UpdateIteratorVarsForDisplay, unless the last dealing has failed.
Publish ==
    /\ tpc = "publish" /\ tpc' = "look"
    /\ results' = IF dealt /\ IteratorThreadComplete
                  THEN [over |-> tally, by |-> calculated] ELSE results
    /\ UNCHANGED <<loaded, dealt, required, calculated, masks, tally, woken>>

IteratorThreadFunction ==
    /\ \/ Look \/ Busy \/ NotMyTurn \/ Turn \/ Opponents \/ Trial \/ Store
       \/ Collide \/ EndOfLoop \/ AfterLoop \/ Publish
    /\ UNCHANGED <<vars, engineVars, epc, recalc, hasty, unnoticed, calm>>

-----------------------------------------------------------------------------
(* Restarts, in the heartbeat thread.                                        *)

\* The command RECALC is given in a formula, restarts without UpdateOnMyTurn.
Commanded == pc \in {"secondary", "primary"}

\* InitIteratorLoop up to the counters: how many trials, no cards, no results.
InitIteratorLoop ==
    /\ epc = "init" /\ epc' = "masks"
    /\ required' = Iterations /\ masks' = NoCards /\ tally' = NoTally
    /\ hasty' = (calculated < Iterations \/ Publishing \/ (final /\ ~Commanded))
    /\ UNCHANGED <<engineVars, recalc, calculated, results, unnoticed>>

CardsToSimulate == IF seen.chair THEN CardsIn[seen.view] ELSE NoCards

\* The rest of it.
SetupMasks ==
    /\ epc = "masks" /\ epc' = "reset"
    /\ masks' = CardsToSimulate /\ unnoticed' = FALSE
    /\ UNCHANGED <<engineVars, recalc, required, calculated, tally, results, hasty>>

\* UpdateOnMyTurn goes on with CalculateNOpponents, which makes a difference
\* the first time.
AfterUpdateOnMyTurn == epc' = IF opponents THEN "idle" ELSE "opponents"

RestartDone ==
    /\ epc = "reset" /\ ResetIteratorVars
    /\ IF Commanded THEN epc' = "wait" /\ UNCHANGED changed
                    ELSE AfterUpdateOnMyTurn /\ changed' = FALSE
    /\ UNCHANGED <<bits, opponents, recalc, required, masks, tally,
                   hasty, unnoticed>>

CalculateNOpponents ==
    /\ epc = "opponents" /\ epc' = "idle" /\ opponents' = TRUE
    /\ UNCHANGED <<bits, changed, recalc, shared, hasty, unnoticed>>

\* SET prw1326_cmd RECALC, at most once in a heartbeat (bound).
Recalc ==
    /\ epc = "idle" /\ ~recalc
    /\ \/ pc = "secondary" /\ TimeForSecondary
       \/ pc = "primary" /\ seen.chair /\ final
    /\ recalc' = TRUE /\ epc' = "init"
    /\ UNCHANGED <<engineVars, shared, hasty, unnoticed>>

\* Busy waiting until the recalculation got finished.
RecalcIsDone ==
    /\ epc = "wait" /\ IteratorThreadComplete /\ epc' = "idle"
    /\ UNCHANGED <<engineVars, recalc, shared, hasty, unnoticed>>

Restarting ==
    /\ \/ InitIteratorLoop \/ SetupMasks \/ RestartDone
       \/ CalculateNOpponents \/ RecalcIsDone
    /\ UNCHANGED <<vars, threadVars, woken, calm>>

-----------------------------------------------------------------------------
(* The heartbeats of Autoplayer; "settled" is never used.                    *)

\* The sleep of the heartbeat thread (at least 375 ms with the defaults) is
\* longer than Sleep(250): a thread that is not dealing has looked meanwhile.
Timely == woken \/ tpc \in {"trial", "store"}

TimelyScrape ==
    /\ Scrape /\ Timely /\ (calm => seen' = seen)
    /\ recalc' = FALSE /\ woken' = FALSE
    /\ UNCHANGED <<engineVars, epc, shared, hasty, unnoticed>>

IsFirstHeartbeatOfMyTurn == IsMyTurn(bits') /\ bits = {}

\* Mutant: once more at every heartbeat of our turn.
StartNeededAlways == changed' \/ IsMyTurn(bits')

StartOfPrWinComputationsNeeded == changed' \/ IsFirstHeartbeatOfMyTurn

\* CSymbolEnginePrwin::UpdateOnMyTurn, up to the restart.
UpdateOnMyTurn == IF StartOfPrWinComputationsNeeded THEN epc' = "init"
                                                    ELSE AfterUpdateOnMyTurn

\* The engines in their order: myturnbits and the final answer, then what the
\* prwin engine is told: new hands and rounds, noticed or not, and our turn.
EvaluateAll ==
    /\ \E delay, noticed \in IF calm THEN {FALSE} ELSE BOOLEAN :
         /\ CalculateFinalAnswer(IteratorThreadWorking, delay)
         /\ changed' = (changed \/ noticed)
    /\ bits' = ButtonsIn[seen.view]
    /\ unnoticed' = (unnoticed \/ (masks # CardsToSimulate /\ ~changed'))
    /\ IF seen.view \in TurnViews THEN UpdateOnMyTurn ELSE UNCHANGED epc
    /\ UNCHANGED <<opponents, recalc, shared, woken, hasty>>

\* A prefold among the secondary actions is one of ours, too.
Act ==
    /\ \/ (ClickPopup \/ NoPopup \/ NoSecondary \/ NoPrimary) /\ UNCHANGED changed
       \/ Secondary /\ changed' \in IF calm THEN {changed} ELSE {changed, TRUE}
       \/ Primary /\ changed' = TRUE
    /\ UNCHANGED <<bits, opponents, epc, recalc, shared, woken, hasty,
                   unnoticed>>

EndOfHeartbeat ==
    /\ Finish
    /\ UNCHANGED <<engineVars, epc, recalc, shared, woken, hasty, unnoticed>>

Beat == /\ epc = "idle"
        /\ TimelyScrape \/ EvaluateAll \/ Act \/ EndOfHeartbeat
        /\ UNCHANGED <<threadVars, calm>>

HeartbeatThread == Beat \/ Restarting

Command == Recalc /\ UNCHANGED <<vars, threadVars, woken, calm>>

Calm == /\ ~calm /\ calm' = TRUE
        /\ UNCHANGED <<vars, engineVars, epc, recalc, shared, threadVars,
                       woken, hasty, unnoticed>>

-----------------------------------------------------------------------------

ThreadNext == HeartbeatThread \/ Command \/ IteratorThreadFunction \/ Calm

ThreadSpec == ThreadInit /\ [][ThreadNext]_all

\* Both threads go on for ever; the mutex is free again and again, and the
\* thread does not always look in the instant in which the bits are cleared.
FairThreadSpec == /\ ThreadSpec
                  /\ WF_all(HeartbeatThread) /\ WF_all(IteratorThreadFunction)
                  /\ SF_all(Beat /\ Primary) /\ SF_all(IteratorThreadFunction /\ Turn)

-----------------------------------------------------------------------------

\* The primary formulas are about to be evaluated.
Deciding == pc = "primary" /\ epc = "idle" /\ seen.chair /\ final

\* All trials with these cards, and none with others.  There is one trial less
\* than what they are divided by.
ResultsOf(cards) == [over |-> [cards |-> {cards}, trials |-> Iterations - 1],
                     by |-> Iterations]

\* A decision is based on the complete results for the very cards it is made
\* for, or on the undefined ones where the ranges may collide; never on those of
\* the hand before, on an interim state or on the zeroes of a restart that the
\* thread has not yet noticed.  Three things can break it: a restart that came
\* before the simulation was done or after the answer was final, cards whose
\* change nobody noticed, and the instant between the last trial and the results.
DecidesOnResults ==
    Deciding /\ ~hasty /\ ~unnoticed /\ ~Publishing
      => \/ results = ResultsOf(CardsToSimulate)
         \/ results = Undefined /\ CardsToSimulate \in Collisions

\* A command RECALC that is given in our turn does not block the heartbeat
\* for ever (CParseTreeTerminalNodeUserVariable.cpp:110).
RecalcReturns == epc = "wait" /\ IsMyTurn(bits) /\ opponents ~> epc # "wait"

\* The simulations leave time for the decision: where the table does not
\* change any more, our turn is answered, restarts and RECALCs included.
TurnIsAnswered ==
    calm /\ MyTurn /\ IsMyTurn(ButtonsIn[seen.view]) /\ seen.chair
         /\ seen.popups = {}
      ~> did.what = "primary"
=============================================================================
