---------------------------- MODULE PrimaryAction ----------------------------
(***************************************************************************)
(* From the decision of an OpenPPL bot to inputs at the table: one call of *)
(* CAutoplayerFunctions::CalcPrimaryFormulas and of                        *)
(* CAutoplayer::ExecutePrimaryFormulasIfNecessary.                         *)
(*                                                                         *)
(* The decision turns autoplayer functions (f$allin, f$raise, ...) on, a   *)
(* chain of backup actions turns further ones on, and the autoplayer tries *)
(* what is on in a fixed order until one attempt reports success.  How an  *)
(* amount is entered is the business of BetsizeEntry.  What an entry can   *)
(* lead to is taken from there: it may have bet nothing, the amount, the   *)
(* raise button's own bet or a wrong amount, whether it reports success or *)
(* not.  And it leaves the amount it typed in f$betsize, which is then on. *)
(***************************************************************************)
EXTENDS Naturals, Sequences

CONSTANT PotButtons   \* the sets of betpot buttons that can be there

BetPots == <<"betpot_2_1", "betpot_1_1", "betpot_3_4", "betpot_2_3",
             "betpot_1_2", "betpot_1_3", "betpot_1_4">>

Pots == {BetPots[i] : i \in 1 .. Len(BetPots)}

ASSUME PotButtonAssumption == PotButtons \subseteq SUBSET Pots

Buttons == {"fold", "call", "check", "raise", "allin"}

\* What a bot can decide.  "betsize" is a positive number of big blinds or a
\* percentage of the pot, "undefined" no decision at all, and "none" a value
\* that matches no action (or a betting round out of range).
Decisions == Buttons \cup Pots \cup {"betsize", "beep", "undefined", "none"}

VARIABLES
    table,      \* what was scraped, and the methods the table map asks for
    decision,   \* what f$preflop .. f$river returned
    on,         \* the autoplayer functions that evaluate to true
    size,       \* the amount f$betsize evaluates to, if it is on
    pc,         \* what is tried next
    pot,        \* the next betpot function to be looked at
    inputs,     \* the bets and clicks that reached the table
    registered  \* the action given to UpdateAfterAutoplayerAction, or "none"

vars == <<table, decision, on, size, pc, pot, inputs, registered>>

\* Which amounts are adjusted to allin: none, at most some that an entry left
\* in f$betsize, or what the bot decided to bet as well.
Adjusts == {"never", "entered", "decided"}

Tables == [buttons : SUBSET Buttons, pots : PotButtons,
           owed : BOOLEAN,      \* the symbol call is positive
           slider : BOOLEAN,    \* i3slider and i3handle are there
           box : BOOLEAN,       \* i3edit and i3state are there
           adjust : Adjusts,
           twice : BOOLEAN]     \* allin and betpot need the raise button, too

\* CalculateFinalAnswer has seen enough buttons for our turn.
OurTurn(t) == \E a, b \in t.buttons : a # b

Init == /\ table \in {t \in Tables : OurTurn(t)}
        /\ decision \in Decisions
        /\ on = {} /\ size = "betsize" /\ pc = "decide" /\ pot = 1
        /\ inputs = {} /\ registered = "none"

-----------------------------------------------------------------------------
(* The decision and its backups.                                           *)

\* Mutant: f$check is not true per default.
DefaultsFoldOnly == {"fold"}

\* f$fold is 1 per default, f$check is (call == 0).
Defaults == {"fold"} \cup (IF table.owed THEN {} ELSE {"check"})

Translated == CASE decision = "undefined" -> {"check", "fold"}
                [] decision = "none" -> {}
                [] OTHER -> {decision}

\* Action turns backup on.
AddBackup(functions, action, backup) ==
    IF action \in functions THEN functions \cup {backup} ELSE functions

\* Allin -> BetPot -> ... -> 1/4 BetPot -> Raise, and f$betsize -> Raise.
RaiseBackups(functions) ==
    LET pot11 == AddBackup(functions, "allin", "betpot_1_1")
        pot34 == AddBackup(pot11, "betpot_1_1", "betpot_3_4")
        pot23 == AddBackup(pot34, "betpot_3_4", "betpot_2_3")
        pot12 == AddBackup(pot23, "betpot_2_3", "betpot_1_2")
        pot13 == AddBackup(pot12, "betpot_1_2", "betpot_1_3")
        pot14 == AddBackup(pot13, "betpot_1_3", "betpot_1_4")
        raise == AddBackup(pot14, "betpot_1_4", "raise")
    IN  AddBackup(raise, "betsize", "raise")

\* Only fold and allin can be clicked.
FoldAllin == table.buttons = {"fold", "allin"}

\* Mutant: the link between raise and call is missing.
CallBackupsNoRaise(functions) ==
    LET check == AddBackup(functions, "call", "check")
        allin == IF FoldAllin THEN AddBackup(check, "call", "allin") ELSE check
    IN  AddBackup(allin, "check", "fold")

\* Raise -> Call -> Check -> Fold, and Call -> Allin if nothing else is left.
CallBackups(functions) ==
    LET call  == AddBackup(functions, "raise", "call")
        check == AddBackup(call, "call", "check")
        allin == IF FoldAllin THEN AddBackup(check, "call", "allin") ELSE check
    IN  AddBackup(allin, "check", "fold")

WithBackups(functions) ==
    IF "beep" \in functions THEN functions \ {"check", "fold"}
    ELSE CallBackups(RaiseBackups(functions))

\* CalcPrimaryFormulas, AnyPrimaryFormulaTrue and the mutex of all instances.
Decide == /\ pc = "decide"
          /\ on' = WithBackups(Defaults \cup Translated)
          /\ pc' \in IF on' = {} THEN {"over"} ELSE {"allin", "no mutex"}
          /\ UNCHANGED <<table, decision, size, pot, inputs, registered>>

-----------------------------------------------------------------------------
(* Attempts.  Each says whether it reports success, what it has sent, and  *)
(* which amount it left in f$betsize.                                      *)

Attempt(success, sent) == [success |-> success, sent |-> sent, typed |-> "none"]

\* CAutoplayerButton::Click on the button seen.
Click(button) == {Attempt(TRUE, {button})}

NotClickable == {Attempt(FALSE, {})}

\* ClickButtonSequence: between the clicks the focus may be lost, and the
\* second button may not be there.
ClickSequence(button) ==
    {Attempt(FALSE, {button})} \cup
      (IF "raise" \in table.buttons THEN {Attempt(TRUE, {button})} ELSE {})

ClickOrSequence(button, there) ==
    IF ~there THEN NotClickable
    ELSE IF table.twice THEN ClickSequence(button) ELSE Click(button)

\* What an entry comes to.  A wrong amount is one that stood in the box
\* before, or that with the new one behind it, or a handle that stuck.
Entry(amount, typed) ==
    [success : BOOLEAN, sent : SUBSET {amount, "raise", "wrong"}, typed : {typed}]

\* CBetSlider: the bet is confirmed by the raise button only.
Slide(what) == IF table.slider /\ "raise" \in table.buttons
               THEN Entry(what, "none") ELSE NotClickable

\* Mutant: the adjustment returns the maximum instead of what lies in range.
AdjustedToMaximum(what) == {what, "raise", "allin"}

\* AdjustedBetsize: the amount, rounded and cut down to what can be bet, or
\* the minimum raise if the amount is less than that.
Adjusted(what) == {what, "raise"}

\* CBetsizeInputBox::EnterBetsize.  The adjusted amount is typed, and left in
\* f$betsize; or the focus was never there to type it.
Box(what) ==
    IF table.box /\ "raise" \in table.buttons
    THEN Entry("wrong", "none") \cup UNION {Entry(t, t) : t \in Adjusted(what)}
    ELSE NotClickable

\* The second attempt is made only if the first one failed.
Else(first, second) ==
    {a \in first : a.success} \cup
      {[success |-> b.success, sent |-> a.sent \cup b.sent,
        typed |-> IF b.typed = "none" THEN a.typed ELSE b.typed] :
         a \in {x \in first : ~x.success}, b \in second}

\* CAutoplayer::DoAllin.
DoAllin == Else(ClickOrSequence("allin", "allin" \in table.buttons),
                Else(Slide("allin"), Box("allin")))

\* Register the action, or go on with what comes next.
Do(attempts, action, otherwise) ==
    \E a \in attempts :
      /\ inputs' = inputs \cup a.sent
      /\ IF a.typed = "none" THEN UNCHANGED <<on, size>>
                             ELSE on' = on \cup {"betsize"} /\ size' = a.typed
      /\ IF a.success THEN registered' = action /\ pc' = "over"
                      ELSE registered' = registered /\ pc' = otherwise

Skip(next) == pc' = next /\ UNCHANGED <<on, size, inputs, registered>>

Allin == /\ pc = "allin"
         /\ IF "allin" \in on THEN Do(DoAllin, "allin", "betpot")
                              ELSE Skip("betpot")
         /\ UNCHANGED <<table, decision, pot>>

\* CAutoplayer::DoBetPot, one betpot function a step.  After an adjustment to
\* allin it returns whatever DoAllin does.
BetPot ==
    /\ pc = "betpot" /\ pot <= Len(BetPots)
    /\ LET p == BetPots[pot] IN
         \/ p \notin on /\ Skip("betpot") /\ pot' = pot + 1
         \/ /\ p \in on /\ table.adjust = "decided"
            /\ Do(DoAllin, "allin", "betsize")
            /\ pot' = pot
         \/ /\ p \in on /\ table.adjust # "decided"
            /\ Do(Else(ClickOrSequence(p, p \in table.pots), Box(p)),
                  "betsize", "betpot")
            /\ pot' = pot + 1
    /\ UNCHANGED <<table, decision>>

NoBetPot == /\ pc = "betpot" /\ pot > Len(BetPots)
            /\ Skip("betsize")
            /\ UNCHANGED <<table, decision, pot>>

\* Whether ChangeBetsizeToAllin may say so of f$betsize: of the amount decided
\* as the table has it, of an entered one either way, unless it is off.
ToAllin == IF size = "betsize" THEN {table.adjust = "decided"}
                               ELSE {FALSE, table.adjust # "never"}

\* CAutoplayer::DoBetsize, for the amount decided, or the one that an entry
\* for another function left behind.
DoBetsize ==
    /\ pc = "betsize"
    /\ IF "betsize" \notin on THEN Skip("raise")
       ELSE \E toAllin \in ToAllin :
              IF toAllin THEN Do(DoAllin, "allin", "raise")
                         ELSE Do(Else(Slide(size), Box(size)), "betsize", "raise")
    /\ UNCHANGED <<table, decision, pot>>

Following == [raise |-> "call", call |-> "check", check |-> "fold",
              fold |-> "over"]

\* Mutant: a bet to call ends the loop instead of skipping f$check.
CheckOwedEnds ==
    /\ pc \in DOMAIN Following
    /\ IF pc = "check" /\ table.owed THEN Skip("over")
       ELSE IF pc \in on /\ pc \in table.buttons THEN Do(Click(pc), pc, "over")
       ELSE Skip(Following[pc])
    /\ UNCHANGED <<table, decision, pot>>

\* CAutoplayer::ExecuteRaiseCallCheckFold, one function a step.
RaiseCallCheckFold ==
    /\ pc \in DOMAIN Following
    /\ IF pc \in on /\ pc \in table.buttons /\ ~(pc = "check" /\ table.owed)
       THEN Do(Click(pc), pc, "over")
       ELSE Skip(Following[pc])
    /\ UNCHANGED <<table, decision, pot>>

-----------------------------------------------------------------------------

Next == \/ Decide \/ Allin \/ BetPot \/ NoBetPot \/ DoBetsize
        \/ RaiseCallCheckFold

Spec == Init /\ [][Next]_vars

-----------------------------------------------------------------------------
(* Properties.                                                             *)

Pcs == {"decide", "allin", "betpot", "betsize", "over", "no mutex"}
         \cup DOMAIN Following

\* Type correctness.
TypeOK == /\ table \in Tables /\ decision \in Decisions
          /\ on \subseteq Decisions \ {"undefined", "none"}
          /\ size \in Pots \cup {"betsize", "allin", "raise"}
          /\ pc \in Pcs /\ pot \in 1 .. Len(BetPots) + 1
          /\ inputs \subseteq Buttons \cup Pots \cup {"betsize", "wrong"}
          /\ registered \in Buttons \cup {"betsize", "none"}

\* How much an input or a decision puts at stake, at least: the betpots are
\* ordered among themselves, and an amount may be anything up to allin.  The
\* minimum raise is the least of all raises, also of those that are entered:
\* for an amount below it AdjustedBetsize types the minimum.
Stakes == [check |-> 0, fold |-> 0, beep |-> 0, undefined |-> 0, none |-> 0,
           call |-> 1, raise |-> 2,
           betpot_1_4 |-> 3, betpot_1_3 |-> 4, betpot_1_2 |-> 5,
           betpot_2_3 |-> 6, betpot_3_4 |-> 7, betpot_1_1 |-> 8,
           betpot_2_1 |-> 9, betsize |-> 10, allin |-> 11, wrong |-> 12]

Stake(a) == Stakes[a]

\* Whatever fails and whichever backup is tried, no input puts more at stake
\* than the bot decided to: the backups only go down, and the amount that an
\* entry for another function leaves in f$betsize (CBetsizeInputBox.cpp 105),
\* on which DoBetsize then bets again, is never more either.  Two exceptions
\* are meant: a bet adjusted to allin, and a call that is only possible by
\* going allin (CalculateOpenPPLBackupActions).  The third is not: a wrong
\* amount, which only an entry can bet, and only where a raise by an amount
\* was decided.
NeverMoreThanDecided ==
    \A i \in inputs :
      \/ Stake(i) <= Stake(decision)
      \/ i = "allin" /\ table.adjust # "never" /\ decision \in Pots \cup {"betsize"}
      \/ table.buttons = {"fold", "allin"} /\ Stake(decision) >= 1
      \/ /\ i = "wrong" /\ (table.slider \/ table.box)
         /\ decision \in Pots \cup {"betsize", "allin"}

\* With a fold button to be seen and the mutex some action is taken, whatever
\* the decision was: missing actions would be time-outs (the comment in
\* AnyPrimaryFormulaTrue).  Only beep stands alone.
ActsInTime == pc = "over" /\ "fold" \in table.buttons /\ decision # "beep"
                => registered # "none"

\* A hand is never folded for free: even a bot that decides to fold checks
\* when it can, because f$check is true per default (call == 0).
NeverFoldsForFree ==
    ~table.owed /\ "check" \in table.buttons => registered # "fold"

RaisesDecided == {"raise", "betsize", "allin"} \cup Pots

\* A raise that is not possible becomes a call, never a fold: every decision
\* to raise except RaiseTwoPot is backed by a chain that ends in a call.
RaisesAreBacked ==
    decision \in RaisesDecided \ {"betpot_2_1"} /\ "call" \in table.buttons
      => registered # "fold"
=============================================================================
