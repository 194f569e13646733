---------------------------- MODULE BetsizeEntry ----------------------------
(***************************************************************************)
(* How the autoplayer enters a betsize into the window of a table:         *)
(* CAutoplayer::DoBetsize tries the slider (CBetSlider::SlideBetsize) and, *)
(* where that fails, the input box (CBetsizeInputBox::EnterBetsize).  Both *)
(* work on a window that other programs may cover at any time, look at the *)
(* focus between their inputs and retry a bounded number of times.         *)
(*                                                                         *)
(* The windows are the environment: another window may come to the front   *)
(* between two steps, SetForegroundWindow may or may not bring the table   *)
(* back, and an input sent while another window has the focus may or may   *)
(* not reach the table.  Mouse, keyboard and windows belong to Win32 and   *)
(* are modelled by the way the code uses them.                             *)
(***************************************************************************)
EXTENDS Naturals, Sequences

CONSTANT MaxAttempts    \* 5, hard-coded in every loop

ASSUME MaxAttemptsAssumption == MaxAttempts \in Nat \ {0, 1}

Confirmations == {"enter", "click bet", "nothing", "invalid"}

\* How the table map says the old amount is selected.  A double or triple click
\* and a click with a drag mark the text, a single click may do so or not, and
\* "nothing" does nothing, which is also what an invalid method comes to.
Selections == {"mark", "sgl click", "nothing"}

Setups == [confirmation : Confirmations, selection : Selections,
           deletes : BOOLEAN,       \* deletion by delete or backspace
           prefilled : BOOLEAN,     \* the casino shows an amount of its own
           slider : BOOLEAN, box : BOOLEAN, clickable : BOOLEAN]

\* "old" is the amount found, or what is left of it; "mixed" is any text made of
\* another one and ours, or of a part of ours.
Amounts == {"old", "empty", "ours", "mixed"}
Steps == {"look", "select", "slide", "slid", "clear", "type", "typed",
          "decide", "confirm", "confirmed", "end", "done", "failed"}

VARIABLES
    setup,      \* the table map: its methods, and are there a slider and an input
                \* box; and what the table shows: an old amount, a raise button
    tool,       \* which of the two is at work: "slider", then "box"
    pc,         \* the next step of the autoplayer thread
    looks,      \* how often IsReadyToBeUsed has still to look
    tries,      \* swag_attempts
    confirms,   \* betconf_attempts
    lost,       \* lost_focus
    selected,   \* the old amount is selected
    amount,     \* what the table would bet
    orders,     \* the amounts at the confirmations that reached the table
    losses,     \* confirmations after which the focus was found lost
    early,      \* clicks on the raise button before anything was entered
    front,      \* the table is the foreground window
    quiet       \* no other window came to the front so far

vars == <<setup, tool, pc, looks, tries, confirms, lost, selected,
          amount, orders, losses, early, front, quiet>>

Init == /\ setup \in Setups
        /\ tool = "slider" /\ pc = "look" /\ looks = 1
        /\ tries = 0 /\ confirms = 0 /\ lost = FALSE /\ selected = FALSE
        /\ amount = (IF setup.prefilled THEN "old" ELSE "empty") /\ orders = << >> /\ losses = 0 /\ early = 0
        /\ front = TRUE /\ quiet = TRUE

-----------------------------------------------------------------------------
(* The environment.                                                        *)

\* Another window comes to the front, at any time before the bet is over.
PopUp == /\ pc \notin {"done", "failed"}
         /\ front' = FALSE /\ quiet' = FALSE
         /\ UNCHANGED <<setup, tool, pc, looks, tries, confirms, lost,
                        selected, amount, orders, losses, early>>

\* SetFocus, SetForegroundWindow, SetActiveWindow: Windows may refuse.
Foreground == front' \in {front, TRUE}

\* An input reaches the table if the table has the focus, else perhaps.
Lands(reached) == front => reached

-----------------------------------------------------------------------------
(* How a tool starts and ends.                                             *)

\* The slider gives up: the input box is next, through CCasinoInterface::
\* EnterBetsize, which asks IsReadyToBeUsed once more than the box does.
GiveUp ==
    \/ /\ tool = "slider"
       /\ tool' = "box" /\ pc' = "look" /\ looks' = 2
       /\ tries' = 0 /\ confirms' = 0 /\ lost' = FALSE
    \/ /\ tool = "box"
       /\ pc' = "failed"
       /\ UNCHANGED <<tool, looks, tries, confirms, lost>>

\* No such tool in the table map, or (CBetsizeInputBox::EnterBetsize) no raise
\* button to be seen.
Unusable == \/ tool = "slider" /\ ~setup.slider
            \/ tool = "box" /\ (setup.box => looks = 1 /\ ~setup.clickable)

Usable == /\ looks' = looks - 1
          /\ pc' = IF looks > 1 THEN "look"
                   ELSE IF tool = "box" THEN "select" ELSE "slide"
          /\ UNCHANGED <<tool, tries, confirms, lost>>

\* Can the tool be used?  Where the bet is confirmed with the raise button
\* and the screen (i3state, i3handle) does not say that the bet can be edited,
\* the raise button is clicked and the screen is read again.
Look ==
    /\ pc = "look"
    /\ \E lit, after \in BOOLEAN :
         IF Unusable
         THEN GiveUp /\ UNCHANGED early
         ELSE IF setup.confirmation # "click bet" \/ (setup.clickable /\ lit)
         THEN Usable /\ UNCHANGED early
         ELSE /\ early' = IF setup.clickable THEN early + 1 ELSE early
              /\ IF setup.clickable /\ after THEN Usable ELSE GiveUp
    /\ UNCHANGED <<setup, selected, amount, orders, losses, front, quiet>>

-----------------------------------------------------------------------------
(* The entry loop: while (++swag_attempts == 1 || lost_focus).             *)

\* The focus was found lost during an attempt to enter the bet.
EntryLost ==
    /\ lost' = TRUE
    /\ pc' = IF tries < MaxAttempts
             THEN (IF tool = "box" THEN "select" ELSE "slide") ELSE "decide"
    /\ UNCHANGED <<tool, looks, tries, confirms>>

\* The attempt is taken for a success: the loop's condition counts once more.
EntryDone == /\ pc' = "decide" /\ tries' = tries + 1
             /\ UNCHANGED <<tool, looks, confirms, lost>>

\* Mutant: the number of clicks is lost on the way, and all methods click once.
SelectClicksOnce ==
    /\ pc = "select"
    /\ tries' = tries + 1 /\ lost' = FALSE
    /\ IF setup.selection = "nothing" THEN UNCHANGED selected
       ELSE selected' \in BOOLEAN
    /\ pc' = "clear"
    /\ UNCHANGED <<setup, tool, looks, confirms, amount, orders, losses, early,
                   front, quiet>>

\* CBetsizeInputBox::SelectText, before any look at the focus.
Select == /\ pc = "select"
          /\ tries' = tries + 1 /\ lost' = FALSE
          /\ \E reached \in BOOLEAN :
               /\ Lands(reached)
               /\ selected' \in
                    IF ~reached \/ setup.selection = "nothing" THEN {selected}
                    ELSE IF setup.selection = "mark" THEN {TRUE} ELSE BOOLEAN
          /\ pc' = "clear"
          /\ UNCHANGED <<setup, tool, looks, confirms, amount, orders, losses,
                         early, front, quiet>>

\* What is left after the key: nothing of a selected text, while a character is
\* deleted from one that is not selected, which may have had no other.
Deleted == IF selected \/ amount = "empty" THEN {"empty"}
           ELSE {"empty", IF amount = "ours" THEN "mixed" ELSE amount}

\* Focus, look, and delete, if the table map says so: a selected text "will be
\* overwritten" anyway.
Clear == /\ pc = "clear"
         /\ Foreground
         /\ IF front'
            THEN /\ pc' = "type"
                 /\ IF setup.deletes
                    THEN amount' \in Deleted /\ selected' = FALSE
                    ELSE UNCHANGED <<amount, selected>>
                 /\ UNCHANGED <<tool, looks, tries, confirms, lost>>
            ELSE EntryLost /\ UNCHANGED <<amount, selected>>
         /\ UNCHANGED <<setup, orders, losses, early, quiet>>

\* Focus, look, and type the amount over what is selected or behind what is
\* left; a window may come up while it is typed.
Type == /\ pc = "type"
        /\ Foreground
        /\ IF front'
           THEN /\ pc' = "typed"
                /\ amount' = IF selected \/ amount = "empty" THEN "ours" ELSE "mixed"
                /\ selected' = FALSE
                /\ UNCHANGED <<tool, looks, tries, confirms, lost>>
           ELSE EntryLost /\ UNCHANGED <<amount, selected>>
        /\ UNCHANGED <<setup, orders, losses, early, quiet>>

Interrupted == /\ pc = "type" /\ pc' = "typed"
               /\ front' = FALSE /\ quiet' = FALSE
               /\ amount' = "mixed" /\ selected' = FALSE
               /\ UNCHANGED <<setup, tool, looks, tries, confirms, lost,
                              orders, losses, early>>

\* Look again after typing.
Typed == /\ pc = "typed"
         /\ IF front THEN EntryDone ELSE EntryLost
         /\ UNCHANGED <<setup, selected, amount, orders, losses, early, front,
                        quiet>>

\* Mutant: the attempts of the slider are not counted.
SlideUncounted ==
    /\ pc = "slide"
    /\ lost' = FALSE
    /\ \E reached \in BOOLEAN :
         Lands(reached) /\ amount' = IF reached THEN "ours" ELSE amount
    /\ pc' = "slid"
    /\ UNCHANGED <<setup, tool, looks, tries, confirms, selected, orders,
                   losses, early, front, quiet>>

\* CBetSlider::SlideBetsize drags the handle ...
Slide == /\ pc = "slide"
         /\ tries' = tries + 1 /\ lost' = FALSE
         /\ \E reached \in BOOLEAN :
              Lands(reached) /\ amount' = IF reached THEN "ours" ELSE amount
         /\ pc' = "slid"
         /\ UNCHANGED <<setup, tool, looks, confirms, selected, orders, losses,
                        early, front, quiet>>

\* ... and looks at the focus afterwards; out of attempts it returns false.
Slid == /\ pc = "slid"
        /\ Foreground
        /\ IF front' THEN EntryDone
           ELSE IF tries < MaxAttempts THEN EntryLost ELSE GiveUp
        /\ UNCHANGED <<setup, selected, amount, orders, losses, early, quiet>>

-----------------------------------------------------------------------------
(* The confirmation loop: if (swag_attempts <= 5)                          *)
(*                          while (++betconf_attempts == 1 || lost_focus). *)

Decide == /\ pc = "decide"
          /\ pc' = IF tries <= MaxAttempts THEN "confirm" ELSE "end"
          /\ UNCHANGED <<setup, tool, looks, tries, confirms, lost, selected,
                         amount, orders, losses, early, front, quiet>>

\* The focus was found lost before or after confirmation n.
ConfirmLost(n) ==
    IF n < MaxAttempts
    THEN /\ pc' = "confirm" /\ lost' = TRUE /\ confirms' = n
         /\ UNCHANGED <<tool, looks, tries>>
    ELSE IF tool = "slider" THEN GiveUp
    ELSE /\ pc' = "end" /\ lost' = TRUE /\ confirms' = n
         /\ UNCHANGED <<tool, looks, tries>>

\* How the table map says a bet is confirmed; the slider knows one way only.
ByClick == setup.confirmation = "click bet" /\ setup.clickable
ByKey == tool = "box" /\ setup.confirmation = "enter"
ByNothing == tool = "box" /\ setup.confirmation = "nothing"

\* Focus, look, and confirm the bet.
Confirm ==
    /\ pc = "confirm"
    /\ Foreground
    /\ IF ~front' THEN ConfirmLost(confirms + 1) /\ UNCHANGED orders
       ELSE IF ByClick \/ ByKey
       THEN /\ pc' = "confirmed" /\ lost' = FALSE /\ confirms' = confirms + 1
            /\ orders' = Append(orders, amount)
            /\ UNCHANGED <<tool, looks, tries>>
       ELSE IF ByNothing
       THEN /\ pc' = "end" /\ lost' = FALSE /\ confirms' = confirms + 1
            /\ UNCHANGED <<tool, looks, tries, orders>>
       ELSE GiveUp /\ UNCHANGED orders
    /\ UNCHANGED <<setup, selected, amount, losses, early, quiet>>

\* Look at the focus after the confirmation; only the slider asks for it first.
Confirmed ==
    /\ pc = "confirmed"
    /\ IF tool = "slider" THEN Foreground ELSE front' = front
    /\ IF front'
       THEN /\ pc' = "end"
            /\ UNCHANGED <<tool, looks, tries, confirms, lost, losses>>
       ELSE losses' = losses + 1 /\ ConfirmLost(confirms)
    /\ UNCHANGED <<setup, selected, amount, orders, early, quiet>>

\* Mutant: the box forgets that the last confirmation went well.
EndAlwaysFails ==
    /\ pc = "end"
    /\ pc' = IF tool = "box" THEN "failed" ELSE "done"
    /\ UNCHANGED <<setup, tool, looks, tries, confirms, lost, selected,
                   amount, orders, losses, early, front, quiet>>

\* The box returns !lost_focus, the slider true.
End == /\ pc = "end"
       /\ pc' = IF tool = "box" /\ lost THEN "failed" ELSE "done"
       /\ UNCHANGED <<setup, tool, looks, tries, confirms, lost, selected,
                      amount, orders, losses, early, front, quiet>>

-----------------------------------------------------------------------------

Autoplayer == \/ Look \/ Select \/ Clear \/ Type \/ Typed \/ Slide \/ Slid
              \/ Decide \/ Confirm \/ Confirmed \/ End

Over == pc \in {"done", "failed"} /\ UNCHANGED vars

Next == Autoplayer \/ Interrupted \/ PopUp \/ Over

Spec == Init /\ [][Next]_vars

\* The autoplayer runs in one thread and never waits for anything but Sleep.
FairSpec == Spec /\ WF_vars(Autoplayer)

-----------------------------------------------------------------------------

FlagsOK == /\ lost \in BOOLEAN /\ selected \in BOOLEAN
           /\ front \in BOOLEAN /\ quiet \in BOOLEAN

\* Types, and the bounds of every loop: at most MaxAttempts attempts (counted
\* once more by a loop that ends well) and at most MaxAttempts confirmations
\* for each of the two tools.
TypeOK ==
    /\ setup \in Setups
    /\ tool \in {"slider", "box"} /\ pc \in Steps /\ looks \in 0 .. 2
    /\ tries \in 0 .. MaxAttempts + 1 /\ confirms \in 0 .. MaxAttempts
    /\ FlagsOK
    /\ amount \in Amounts /\ orders \in Seq(Amounts)
    /\ Len(orders) <= 2 * MaxAttempts
    /\ losses \in Nat /\ early \in 0 .. 3

\* Typing replaces whatever the box shows: the table map's selection marks it,
\* or there is nothing before (no amount of the casino's, none of a slider's).
Replaces == setup.selection = "mark" \/ (~setup.prefilled /\ ~setup.slider)

\* With no other window about, a bet reported as made was confirmed exactly
\* once, and after a failure, which is followed by a backup action, nothing was
\* confirmed at all.  What was confirmed is an amount that was entered, never
\* the one found in the box; and it is exactly ours by the slider and for every
\* table map whose entry replaces the old text, but not for one that neither
\* marks nor finds the box empty: the new amount is then typed behind the old.
QuietEntryIsExact ==
    quiet => /\ pc = "done" /\ setup.confirmation # "nothing"
                  => /\ orders \in {<<"ours">>, <<"mixed">>}
                     /\ tool = "slider" \/ Replaces => orders = <<"ours">>
             /\ pc = "failed" => orders = << >>

\* Whatever the other windows do, every repeated confirmation is the answer to
\* a loss of the focus seen after the one before, and a bet is given up (so that
\* a backup action follows) only if a loss was seen after each confirmation.
ConfirmedOnceUnlessLost ==
    /\ Len(orders) <= losses + 1
    /\ pc = "failed" => Len(orders) <= losses

\* The entry comes to an end, however often other windows take the focus.
EntryEnds == <>(pc \in {"done", "failed"})

\* The input box gives up after the last attempt to enter the amount ("Relaying
\* now to backup action."): it never confirms an amount that was not typed.
OnlyTypedAmounts ==
    ~setup.slider => \A i \in 1 .. Len(orders) : orders[i] \in {"ours", "mixed"}
=============================================================================
