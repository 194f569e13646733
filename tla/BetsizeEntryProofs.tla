------------------------- MODULE BetsizeEntryProofs -------------------------
(***************************************************************************)
(* Proofs about BetsizeEntry for every number of attempts: the loops keep  *)
(* their bounds, a confirmation is repeated only after a loss of the       *)
(* focus, and an entry nobody disturbs is exact.                           *)
(***************************************************************************)
EXTENDS BetsizeEntry, TLAPS

Entering == {"look", "select", "slide", "slid", "clear", "type", "typed", "decide"}

\* How far each counter can be at each step of the loops.
Counters ==
    /\ pc \in Entering => confirms = 0
    /\ pc = "confirm" => confirms < MaxAttempts
    /\ pc = "look" => tries = 0 /\ looks > 0
    /\ pc \in {"select", "slide"} => tries < MaxAttempts
    /\ pc \in {"slid", "clear", "type", "typed"} => tries <= MaxAttempts
    /\ pc \in {"slide", "slid"} => tool = "slider"
    /\ pc = "failed" => tool = "box"
    /\ pc # "failed" => early + looks <= IF tool = "box" THEN 3 ELSE 1

\* Each tool contributes at most one confirmation for each attempt.
OrdersBounded ==
    Len(orders) <= confirms + (IF tool = "box" THEN MaxAttempts ELSE 0)

\* Confirmations and losses differ by the one that is not yet known to be lost.
Balance ==
    /\ Len(orders) \in {losses, losses + 1}
    /\ pc \notin {"confirmed", "end", "done"} => Len(orders) = losses
    /\ pc = "end" /\ lost => Len(orders) = losses
    /\ pc = "confirmed" => ~lost /\ Len(orders) = losses + 1

IInv == TypeOK /\ Counters /\ OrdersBounded /\ Balance

\* Appending lengthens a sequence by one.
LEMMA Longer ==
    ASSUME NEW s \in Seq(Amounts), NEW a \in Amounts
    PROVE  Append(s, a) \in Seq(Amounts) /\ Len(Append(s, a)) = Len(s) + 1
  OBVIOUS

LEMMA InitIInv == Init => IInv
<1> SUFFICES ASSUME Init PROVE IInv
  OBVIOUS
<1>1. FlagsOK
  BY DEF Init, FlagsOK
<1>2. QED
  BY <1>1, MaxAttemptsAssumption
  DEF Init, IInv, TypeOK, Counters, OrdersBounded, Balance, Entering, Steps,
      Amounts

\* The flags stay Boolean.
LEMMA StepFlags == FlagsOK /\ [Next]_vars => FlagsOK'
<1> SUFFICES ASSUME FlagsOK, [Next]_vars PROVE FlagsOK'
  OBVIOUS
<1> USE DEF FlagsOK
<1>1. CASE Look
  BY <1>1 DEF Look, Unusable, Usable, GiveUp
<1>2. CASE Select
  BY <1>2 DEF Select
<1>3. CASE Clear
  BY <1>3 DEF Clear, Foreground, EntryLost
<1>4. CASE Type
  BY <1>4 DEF Type, Foreground, EntryLost
<1>5. CASE Typed
  BY <1>5 DEF Typed, EntryDone, EntryLost
<1>6. CASE Slide
  BY <1>6 DEF Slide
<1>7. CASE Slid
  BY <1>7 DEF Slid, Foreground, EntryDone, EntryLost, GiveUp
<1>8. CASE Decide
  BY <1>8 DEF Decide
<1>9. CASE Confirm
  BY <1>9 DEF Confirm, Foreground, ConfirmLost, GiveUp
<1>10. CASE Confirmed
  BY <1>10 DEF Confirmed, Foreground, ConfirmLost, GiveUp
<1>11. CASE End
  BY <1>11 DEF End
<1>12. CASE Interrupted
  BY <1>12 DEF Interrupted
<1>13. CASE PopUp
  BY <1>13 DEF PopUp
<1>14. CASE UNCHANGED vars
  BY <1>14 DEF vars
<1>15. QED
  BY <1>1, <1>2, <1>3, <1>4, <1>5, <1>6, <1>7, <1>8, <1>9, <1>10, <1>11,
     <1>12, <1>13, <1>14 DEF Next, Autoplayer, Over

LEMMA StepIInv == IInv /\ [Next]_vars => IInv'
<1> SUFFICES ASSUME IInv, [Next]_vars PROVE IInv'
  OBVIOUS
<1>0. FlagsOK'
  BY StepFlags DEF IInv, TypeOK
<1> USE <1>0 DEF IInv
<1>1. CASE Look
  <2>1. /\ GiveUp \/ Usable
        /\ early' \in {early, early + 1} /\ pc = "look"
        /\ UNCHANGED <<setup, amount, orders, losses>>
    BY <1>1 DEF Look, TypeOK
  <2>2. CASE GiveUp
    BY <2>1, <2>2, MaxAttemptsAssumption
    DEF GiveUp, TypeOK, Counters, OrdersBounded, Balance, Entering, Steps
  <2>3. CASE Usable
    <3>1. /\ \/ pc' = "look" /\ looks = 2 /\ looks' = 1
             \/ /\ looks = 1 /\ looks' = 0
                /\ \/ pc' = "select"
                   \/ pc' = "slide" /\ tool = "slider"
          /\ UNCHANGED <<tool, tries, confirms, lost>>
      BY <2>1, <2>3 DEF Usable, TypeOK, Counters
    <3>2. pc' \in Steps /\ Counters'
      BY <2>1, <3>1, MaxAttemptsAssumption DEF TypeOK, Counters, Entering, Steps
    <3>3. early' \in 0 .. 3
      BY <2>1, <3>1 DEF TypeOK, Counters
    <3>4. TypeOK'
      BY <2>1, <3>1, <3>2, <3>3, MaxAttemptsAssumption DEF TypeOK
    <3>5. OrdersBounded' /\ Balance'
      BY <2>1, <3>1 DEF OrdersBounded, Balance
    <3>6. QED
      BY <3>2, <3>4, <3>5
  <2>4. QED
    BY <2>1, <2>2, <2>3
<1>2. CASE Select
  <2>1. TypeOK'
    BY <1>2, MaxAttemptsAssumption
    DEF Select, TypeOK, Counters, Entering, Steps, Amounts
  <2>2. Counters'
    BY <1>2, MaxAttemptsAssumption
    DEF Select, TypeOK, Counters, Entering
  <2>3. OrdersBounded' /\ Balance'
    BY <1>2, MaxAttemptsAssumption
    DEF Select, TypeOK, Counters, OrdersBounded, Balance, Entering
  <2>4. QED
    BY <2>1, <2>2, <2>3
<1>3. CASE Clear
  <2>1. TypeOK'
    BY <1>3, MaxAttemptsAssumption
    DEF Clear, Deleted, Foreground, EntryLost, TypeOK, Counters, Entering, Steps, Amounts
  <2>2. Counters'
    BY <1>3, MaxAttemptsAssumption
    DEF Clear, Foreground, EntryLost, TypeOK, Counters, Entering
  <2>3. OrdersBounded' /\ Balance'
    BY <1>3, MaxAttemptsAssumption
    DEF Clear, Foreground, EntryLost, TypeOK, Counters, OrdersBounded, Balance, Entering
  <2>4. QED
    BY <2>1, <2>2, <2>3
<1>4. CASE Type
  <2>1. TypeOK'
    BY <1>4, MaxAttemptsAssumption
    DEF Type, Foreground, EntryLost, TypeOK, Counters, Entering, Steps, Amounts
  <2>2. Counters'
    BY <1>4, MaxAttemptsAssumption
    DEF Type, Foreground, EntryLost, TypeOK, Counters, Entering
  <2>3. OrdersBounded' /\ Balance'
    BY <1>4, MaxAttemptsAssumption
    DEF Type, Foreground, EntryLost, TypeOK, Counters, OrdersBounded, Balance, Entering
  <2>4. QED
    BY <2>1, <2>2, <2>3
<1>5. CASE Typed
  <2>1. TypeOK'
    BY <1>5, MaxAttemptsAssumption
    DEF Typed, EntryDone, EntryLost, TypeOK, Counters, Entering, Steps, Amounts
  <2>2. Counters'
    BY <1>5, MaxAttemptsAssumption
    DEF Typed, EntryDone, EntryLost, TypeOK, Counters, Entering
  <2>3. OrdersBounded' /\ Balance'
    BY <1>5, MaxAttemptsAssumption
    DEF Typed, EntryDone, EntryLost, TypeOK, Counters, OrdersBounded, Balance, Entering
  <2>4. QED
    BY <2>1, <2>2, <2>3
<1>6. CASE Slide
  <2>1. TypeOK'
    BY <1>6, MaxAttemptsAssumption
    DEF Slide, TypeOK, Counters, Entering, Steps, Amounts
  <2>2. Counters'
    BY <1>6, MaxAttemptsAssumption
    DEF Slide, TypeOK, Counters, Entering
  <2>3. OrdersBounded' /\ Balance'
    BY <1>6, MaxAttemptsAssumption
    DEF Slide, TypeOK, Counters, OrdersBounded, Balance, Entering
  <2>4. QED
    BY <2>1, <2>2, <2>3
<1>7. CASE Slid
  <2>1. TypeOK'
    BY <1>7, MaxAttemptsAssumption
    DEF Slid, Foreground, EntryDone, EntryLost, GiveUp, TypeOK, Counters, Entering, Steps, Amounts
  <2>2. Counters'
    BY <1>7, MaxAttemptsAssumption
    DEF Slid, Foreground, EntryDone, EntryLost, GiveUp, TypeOK, Counters, Entering
  <2>3. OrdersBounded' /\ Balance'
    BY <1>7, MaxAttemptsAssumption
    DEF Slid, Foreground, EntryDone, EntryLost, GiveUp, TypeOK, Counters, OrdersBounded, Balance, Entering
  <2>4. QED
    BY <2>1, <2>2, <2>3
<1>8. CASE Decide
  <2>1. TypeOK'
    BY <1>8, MaxAttemptsAssumption
    DEF Decide, TypeOK, Counters, Entering, Steps, Amounts
  <2>2. Counters'
    BY <1>8, MaxAttemptsAssumption
    DEF Decide, TypeOK, Counters, Entering
  <2>3. OrdersBounded' /\ Balance'
    BY <1>8, MaxAttemptsAssumption
    DEF Decide, TypeOK, Counters, OrdersBounded, Balance, Entering
  <2>4. QED
    BY <2>1, <2>2, <2>3
<1>9. CASE Confirm
  <2>1. CASE ~front'
    BY <1>9, <2>1, MaxAttemptsAssumption
    DEF Confirm, Foreground, ConfirmLost, GiveUp, TypeOK, Counters, OrdersBounded,
        Balance, Entering, Steps
  <2>2. CASE front' /\ (ByClick \/ ByKey)
    <3>1. /\ orders' \in Seq(Amounts)
          /\ Len(orders') = Len(orders) + 1
          /\ pc = "confirm" /\ pc' = "confirmed" /\ confirms' = confirms + 1
          /\ ~lost'
          /\ UNCHANGED <<setup, tool, looks, tries, amount, losses, early>>
      BY <1>9, <2>2, Longer DEF Confirm, TypeOK
    <3>2. QED
      BY <3>1, MaxAttemptsAssumption
      DEF TypeOK, Counters, OrdersBounded, Balance, Entering, Steps
  <2>3. CASE front' /\ ~ByClick /\ ~ByKey
    BY <1>9, <2>3, MaxAttemptsAssumption
    DEF Confirm, Foreground, ConfirmLost, GiveUp, TypeOK, Counters, OrdersBounded,
        Balance, Entering, Steps
  <2>4. QED
    BY <2>1, <2>2, <2>3
<1>10. CASE Confirmed
  <2>1. TypeOK'
    BY <1>10, MaxAttemptsAssumption
    DEF Confirmed, Foreground, ConfirmLost, GiveUp, TypeOK, Counters, Entering, Steps, Amounts
  <2>2. Counters'
    BY <1>10, MaxAttemptsAssumption
    DEF Confirmed, Foreground, ConfirmLost, GiveUp, TypeOK, Counters, Entering
  <2>3. OrdersBounded' /\ Balance'
    <3>1. CASE front'
      BY <1>10, <3>1, MaxAttemptsAssumption
      DEF Confirmed, TypeOK, OrdersBounded, Balance
    <3>2. CASE ~front' /\ confirms < MaxAttempts
      BY <1>10, <3>2, MaxAttemptsAssumption
      DEF Confirmed, ConfirmLost, TypeOK, Counters, OrdersBounded, Balance
    <3>3. CASE ~front' /\ ~(confirms < MaxAttempts) /\ tool = "slider"
      BY <1>10, <3>3, MaxAttemptsAssumption
      DEF Confirmed, ConfirmLost, GiveUp, TypeOK, OrdersBounded, Balance
    <3>4. CASE ~front' /\ ~(confirms < MaxAttempts) /\ tool # "slider"
      BY <1>10, <3>4, MaxAttemptsAssumption
      DEF Confirmed, ConfirmLost, TypeOK, OrdersBounded, Balance
    <3>5. QED
      BY <3>1, <3>2, <3>3, <3>4
  <2>4. QED
    BY <2>1, <2>2, <2>3
<1>11. CASE End
  <2>1. TypeOK'
    BY <1>11, MaxAttemptsAssumption
    DEF End, TypeOK, Counters, Entering, Steps, Amounts
  <2>2. Counters'
    BY <1>11, MaxAttemptsAssumption
    DEF End, TypeOK, Counters, Entering
  <2>3. OrdersBounded' /\ Balance'
    BY <1>11, MaxAttemptsAssumption
    DEF End, TypeOK, Counters, OrdersBounded, Balance, Entering
  <2>4. QED
    BY <2>1, <2>2, <2>3
<1>12. CASE Interrupted
  <2>1. TypeOK'
    BY <1>12, MaxAttemptsAssumption
    DEF Interrupted, TypeOK, Counters, Entering, Steps, Amounts
  <2>2. Counters'
    BY <1>12, MaxAttemptsAssumption
    DEF Interrupted, TypeOK, Counters, Entering
  <2>3. OrdersBounded' /\ Balance'
    BY <1>12, MaxAttemptsAssumption
    DEF Interrupted, TypeOK, Counters, OrdersBounded, Balance, Entering
  <2>4. QED
    BY <2>1, <2>2, <2>3
<1>13. CASE PopUp
  <2>1. TypeOK'
    BY <1>13, MaxAttemptsAssumption
    DEF PopUp, TypeOK, Counters, Entering, Steps, Amounts
  <2>2. Counters'
    BY <1>13, MaxAttemptsAssumption
    DEF PopUp, TypeOK, Counters, Entering
  <2>3. OrdersBounded' /\ Balance'
    BY <1>13, MaxAttemptsAssumption
    DEF PopUp, TypeOK, Counters, OrdersBounded, Balance, Entering
  <2>4. QED
    BY <2>1, <2>2, <2>3
<1>14. CASE UNCHANGED vars
  <2>1. TypeOK'
    BY <1>14, MaxAttemptsAssumption
    DEF vars, TypeOK, Counters, Entering, Steps, Amounts
  <2>2. Counters'
    BY <1>14, MaxAttemptsAssumption
    DEF vars, TypeOK, Counters, Entering
  <2>3. OrdersBounded' /\ Balance'
    BY <1>14, MaxAttemptsAssumption
    DEF vars, TypeOK, Counters, OrdersBounded, Balance, Entering
  <2>4. QED
    BY <2>1, <2>2, <2>3
<1>15. QED
  BY <1>1, <1>2, <1>3, <1>4, <1>5, <1>6, <1>7, <1>8, <1>9, <1>10, <1>11,
     <1>12, <1>13, <1>14 DEF Next, Autoplayer, Over

LEMMA Invariance == Spec => []IInv
  BY InitIInv, StepIInv, PTL DEF Spec

\* The variables keep their types and the retry loops their bounds, for every
\* number of attempts.
THEOREM TypeCorrect == Spec => []TypeOK
<1>1. IInv => TypeOK
  BY DEF IInv
<1>2. QED
  BY <1>1, Invariance, PTL

\* A bet is confirmed again, or given up, only after the focus was seen lost
\* behind every confirmation before.
THEOREM NoBlindRepeat == Spec => []ConfirmedOnceUnlessLost
<1>1. IInv => ConfirmedOnceUnlessLost
  BY DEF IInv, TypeOK, Balance, ConfirmedOnceUnlessLost
<1>2. QED
  BY <1>1, Invariance, PTL

-----------------------------------------------------------------------------

Entered(a) == /\ a \in {"ours", "mixed"}
              /\ tool = "slider" \/ Replaces => a = "ours"

\* An entry that no other window disturbs: every attempt is the first, and at
\* each step the table shows what the code believes, or, where the entry does not
\* replace the old text, at least something that was entered.
Undisturbed ==
    /\ front /\ ~lost
    /\ pc \in {"select", "slide"} => tries = 0
    /\ pc \in {"slid", "clear", "type", "typed"} => tries = 1
    /\ pc \in {"decide", "confirm"} => tries = 2
    /\ tool = "slider" /\ pc # "look" => setup.slider
    /\ pc \in {"select", "clear", "type", "typed"} => tool = "box"
    /\ ~setup.prefilled /\ ~setup.slider /\ pc \in {"look", "select", "clear", "type"}
         => amount = "empty"
    /\ pc = "clear" /\ setup.selection = "mark" => selected
    /\ pc = "type" /\ Replaces => selected \/ amount = "empty"
    /\ pc \in {"slid", "typed", "decide", "confirm"} => Entered(amount)
    /\ pc \notin {"confirmed", "end", "done"} => orders = << >>
    /\ pc = "confirmed" \/ (pc \in {"end", "done"} /\ setup.confirmation # "nothing")
         => \E a \in Amounts : Entered(a) /\ orders = <<a>>

QInv == quiet => Undisturbed

LEMMA StepQInv == IInv /\ QInv /\ [Next]_vars => QInv'
<1> SUFFICES ASSUME IInv, QInv, [Next]_vars, quiet' PROVE Undisturbed'
  BY DEF QInv
<1> USE DEF QInv, Undisturbed, IInv, TypeOK, Counters, Entering, Entered, Replaces
<1>1. CASE Look
  <2>1. pc = "look" /\ UNCHANGED <<setup, selected, amount, orders, front, quiet>>
    BY <1>1 DEF Look
  <2>2. GiveUp \/ (~Unusable /\ Usable)
    BY <1>1 DEF Look
  <2>3. CASE GiveUp
    BY <2>1, <2>3 DEF GiveUp
  <2>4. CASE ~Unusable /\ Usable
    <3>1. tool = "slider" => setup.slider
      BY <2>4 DEF Unusable
    <3>2. /\ pc' \in {"look", "select", "slide"} /\ UNCHANGED <<tool, tries, lost>>
          /\ pc' = "select" => tool = "box"
      BY <2>4 DEF Usable
    <3>3. QED
      BY <2>1, <3>1, <3>2
  <2>5. QED
    BY <2>2, <2>3, <2>4
<1>2. CASE Select
  <2>1. /\ pc = "select" /\ pc' = "clear" /\ tries' = tries + 1 /\ lost' = FALSE
        /\ UNCHANGED <<setup, tool, amount, orders, front, quiet>>
    BY <1>2 DEF Select
  <2>2. front /\ tries = 0
    BY <2>1
  <2>3. setup.selection = "mark" => selected'
    <3>1. PICK reached \in BOOLEAN :
            /\ Lands(reached)
            /\ selected' \in
                 IF ~reached \/ setup.selection = "nothing" THEN {selected}
                 ELSE IF setup.selection = "mark" THEN {TRUE} ELSE BOOLEAN
      BY <1>2 DEF Select
    <3>2. reached
      BY <2>2, <3>1 DEF Lands
    <3>3. QED
      BY <3>1, <3>2
  <2>4. QED
    BY <2>1, <2>2, <2>3
<1>3. CASE Clear
  <2>1. quiet /\ front
    BY <1>3 DEF Clear
  <2>2. front'
    BY <1>3, <2>1 DEF Clear, Foreground
  <2>3. QED
    <3>1. /\ pc = "clear" /\ pc' = "type"
          /\ UNCHANGED <<setup, tool, tries, lost, orders>>
      BY <1>3, <2>2 DEF Clear
    <3>2. CASE setup.deletes
      <4>1. selected \/ amount = "empty" => amount' = "empty"
        BY <1>3, <2>2, <3>2 DEF Clear, Deleted
      <4>2. QED
        BY <2>1, <2>2, <3>1, <4>1
    <3>3. CASE ~setup.deletes
      <4>1. UNCHANGED <<amount, selected>>
        BY <1>3, <2>2, <3>3 DEF Clear
      <4>2. QED
        BY <2>1, <2>2, <3>1, <4>1
    <3>4. QED
      BY <3>2, <3>3
<1>4. CASE Type
  <2>1. quiet /\ front
    BY <1>4 DEF Type
  <2>2. front'
    BY <1>4, <2>1 DEF Type, Foreground
  <2>3. /\ pc = "type" /\ pc' = "typed"
        /\ amount' = IF selected \/ amount = "empty" THEN "ours" ELSE "mixed"
        /\ UNCHANGED <<setup, tool, tries, lost, orders>>
    BY <1>4, <2>2 DEF Type
  <2>4. amount' \in {"ours", "mixed"} /\ (Replaces => amount' = "ours")
    BY <2>1, <2>3
  <2>5. tool = "box"
    BY <2>1, <2>3
  <2>6. QED
    BY <2>1, <2>2, <2>3, <2>4, <2>5
<1>5. CASE Typed
  BY <1>5, MaxAttemptsAssumption DEF Typed, EntryDone
<1>6. CASE Slide
  BY <1>6, MaxAttemptsAssumption DEF Slide, Lands
<1>7. CASE Slid
  <2>1. quiet /\ front
    BY <1>7 DEF Slid
  <2>2. front'
    BY <1>7, <2>1 DEF Slid, Foreground
  <2>3. QED
    BY <1>7, <2>1, <2>2 DEF Slid, EntryDone
<1>8. CASE Decide
  BY <1>8, MaxAttemptsAssumption DEF Decide
<1>9. CASE Confirm
  <2>1. quiet /\ front
    BY <1>9 DEF Confirm
  <2>2. front'
    BY <1>9, <2>1 DEF Confirm, Foreground
  <2>3. CASE ByClick \/ ByKey
    BY <1>9, <2>1, <2>2, <2>3 DEF Confirm
  <2>4. CASE ~ByClick /\ ~ByKey /\ ByNothing
    BY <1>9, <2>1, <2>2, <2>4 DEF Confirm, ByNothing
  <2>5. CASE ~ByClick /\ ~ByKey /\ ~ByNothing
    BY <1>9, <2>1, <2>2, <2>5 DEF Confirm, GiveUp
  <2>6. QED
    BY <2>3, <2>4, <2>5
<1>10. CASE Confirmed
  BY <1>10, MaxAttemptsAssumption DEF Confirmed, Foreground
<1>11. CASE End
  BY <1>11, MaxAttemptsAssumption DEF End
<1>12. CASE Interrupted
  BY <1>12, MaxAttemptsAssumption DEF Interrupted
<1>13. CASE PopUp
  BY <1>13, MaxAttemptsAssumption DEF PopUp
<1>14. CASE UNCHANGED vars
  BY <1>14, MaxAttemptsAssumption DEF vars
<1>15. QED
  BY <1>1, <1>2, <1>3, <1>4, <1>5, <1>6, <1>7, <1>8, <1>9, <1>10, <1>11,
     <1>12, <1>13, <1>14 DEF Next, Autoplayer, Over

\* An entry that no other window disturbs confirms an entered amount exactly once,
\* and exactly ours wherever the entry replaces the old text, or fails without
\* having confirmed anything.
THEOREM QuietIsExact == Spec => []QuietEntryIsExact
<1>1. Init => QInv
  BY DEF Init, QInv, Undisturbed, Entered
<1>2. QInv => QuietEntryIsExact
  BY DEF QInv, Undisturbed, Entered, QuietEntryIsExact
<1>3. QED
  BY <1>1, <1>2, Invariance, StepQInv, PTL DEF Spec

-----------------------------------------------------------------------------
(* Why the entry comes to an end: a bound on the steps still to be made.   *)

\* An attempt of the box takes five steps, one of the slider fewer; a
\* confirmation takes two.
ToolStepsLeft ==
    CASE pc = "look" -> 7 * MaxAttempts + 4 + looks
      [] pc \in {"select", "slide"} -> 2 * MaxAttempts + 4 + 5 * (MaxAttempts - tries)
      [] pc \in {"clear", "slid"} -> 2 * MaxAttempts + 8 + 5 * (MaxAttempts - tries)
      [] pc = "type" -> 2 * MaxAttempts + 7 + 5 * (MaxAttempts - tries)
      [] pc = "typed" -> 2 * MaxAttempts + 6 + 5 * (MaxAttempts - tries)
      [] pc = "decide" -> 2 * MaxAttempts + 3
      [] pc = "confirm" -> 2 * (MaxAttempts - confirms) + 2
      [] pc = "confirmed" -> 2 * (MaxAttempts - confirms) + 3
      [] pc = "end" -> 1
      [] OTHER -> 0

\* Before the box may come the slider.
StepsLeft ==
    IF pc \in {"done", "failed"} THEN 0
    ELSE ToolStepsLeft + (IF tool = "slider" THEN 7 * MaxAttempts + 7 ELSE 0)

\* Other windows do not send the autoplayer back to an earlier step.
Advances == \/ StepsLeft' < StepsLeft
            \/ PopUp /\ UNCHANGED StepsLeft

EndsInTime == /\ StepsLeft \in 0 .. 14 * MaxAttempts + 12
              /\ StepsLeft = 0 => pc \in {"done", "failed"}

\* What is under way has been counted.
UnderWayCounted ==
    /\ pc \in {"clear", "type", "typed", "slid"} => tries > 0
    /\ pc = "confirmed" => confirms > 0

LEMMA StepUnderWay == IInv /\ UnderWayCounted /\ [Next]_vars => UnderWayCounted'
<1> SUFFICES ASSUME IInv, UnderWayCounted, [Next]_vars PROVE UnderWayCounted'
  OBVIOUS
<1>1. confirms \in Nat /\ tries \in Nat
  BY MaxAttemptsAssumption DEF IInv, TypeOK
<1> USE DEF UnderWayCounted
<1>2. CASE Select \/ Slide
  <2>1. /\ pc' \in {"clear", "slid"} /\ tries' = tries + 1
    BY <1>2 DEF Select, Slide
  <2>2. QED
    BY <1>1, <2>1
<1>3. CASE Clear
  <2>0. tool \in {"slider", "box"}
    BY DEF IInv, TypeOK
  <2>1. pc = "clear" /\ pc' \in {"type", "select", "slide", "decide"} /\ tries' = tries
    BY <1>3 DEF Clear, EntryLost
  <2>2. QED
    BY <2>1
<1>9. CASE Type \/ Interrupted
  BY <1>9 DEF Type, Interrupted, EntryLost
<1>4. CASE Confirm
  BY <1>1, <1>4 DEF Confirm, ConfirmLost, GiveUp
<1>5. CASE Look \/ Typed \/ Slid
  BY <1>5 DEF Look, Usable, GiveUp, Typed, Slid, EntryDone, EntryLost
<1>6. CASE Decide \/ Confirmed \/ End
  BY <1>6 DEF Decide, Confirmed, ConfirmLost, GiveUp, End
<1>7. CASE PopUp \/ UNCHANGED vars
  BY <1>7 DEF PopUp, vars
<1>8. QED
  BY <1>2, <1>3, <1>4, <1>5, <1>6, <1>7, <1>9 DEF Next, Autoplayer, Over

LEMMA StepsAreBounded == IInv /\ UnderWayCounted => EndsInTime
<1> SUFFICES ASSUME IInv, UnderWayCounted PROVE EndsInTime
  OBVIOUS
<1>1. /\ MaxAttempts \in Nat \ {0, 1} /\ tries \in 0 .. MaxAttempts + 1
      /\ confirms \in 0 .. MaxAttempts /\ looks \in 0 .. 2 /\ early \in 0 .. 3
      /\ pc \in Steps /\ tool \in {"slider", "box"} /\ Counters /\ UnderWayCounted
  BY MaxAttemptsAssumption DEF IInv, TypeOK
<1>2. CASE pc \in {"done", "failed"}
  BY <1>1, <1>2 DEF StepsLeft, EndsInTime
<1>3. CASE pc \notin {"done", "failed"}
  <2>1. /\ ToolStepsLeft \in 1 .. 7 * MaxAttempts + 6
        /\ tool = "slider" => ToolStepsLeft <= 7 * MaxAttempts + 5
    <3> USE <1>1 DEF ToolStepsLeft, Counters, UnderWayCounted
    <3>1. CASE pc = "look"
      BY <3>1
    <3>2. CASE pc \in {"select", "slide"}
      BY <3>2
    <3>3. CASE pc \in {"clear", "slid"}
      BY <3>3
    <3>4. CASE pc = "type"
      BY <3>4
    <3>5. CASE pc = "typed"
      BY <3>5
    <3>6. CASE pc = "decide"
      BY <3>6
    <3>7. CASE pc = "confirm"
      BY <3>7
    <3>8. CASE pc = "confirmed"
      BY <3>8
    <3>9. CASE pc = "end"
      BY <3>9
    <3>10. QED
      BY <1>1, <1>3, <3>1, <3>2, <3>3, <3>4, <3>5, <3>6, <3>7, <3>8, <3>9 DEF Steps
  <2>2. StepsLeft = ToolStepsLeft
                      + (IF tool = "slider" THEN 7 * MaxAttempts + 7 ELSE 0)
    BY <1>3 DEF StepsLeft
  <2>3. StepsLeft \in 1 .. 14 * MaxAttempts + 12
    BY <1>1, <2>1, <2>2
  <2>4. QED
    BY <2>3 DEF EndsInTime
<1>4. QED
  BY <1>2, <1>3

LEMMA StepsLeftTyped == IInv /\ UnderWayCounted => ToolStepsLeft \in Nat
<1> SUFFICES ASSUME IInv, UnderWayCounted PROVE ToolStepsLeft \in Nat
  OBVIOUS
<1>1. /\ MaxAttempts \in Nat \ {0, 1} /\ tries \in 0 .. MaxAttempts + 1
      /\ confirms \in 0 .. MaxAttempts /\ looks \in 0 .. 2 /\ early \in 0 .. 3
      /\ pc \in Steps /\ tool \in {"slider", "box"} /\ Counters
  BY MaxAttemptsAssumption DEF IInv, TypeOK
<1> USE <1>1 DEF ToolStepsLeft, Counters
<1>2. CASE pc = "look" \/ pc = "decide" \/ pc = "end"
  BY <1>2
<1>3. CASE pc \in {"select", "slide"}
  BY <1>3
<1>4. CASE pc \in {"clear", "slid"}
  BY <1>4
<1>5. CASE pc = "type" \/ pc = "typed"
  BY <1>5
<1>6. CASE pc = "confirm" \/ pc = "confirmed"
  BY <1>6
<1>7. CASE pc \in {"done", "failed"}
  BY <1>7
<1>8. QED
  BY <1>2, <1>3, <1>4, <1>5, <1>6, <1>7 DEF Steps

\* A tool that goes on, or ends the bet, makes a step of its own.
LEMMA SameTool ==
    ASSUME IInv, UnderWayCounted, pc \notin {"done", "failed"},
           tool' = tool, ToolStepsLeft \in Nat, ToolStepsLeft' \in Nat,
           ToolStepsLeft' < ToolStepsLeft
    PROVE  StepsLeft' < StepsLeft
<1>1. StepsLeft \in Nat /\ 0 < StepsLeft
  <2>1. EndsInTime /\ MaxAttempts \in Nat
    BY StepsAreBounded, MaxAttemptsAssumption
  <2>2. QED
    BY <2>1 DEF EndsInTime
<1>2. CASE pc' \in {"done", "failed"}
  BY <1>1, <1>2 DEF StepsLeft
<1>3. CASE pc' \notin {"done", "failed"}
  <2>1. PICK share \in Nat : share = IF tool = "slider" THEN 7 * MaxAttempts + 7 ELSE 0
    BY MaxAttemptsAssumption
  <2>2. StepsLeft = ToolStepsLeft + share
    BY <2>1 DEF StepsLeft
  <2>3. StepsLeft' = ToolStepsLeft' + share
    BY <1>3, <2>1 DEF StepsLeft
  <2>4. \A m, n \in Nat : m < n => m + share < n + share
    OBVIOUS
  <2>5. QED
    BY <2>2, <2>3, <2>4
<1>4. QED
  BY <1>2, <1>3

\* A tool that gives up leaves the whole of its share behind.
LEMMA GivingUpAdvances ==
    ASSUME IInv, UnderWayCounted, pc \notin {"done", "failed"}, GiveUp
    PROVE  StepsLeft' < StepsLeft
<1>1. /\ MaxAttempts \in Nat /\ StepsLeft \in Nat /\ 0 < StepsLeft
      /\ tool \in {"slider", "box"}
  <2>1. EndsInTime /\ MaxAttempts \in Nat
    BY StepsAreBounded, MaxAttemptsAssumption
  <2>2. QED
    BY <2>1 DEF EndsInTime, IInv, TypeOK
<1>2. CASE tool = "box"
  <2>1. pc' = "failed"
    BY <1>2 DEF GiveUp
  <2>2. QED
    BY <1>1, <2>1 DEF StepsLeft
<1>3. CASE tool = "slider"
  <2>1. tool' = "box" /\ pc' = "look" /\ looks' = 2
    BY <1>3 DEF GiveUp
  <2>2. StepsLeft' = 7 * MaxAttempts + 6
    BY <1>1, <2>1 DEF StepsLeft, ToolStepsLeft
  <2>3. ToolStepsLeft \in Nat
    BY <1>3, StepsLeftTyped
  <2>4. StepsLeft = ToolStepsLeft + 7 * MaxAttempts + 7
    BY <1>1, <1>3, <2>3 DEF StepsLeft
  <2>5. QED
    BY <1>1, <2>2, <2>3, <2>4
<1>4. QED
  BY <1>1, <1>2, <1>3

\* The steps of one tool, which are the ones it does not give up at.
LEMMA ToolAdvances ==
    ASSUME IInv, UnderWayCounted, IInv', UnderWayCounted',
           Autoplayer, tool' = tool, ~GiveUp
    PROVE  ToolStepsLeft' < ToolStepsLeft
<1>1. /\ MaxAttempts \in Nat \ {0, 1} /\ tries \in 0 .. MaxAttempts + 1
      /\ confirms \in 0 .. MaxAttempts /\ looks \in 0 .. 2
      /\ pc \in Steps /\ tool \in {"slider", "box"} /\ Counters
  BY MaxAttemptsAssumption DEF IInv, TypeOK
<1> USE <1>1
<1>2. CASE Look
  <2>1. pc = "look" /\ Usable
    BY <1>2 DEF Look
  <2>2. looks > 0 /\ tries = 0
    BY <2>1 DEF Counters
  <2>3. CASE looks > 1
    BY <2>1, <2>3 DEF Usable, ToolStepsLeft
  <2>4. CASE looks = 1
    BY <2>1, <2>2, <2>4 DEF Usable, ToolStepsLeft
  <2>5. QED
    BY <2>2, <2>3, <2>4
<1>3. CASE Select
  BY <1>3 DEF Select, ToolStepsLeft
<1>4. CASE Clear
  <2>1. CASE front'
    BY <1>4, <2>1 DEF Clear, ToolStepsLeft
  <2>2. CASE ~front'
    BY <1>4, <2>2 DEF Clear, EntryLost, ToolStepsLeft, Counters
  <2>3. QED
    BY <2>1, <2>2
<1>5. CASE Type
  <2>1. CASE front'
    BY <1>5, <2>1 DEF Type, ToolStepsLeft
  <2>2. CASE ~front'
    BY <1>5, <2>2 DEF Type, EntryLost, ToolStepsLeft, Counters
  <2>3. QED
    BY <2>1, <2>2
<1>6. CASE Typed
  <2>1. CASE front
    BY <1>6, <2>1 DEF Typed, EntryDone, ToolStepsLeft, Counters
  <2>2. CASE ~front
    BY <1>6, <2>2 DEF Typed, EntryLost, ToolStepsLeft, Counters
  <2>3. QED
    BY <2>1, <2>2
<1>7. CASE Slide
  BY <1>7 DEF Slide, ToolStepsLeft
<1>8. CASE Slid
  <2>1. CASE front'
    BY <1>8, <2>1 DEF Slid, EntryDone, ToolStepsLeft, Counters
  <2>2. CASE ~front'
    BY <1>8, <2>2 DEF Slid, EntryLost, ToolStepsLeft, Counters
  <2>3. QED
    BY <2>1, <2>2
<1>9. CASE Decide
  BY <1>9 DEF Decide, ToolStepsLeft, Counters, Entering
<1>10. CASE Confirm
  <2>1. pc = "confirm" /\ confirms < MaxAttempts
    BY <1>10 DEF Confirm, Counters
  <2>2. CASE ~front'
    BY <1>10, <2>1, <2>2 DEF Confirm, ConfirmLost, ToolStepsLeft
  <2>3. CASE front' /\ (ByClick \/ ByKey)
    BY <1>10, <2>1, <2>3 DEF Confirm, ToolStepsLeft
  <2>4. CASE front' /\ ~(ByClick \/ ByKey)
    BY <1>10, <2>1, <2>4 DEF Confirm, ToolStepsLeft
  <2>5. QED
    BY <2>2, <2>3, <2>4
<1>11. CASE Confirmed
  BY <1>11 DEF Confirmed, ConfirmLost, ToolStepsLeft
<1>12. CASE End
  BY <1>12 DEF End, ToolStepsLeft
<1>13. QED
  BY <1>2, <1>3, <1>4, <1>5, <1>6, <1>7, <1>8, <1>9, <1>10, <1>11, <1>12
  DEF Autoplayer

LEMMA StepAdvances ==
    IInv /\ UnderWayCounted /\ [Next]_vars => [Advances]_vars
<1>0. (IInv /\ UnderWayCounted => ToolStepsLeft \in Nat)'
  BY StepsLeftTyped, PTL
<1> SUFFICES ASSUME IInv, UnderWayCounted, Next, ~Over PROVE Advances
  BY DEF Over
<1>1. IInv' /\ UnderWayCounted'
  BY StepIInv, StepUnderWay
<1>2. ToolStepsLeft \in Nat /\ ToolStepsLeft' \in Nat
  BY <1>0, <1>1, StepsLeftTyped
<1>3. CASE Autoplayer
  <2>1. pc \notin {"done", "failed"}
    BY <1>3 DEF Autoplayer, Look, Select, Clear, Type, Typed, Slide, Slid,
                Decide, Confirm, Confirmed, End
  <2>2. CASE GiveUp
    BY <2>1, <2>2, GivingUpAdvances DEF Advances
  <2>3. CASE ~GiveUp
    <3>1. tool' = tool
      BY <1>3, <2>3 DEF Autoplayer, Look, Usable, Select, Clear, EntryLost,
                        Type, Typed, EntryDone, Slide, Slid, Decide, Confirm,
                        ConfirmLost, Confirmed, End
    <3>2. ToolStepsLeft' < ToolStepsLeft
      BY <1>1, <1>3, <2>3, <3>1, ToolAdvances
    <3>3. QED
      BY <1>2, <2>1, <3>1, <3>2, SameTool DEF Advances
  <2>4. QED
    BY <2>2, <2>3
<1>4. CASE Interrupted
  <2>1. /\ pc = "type" /\ pc' = "typed" /\ tool' = tool /\ tries' = tries
        /\ MaxAttempts \in Nat /\ tries \in Nat
    BY <1>4, MaxAttemptsAssumption DEF Interrupted, IInv, TypeOK
  <2>2. ToolStepsLeft' < ToolStepsLeft
    BY <2>1 DEF ToolStepsLeft
  <2>3. QED
    BY <1>2, <2>1, <2>2, SameTool DEF Advances
<1>5. CASE PopUp
  BY <1>5 DEF PopUp, Advances, StepsLeft, ToolStepsLeft
<1>6. QED
  BY <1>3, <1>4, <1>5 DEF Next

\* Every step of the autoplayer, whatever other windows do meanwhile, leaves
\* fewer steps to be made, and another window coming to the front does not add
\* any: what EntryEnds needs besides an autoplayer thread that keeps running.
THEOREM EntryAdvances == Spec => [][Advances]_vars
<1>1. Init => UnderWayCounted
  BY DEF Init, UnderWayCounted
<1>2. QED
  BY <1>1, Invariance, StepUnderWay, StepAdvances, PTL DEF Spec

\* A bet is entered or given up within 14 * MaxAttempts + 12 steps of the
\* autoplayer, and it is over only when one of the two has happened.
THEOREM EntryBounded == Spec => []EndsInTime
<1>1. Init => UnderWayCounted
  BY DEF Init, UnderWayCounted
<1>2. QED
  BY <1>1, Invariance, StepUnderWay, StepsAreBounded, PTL DEF Spec
=============================================================================
