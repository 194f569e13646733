------------------------- MODULE PrimaryActionProofs -------------------------
(* From the decision to the inputs: what the backups turn on, and what comes *)
(* of it whichever attempts fail, for every set of betpot buttons.           *)
EXTENDS PrimaryAction, TLAPS

(* The functions that can be on.                                             *)
Executable == Decisions \ {"undefined", "none"}

LEMMA PotsAre ==
    Pots = {"betpot_2_1", "betpot_1_1", "betpot_3_4", "betpot_2_3",
            "betpot_1_2", "betpot_1_3", "betpot_1_4"}
<1>1. Len(BetPots) = 7
  BY DEF BetPots
<1>2. Pots = {BetPots[1], BetPots[2], BetPots[3], BetPots[4], BetPots[5],
              BetPots[6], BetPots[7]}
  BY <1>1, 1 .. 7 = {1, 2, 3, 4, 5, 6, 7} DEF Pots
<1> QED
  BY <1>2 DEF BetPots

LEMMA StakeValues ==
    /\ Stake("check") = 0 /\ Stake("fold") = 0 /\ Stake("beep") = 0
    /\ Stake("undefined") = 0 /\ Stake("none") = 0
    /\ Stake("call") = 1 /\ Stake("raise") = 2
    /\ Stake("betpot_1_4") = 3 /\ Stake("betpot_1_3") = 4
    /\ Stake("betpot_1_2") = 5 /\ Stake("betpot_2_3") = 6
    /\ Stake("betpot_3_4") = 7 /\ Stake("betpot_1_1") = 8
    /\ Stake("betpot_2_1") = 9 /\ Stake("betsize") = 10 /\ Stake("allin") = 11
    /\ Stake("wrong") = 12
BY DEF Stake, Stakes

LEMMA StakesAreNumbers == \A d \in Decisions : Stake(d) \in 0 .. 11
BY PotsAre, StakeValues DEF Decisions, Buttons

LEMMA ExecutableAre ==
    Executable = {"fold", "call", "check", "raise", "allin", "betpot_2_1",
                  "betpot_1_1", "betpot_3_4", "betpot_2_3", "betpot_1_2",
                  "betpot_1_3", "betpot_1_4", "betsize", "beep"}
BY PotsAre DEF Executable, Decisions, Buttons

(* Functions that put no more at stake than was decided.                     *)
Below(functions) == /\ functions \subseteq Executable
                    /\ \A f \in functions : Stake(f) <= Stake(decision)

(* A backup that goes down keeps it so.                                      *)
LEMMA AddBackupDown ==
    ASSUME decision \in Decisions, NEW functions, Below(functions),
           NEW action \in Executable, NEW backup \in Executable,
           Stake(backup) <= Stake(action)
    PROVE  Below(AddBackup(functions, action, backup))
<1>1. /\ Stake(action) \in Nat /\ Stake(backup) \in Nat
      /\ Stake(decision) \in Nat
  BY StakesAreNumbers DEF Executable
<1> QED
  BY <1>1 DEF Below, AddBackup

LEMMA RaiseBackupsDown ==
    ASSUME decision \in Decisions, NEW functions, Below(functions)
    PROVE  Below(RaiseBackups(functions))
<1> DEFINE pot11 == AddBackup(functions, "allin", "betpot_1_1")
           pot34 == AddBackup(pot11, "betpot_1_1", "betpot_3_4")
           pot23 == AddBackup(pot34, "betpot_3_4", "betpot_2_3")
           pot12 == AddBackup(pot23, "betpot_2_3", "betpot_1_2")
           pot13 == AddBackup(pot12, "betpot_1_2", "betpot_1_3")
           pot14 == AddBackup(pot13, "betpot_1_3", "betpot_1_4")
           raise == AddBackup(pot14, "betpot_1_4", "raise")
           last  == AddBackup(raise, "betsize", "raise")
<1>0. RaiseBackups(functions) = last
  BY DEF RaiseBackups
<1>1. Below(pot11)
  BY AddBackupDown, ExecutableAre, StakeValues
<1> HIDE DEF pot11
<1>2. Below(pot34)
  BY <1>1, AddBackupDown, ExecutableAre, StakeValues
<1> HIDE DEF pot34
<1>3. Below(pot23)
  BY <1>2, AddBackupDown, ExecutableAre, StakeValues
<1> HIDE DEF pot23
<1>4. Below(pot12)
  BY <1>3, AddBackupDown, ExecutableAre, StakeValues
<1> HIDE DEF pot12
<1>5. Below(pot13)
  BY <1>4, AddBackupDown, ExecutableAre, StakeValues
<1> HIDE DEF pot13
<1>6. Below(pot14)
  BY <1>5, AddBackupDown, ExecutableAre, StakeValues
<1> HIDE DEF pot14
<1>7. Below(raise)
  BY <1>6, AddBackupDown, ExecutableAre, StakeValues
<1> HIDE DEF raise
<1>8. Below(last)
  BY <1>7, AddBackupDown, ExecutableAre, StakeValues
<1> QED
  BY <1>0, <1>8

(* The one backup that goes up is allin, for a call that is only possible so.*)
Backed(functions) ==
    /\ functions \subseteq Executable
    /\ \A f \in functions :
         \/ Stake(f) <= Stake(decision)
         \/ f = "allin" /\ FoldAllin /\ Stake(decision) >= 1

LEMMA CallBackupsDown ==
    ASSUME decision \in Decisions, NEW functions, Below(functions)
    PROVE  Backed(CallBackups(functions))
<1> DEFINE call  == AddBackup(functions, "raise", "call")
           check == AddBackup(call, "call", "check")
           allin == IF FoldAllin THEN AddBackup(check, "call", "allin") ELSE check
<1>0. CallBackups(functions) = AddBackup(allin, "check", "fold")
  BY DEF CallBackups
<1>1. Below(call)
  BY AddBackupDown, ExecutableAre, StakeValues
<1> HIDE DEF call
<1>2. Below(check)
  BY <1>1, AddBackupDown, ExecutableAre, StakeValues
<1> HIDE DEF check
<1>3. Backed(allin)
  BY <1>2, ExecutableAre, StakeValues DEF Backed, Below, AddBackup
<1> HIDE DEF allin
<1>4. Stake(decision) \in Nat
  BY StakesAreNumbers
<1> QED
  BY <1>0, <1>3, <1>4, ExecutableAre, StakeValues DEF Backed, AddBackup

(* A decision to raise is backed by a call, except RaiseTwoPot.              *)
LEMMA RaisesEndInACall ==
    ASSUME NEW functions, NEW d \in RaisesDecided \ {"betpot_2_1"}, d \in functions
    PROVE  "call" \in CallBackups(RaiseBackups(functions))
<1>1. "raise" \in RaiseBackups(functions)
  BY PotsAre DEF RaisesDecided, RaiseBackups, AddBackup
<1> QED
  BY <1>1 DEF CallBackups, AddBackup

(* No backup turns anything off.                                             *)
LEMMA BackupsAdd ==
    ASSUME NEW functions
    PROVE  functions \subseteq CallBackups(RaiseBackups(functions))
<1>1. \A f, action, backup : f \subseteq AddBackup(f, action, backup)
  BY DEF AddBackup
<1>2. functions \subseteq RaiseBackups(functions)
  BY <1>1 DEF RaiseBackups
<1>3. RaiseBackups(functions) \subseteq CallBackups(RaiseBackups(functions))
  BY <1>1 DEF CallBackups
<1> QED
  BY <1>2, <1>3

-----------------------------------------------------------------------------
(* The functions that are on after a decision.                               *)
DecidedOn(functions) ==
    /\ decision # "beep" => /\ "fold" \in functions
                            /\ ~table.owed => "check" \in functions
    /\ decision = "beep" => "fold" \notin functions
    /\ decision \in RaisesDecided \ {"betpot_2_1"} => "call" \in functions

LEMMA DecisionTurnsOn ==
    ASSUME decision \in Decisions
    PROVE  /\ DecidedOn(WithBackups(Defaults \cup Translated))
           /\ Backed(WithBackups(Defaults \cup Translated))
<1> DEFINE functions == Defaults \cup Translated
<1>1. Stake(decision) \in Nat
  BY StakesAreNumbers
<1>2. Below(functions)
  BY <1>1, PotsAre, ExecutableAre, StakeValues
     DEF Below, Defaults, Translated, Decisions, Buttons
<1>3. "fold" \in functions /\ (~table.owed => "check" \in functions)
  BY DEF Defaults
<1>4. "beep" \in functions <=> decision = "beep"
  BY DEF Defaults, Translated
<1>5. decision \in RaisesDecided => decision \in functions
  BY PotsAre DEF RaisesDecided, Translated
<1> SUFFICES DecidedOn(WithBackups(functions)) /\ Backed(WithBackups(functions))
  OBVIOUS
<1> HIDE DEF functions
<1>6. CASE decision = "beep"
  <2>1. WithBackups(functions) = functions \ {"check", "fold"}
    BY <1>4, <1>6 DEF WithBackups
  <2>2. decision \notin RaisesDecided
    BY <1>6, PotsAre DEF RaisesDecided
  <2> QED
    BY <1>2, <1>6, <2>1, <2>2 DEF DecidedOn, Backed, Below
<1>7. CASE decision # "beep"
  <2>1. WithBackups(functions) = CallBackups(RaiseBackups(functions))
    BY <1>4, <1>7 DEF WithBackups
  <2>2. Backed(WithBackups(functions))
    BY <1>2, <2>1, RaiseBackupsDown, CallBackupsDown
  <2>3. functions \subseteq WithBackups(functions)
    BY <2>1, BackupsAdd
  <2>4. decision \in RaisesDecided \ {"betpot_2_1"}
          => "call" \in WithBackups(functions)
    BY <1>5, <2>1, RaisesEndInACall
  <2> QED
    BY <1>3, <1>7, <2>2, <2>3, <2>4 DEF DecidedOn
<1> QED
  BY <1>6, <1>7

-----------------------------------------------------------------------------
(* An input that puts no more at stake than is meant.                        *)
Meant(i) ==
    \/ Stake(i) <= Stake(decision)
    \/ i = "allin" /\ table.adjust # "never" /\ decision \in Pots \cup {"betsize"}
    \/ table.buttons = {"fold", "allin"} /\ Stake(decision) >= 1
    \/ /\ i = "wrong" /\ (table.slider \/ table.box)
       /\ decision \in Pots \cup {"betsize", "allin"}

(* The bot has decided for an amount, or for a call that only allin can be.  *)
Bold == \/ decision \in Pots \cup {"allin", "betsize"}
        \/ FoldAllin /\ Stake(decision) >= 1

(* Then the raise button's bet, a wrong amount out of an entry, and allin for*)
(* an adjusted amount are meant.                                             *)
LEMMA BoldMeant ==
    ASSUME decision \in Decisions, Bold
    PROVE  /\ Meant("raise")
           /\ table.slider \/ table.box => Meant("wrong")
           /\ table.adjust # "never" => Meant("allin")
<1>1. CASE FoldAllin /\ Stake(decision) >= 1
  BY <1>1 DEF Meant, FoldAllin
<1>2. CASE decision \in Pots \cup {"allin", "betsize"}
  <2>1. Stake(decision) \in Nat /\ Stake(decision) >= 2
    BY <1>2, PotsAre, StakeValues
  <2>2. decision = "allin" => Stake("allin") <= Stake(decision)
    BY StakeValues
  <2> QED
    BY <1>2, <2>1, <2>2, StakeValues DEF Meant
<1> QED
  BY <1>1, <1>2 DEF Bold

(* What the decision turned on; f$betsize may since be on for an entry.      *)
Restrained(functions) ==
    /\ functions \subseteq Executable
    /\ \A f \in functions \ {"betsize"} :
         \/ Stake(f) <= Stake(decision)
         \/ f = "allin" /\ FoldAllin /\ Stake(decision) >= 1

(* f$betsize stands for an amount that is meant.                             *)
Amounts == Pots \cup {"betsize", "allin", "raise"}
SizeMeant(functions, amount) ==
    "betsize" \in functions => Bold /\ Meant(amount)

LEMMA BackedIsRestrained ==
    ASSUME decision \in Decisions, NEW functions, Backed(functions)
    PROVE  Restrained(functions) /\ SizeMeant(functions, "betsize")
<1>1. Restrained(functions)
  BY DEF Backed, Restrained
<1>2. "betsize" \in functions => Stake("betsize") <= Stake(decision)
  BY DEF Backed
<1>3. Stake("betsize") <= Stake(decision) => Bold
  BY PotsAre, StakeValues DEF Bold, Decisions, Buttons
<1> QED
  BY <1>1, <1>2, <1>3 DEF SizeMeant, Meant

LEMMA OnIsMeant ==
    ASSUME decision \in Decisions, Restrained(on), NEW f \in on \ {"betsize"}
    PROVE  Meant(f) /\ (f \in Pots \cup {"allin"} => Bold)
<1>1. Stake(decision) \in Nat
  BY StakesAreNumbers
<1>2. Stake(f) <= Stake(decision) \/ (FoldAllin /\ Stake(decision) >= 1)
  BY DEF Restrained
<1>3. Meant(f)
  BY <1>2 DEF Meant, FoldAllin
<1>4. f \in Pots \cup {"allin"} => Stake(f) \in Nat /\ Stake(f) >= 3
  BY PotsAre, StakeValues
<1>5. Stake(decision) >= 3 => decision \in Pots \cup {"allin", "betsize"}
  BY PotsAre, StakeValues DEF Decisions, Buttons
<1> QED
  BY <1>1, <1>2, <1>3, <1>4, <1>5 DEF Bold

(* An attempt for an amount bets that, the raise button's bet or a wrong     *)
(* amount, and leaves that or the minimum in f$betsize.                      *)
Fits(attempts, what) ==
    \A a \in attempts :
      /\ a.success \in BOOLEAN
      /\ a.sent \subseteq {what, "raise", "wrong"}
      /\ "wrong" \in a.sent => table.slider \/ table.box
      /\ a.typed \in {"none", what, "raise"}

LEMMA NotWrong == "wrong" \notin Amounts
BY PotsAre DEF Amounts

LEMMA AttemptFits ==
    ASSUME NEW what \in Amounts, NEW sent \in SUBSET {what}, NEW success \in BOOLEAN
    PROVE  Fits({Attempt(success, sent)}, what)
<1> DEFINE a == Attempt(success, sent)
<1>1. a.success = success /\ a.sent = sent /\ a.typed = "none"
  BY DEF Attempt
<1> SUFFICES Fits({a}, what)
  OBVIOUS
<1> HIDE DEF a
<1>2. "wrong" \notin sent
  BY NotWrong
<1> QED
  BY <1>1, <1>2 DEF Fits

LEMMA ClickFits ==
    ASSUME NEW what \in Amounts, NEW there
    PROVE  Fits(ClickOrSequence(what, there), what)
<1>1. \A a \in ClickOrSequence(what, there) :
        \E success \in BOOLEAN, sent \in SUBSET {what} : a = Attempt(success, sent)
  BY DEF ClickOrSequence, ClickSequence, Click, NotClickable
<1> QED
  BY <1>1, AttemptFits DEF Fits

LEMMA NothingFits == ASSUME NEW what \in Amounts PROVE Fits(NotClickable, what)
BY AttemptFits DEF NotClickable

LEMMA SlideFits == ASSUME NEW what \in Amounts PROVE Fits(Slide(what), what)
<1>1. CASE table.slider /\ "raise" \in table.buttons
  BY <1>1 DEF Fits, Slide, Entry
<1>2. CASE ~(table.slider /\ "raise" \in table.buttons)
  BY <1>2, NothingFits DEF Slide
<1> QED
  BY <1>1, <1>2

LEMMA BoxFits == ASSUME NEW what \in Amounts PROVE Fits(Box(what), what)
<1>1. CASE table.box /\ "raise" \in table.buttons
  <2>1. ASSUME NEW t \in {what, "raise"} PROVE Fits(Entry(t, t), what)
    BY <1>1, <2>1 DEF Fits, Entry
  <2>2. Fits(Entry("wrong", "none"), what)
    BY <1>1 DEF Fits, Entry
  <2>3. \A a \in Box(what) : \/ a \in Entry("wrong", "none")
                             \/ \E t \in {what, "raise"} : a \in Entry(t, t)
    BY <1>1 DEF Box, Adjusted
  <2> QED
    BY <2>1, <2>2, <2>3 DEF Fits
<1>2. CASE ~(table.box /\ "raise" \in table.buttons)
  BY <1>2, NothingFits DEF Box
<1> QED
  BY <1>1, <1>2

LEMMA ElseFits ==
    ASSUME NEW what, NEW first, NEW second, Fits(first, what), Fits(second, what)
    PROVE  Fits(Else(first, second), what)
<1> SUFFICES ASSUME NEW c \in Else(first, second) PROVE Fits({c}, what)
  BY DEF Fits
<1>1. CASE c \in first
  BY <1>1 DEF Fits
<1>2. CASE \E a \in first, b \in second :
             c = [success |-> b.success, sent |-> a.sent \cup b.sent,
                  typed |-> IF b.typed = "none" THEN a.typed ELSE b.typed]
  BY <1>2 DEF Fits
<1> QED
  BY <1>1, <1>2 DEF Else

LEMMA AllinFits == Fits(DoAllin, "allin")
<1>1. "allin" \in Amounts
  BY DEF Amounts
<1> QED
  <2>1. Fits(ClickOrSequence("allin", "allin" \in table.buttons), "allin")
    BY <1>1, ClickFits
  <2>2. Fits(Else(Slide("allin"), Box("allin")), "allin")
    BY <1>1, SlideFits, BoxFits, ElseFits
  <2> QED
    BY <2>1, <2>2, ElseFits DEF DoAllin

(* Where the state stands after an attempt for an amount that is meant.      *)
LEMMA DoOutcome ==
    ASSUME decision \in Decisions, Bold, NEW what \in Amounts, Meant(what),
           NEW attempts, Fits(attempts, what), NEW action, NEW otherwise,
           Do(attempts, action, otherwise),
           size \in Amounts, SizeMeant(on, size), \A i \in inputs : Meant(i)
    PROVE  /\ \A i \in inputs' : Meant(i)
           /\ size' \in Amounts /\ SizeMeant(on', size')
           /\ on' \in {on, on \cup {"betsize"}}
           /\ \/ registered' = action /\ pc' = "over"
              \/ registered' = registered /\ pc' = otherwise
<1>1. PICK a \in attempts :
        /\ inputs' = inputs \cup a.sent
        /\ IF a.typed = "none" THEN UNCHANGED <<on, size>>
                               ELSE on' = on \cup {"betsize"} /\ size' = a.typed
        /\ IF a.success THEN registered' = action /\ pc' = "over"
                        ELSE registered' = registered /\ pc' = otherwise
  BY DEF Do
<1>2. Meant("raise") /\ (table.slider \/ table.box => Meant("wrong"))
  BY BoldMeant
<1>3. \A i \in a.sent : Meant(i)
  BY <1>2 DEF Fits
<1>4. /\ size' \in Amounts /\ SizeMeant(on', size')
      /\ on' \in {on, on \cup {"betsize"}}
  <2>1. CASE a.typed = "none"
    BY <1>1, <2>1
  <2>2. CASE a.typed # "none"
    BY <1>1, <1>2, <2>2 DEF Fits, SizeMeant, Amounts
  <2> QED
    BY <2>1, <2>2
<1> QED
  BY <1>1, <1>3, <1>4

-----------------------------------------------------------------------------
Seen(button) == button \in on /\ button \in table.buttons

(* What cannot be done: raising, calling and checking come before folding.   *)
NoCall  == ~Seen("call")
NoCheck == ~(Seen("check") /\ ~table.owed)

ActionInv ==
    /\ table \in Tables /\ decision \in Decisions /\ pc \in Pcs
    /\ pot \in 1 .. 8
    /\ pc = "decide" => inputs = {} /\ registered = "none"
    /\ pc # "decide" => DecidedOn(on) /\ Restrained(on) /\ SizeMeant(on, size)
    /\ size \in Amounts /\ (pc = "decide" => size = "betsize")
    /\ pc \notin {"decide", "over"} => registered = "none"
    /\ pc \in {"check", "fold"} => NoCall
    /\ pc = "fold" => NoCheck
    /\ registered = "fold" => "fold" \in on /\ NoCall /\ NoCheck
    /\ pc = "over" /\ registered = "none" => ~Seen("fold")
    /\ \A i \in inputs : Meant(i)

LEMMA SevenPots == Len(BetPots) = 7 /\ \A i \in 1 .. 7 : BetPots[i] \in Pots
BY DEF BetPots, Pots

LEMMA InitAction == Init => ActionInv
BY DEF Init, ActionInv, Pcs, Amounts

(* All this is about the table and the decision, which no step changes.      *)
LEMMA SameDecision ==
    ASSUME UNCHANGED <<table, decision>>
    PROVE  /\ \A i : Meant(i)' <=> Meant(i)
           /\ DecidedOn(on') => DecidedOn(on)'
           /\ Restrained(on') => Restrained(on)'
           /\ SizeMeant(on', size') => SizeMeant(on, size)'
BY DEF Meant, DecidedOn, Restrained, SizeMeant, Bold, FoldAllin

LEMMA DecideStep == ActionInv /\ Decide => ActionInv'
<1> SUFFICES ASSUME ActionInv, Decide PROVE ActionInv'
  OBVIOUS
<1>1. /\ on' = WithBackups(Defaults \cup Translated)
      /\ pc' \in IF on' = {} THEN {"over"} ELSE {"allin", "no mutex"}
      /\ UNCHANGED <<table, decision, size, pot, inputs, registered>>
      /\ inputs = {} /\ registered = "none" /\ size = "betsize"
      /\ decision \in Decisions
  BY DEF Decide, ActionInv
<1>2. DecidedOn(on') /\ Backed(on')
  BY <1>1, DecisionTurnsOn
<1>3. Restrained(on') /\ SizeMeant(on', size')
  BY <1>1, <1>2, BackedIsRestrained
<1>4. DecidedOn(on)' /\ Restrained(on)' /\ SizeMeant(on, size)'
  BY <1>1, <1>2, <1>3, SameDecision
<1> QED
  BY <1>1, <1>4 DEF ActionInv, Pcs, Seen

(* The attempts to bet: they register no fold and do not end without action. *)
Bets == Allin \/ BetPot \/ NoBetPot \/ DoBetsize

BetState == /\ \A i \in inputs' : Meant(i)
            /\ size' \in Amounts /\ SizeMeant(on', size')
            /\ on' \in {on, on \cup {"betsize"}}

LEMMA BetOutcome ==
    ASSUME ActionInv, Bets
    PROVE  /\ UNCHANGED <<table, decision>> /\ pot' \in 1 .. 8 /\ BetState
           /\ pc \notin {"decide", "over", "check", "fold"}
           /\ \/ registered' \in {"allin", "betsize"} /\ pc' = "over"
              \/ registered' = registered /\ pc' \in {"betpot", "betsize", "raise"}
<1>0. /\ decision \in Decisions /\ pot \in 1 .. 8 /\ \A i \in inputs : Meant(i)
      /\ size \in Amounts
  BY DEF ActionInv
<1>a. pc # "decide" => Restrained(on) /\ SizeMeant(on, size)
  BY DEF ActionInv
<1>b. "allin" \in Amounts
  BY DEF Amounts
<1>1. CASE Allin
  <2>1. pc = "allin" /\ UNCHANGED <<table, decision, pot>>
    BY <1>1 DEF Allin
  <2>2. CASE "allin" \in on
    <3>1. Do(DoAllin, "allin", "betpot")
      BY <1>1, <2>2 DEF Allin
    <3>2. Meant("allin") /\ Bold
      BY <1>0, <1>a, <2>1, <2>2, OnIsMeant
    <3>3. /\ BetState
          /\ \/ registered' = "allin" /\ pc' = "over"
             \/ registered' = registered /\ pc' = "betpot"
      BY <1>0, <1>a, <1>b, <2>1, <3>1, <3>2, AllinFits, DoOutcome DEF BetState
    <3> QED
      BY <1>0, <2>1, <3>3
  <2>3. CASE "allin" \notin on
    BY <1>0, <1>1, <1>a, <2>1, <2>3 DEF Allin, Skip, BetState
  <2> QED
    BY <2>2, <2>3
<1>2. CASE BetPot
  <2> DEFINE p == BetPots[pot]
             attempts == Else(ClickOrSequence(p, p \in table.pots), Box(p))
  <2>1. /\ pc = "betpot" /\ UNCHANGED <<table, decision>>
        /\ pot \in 1 .. 7 /\ p \in Pots
        /\ pot' = pot \/ pot' = pot + 1
    BY <1>0, <1>2, SevenPots DEF BetPot
  <2>2. \/ p \notin on /\ Skip("betpot")
        \/ p \in on /\ table.adjust = "decided" /\ Do(DoAllin, "allin", "betsize")
        \/ p \in on /\ Do(attempts, "betsize", "betpot")
    BY <1>2 DEF BetPot
  <2>3. p \in Amounts /\ p # "betsize"
    BY <2>1, PotsAre DEF Amounts
  <2>4. Fits(attempts, p)
    <3>1. Fits(ClickOrSequence(p, p \in table.pots), p) /\ Fits(Box(p), p)
      BY <2>3, ClickFits, BoxFits
    <3> QED
      BY <3>1, ElseFits
  <2>5. p \in on => Meant(p) /\ Bold
    BY <1>0, <1>a, <2>1, <2>3, OnIsMeant
  <2> HIDE DEF p, attempts
  <2>6. CASE p \notin on /\ Skip("betpot")
    BY <1>0, <1>a, <2>1, <2>6 DEF Skip, BetState
  <2>7. CASE p \in on /\ table.adjust = "decided" /\ Do(DoAllin, "allin", "betsize")
    <3>1. Meant("allin")
      BY <1>0, <2>5, <2>7, BoldMeant
    <3>2. /\ BetState
          /\ \/ registered' = "allin" /\ pc' = "over"
             \/ registered' = registered /\ pc' = "betsize"
      BY <1>0, <1>a, <1>b, <2>1, <2>5, <2>7, <3>1, AllinFits, DoOutcome DEF BetState
    <3> QED
      BY <1>0, <2>1, <3>2
  <2>8. CASE p \in on /\ Do(attempts, "betsize", "betpot")
    <3>1. /\ BetState
          /\ \/ registered' = "betsize" /\ pc' = "over"
             \/ registered' = registered /\ pc' = "betpot"
      BY <1>0, <1>a, <2>1, <2>3, <2>4, <2>5, <2>8, DoOutcome DEF BetState
    <3> QED
      BY <1>0, <2>1, <3>1
  <2> QED
    BY <2>2, <2>6, <2>7, <2>8
<1>3. CASE NoBetPot
  BY <1>0, <1>a, <1>3 DEF NoBetPot, Skip, BetState
<1>4. CASE DoBetsize
  <2>1. pc = "betsize" /\ UNCHANGED <<table, decision, pot>>
    BY <1>4 DEF DoBetsize
  <2>2. CASE "betsize" \notin on
    BY <1>0, <1>4, <1>a, <2>1, <2>2 DEF DoBetsize, Skip, BetState
  <2>3. CASE "betsize" \in on
    <3> DEFINE attempts == Else(Slide(size), Box(size))
    <3>1. Bold /\ Meant(size)
      BY <1>a, <2>1, <2>3 DEF SizeMeant
    <3>2. PICK toAllin \in ToAllin :
            IF toAllin THEN Do(DoAllin, "allin", "raise")
                       ELSE Do(attempts, "betsize", "raise")
      BY <1>4, <2>3 DEF DoBetsize
    <3>3. Fits(attempts, size)
      BY <1>0, SlideFits, BoxFits, ElseFits
    <3> HIDE DEF attempts
    <3>4. CASE toAllin
      <4>1. table.adjust # "never"
        BY <3>2, <3>4 DEF ToAllin
      <4>2. Meant("allin")
        BY <1>0, <3>1, <4>1, BoldMeant
      <4>3. /\ BetState
            /\ \/ registered' = "allin" /\ pc' = "over"
               \/ registered' = registered /\ pc' = "raise"
        BY <1>0, <1>a, <1>b, <2>1, <3>1, <3>2, <3>4, <4>2, AllinFits, DoOutcome
           DEF BetState
      <4> QED
        BY <1>0, <2>1, <4>3
    <3>5. CASE ~toAllin
      <4>1. /\ BetState
            /\ \/ registered' = "betsize" /\ pc' = "over"
               \/ registered' = registered /\ pc' = "raise"
        BY <1>0, <1>a, <2>1, <3>1, <3>2, <3>3, <3>5, DoOutcome DEF BetState
      <4> QED
        BY <1>0, <2>1, <4>1
    <3> QED
      BY <3>4, <3>5
  <2> QED
    BY <2>2, <2>3
<1> QED
  BY <1>1, <1>2, <1>3, <1>4 DEF Bets

LEMMA BetStep == ActionInv /\ Bets => ActionInv'
<1> SUFFICES ASSUME ActionInv, Bets PROVE ActionInv'
  OBVIOUS
<1>1. /\ pc \notin {"decide", "over", "check", "fold"} /\ registered = "none"
      /\ UNCHANGED <<table, decision>> /\ pot' \in 1 .. 8 /\ BetState
      /\ \/ registered' \in {"allin", "betsize"} /\ pc' = "over"
         \/ registered' = registered /\ pc' \in {"betpot", "betsize", "raise"}
  BY BetOutcome DEF ActionInv
<1>2. DecidedOn(on') /\ Restrained(on')
  <2>1. DecidedOn(on) /\ Restrained(on) /\ on' \in {on, on \cup {"betsize"}}
    BY <1>1 DEF ActionInv, BetState
  <2> QED
    BY <2>1, ExecutableAre DEF DecidedOn, Restrained
<1>3. /\ DecidedOn(on)' /\ Restrained(on)' /\ SizeMeant(on, size)'
      /\ size' \in Amounts /\ \A i \in inputs' : Meant(i)'
  BY <1>1, <1>2, SameDecision DEF BetState
<1>4. pc' \in Pcs /\ registered' # "fold" /\ ~(pc' = "over" /\ registered' = "none")
  BY <1>1 DEF Pcs, Following
<1>5. pc' \notin {"decide", "check", "fold"} /\ (pc' # "over" => registered' = "none")
  BY <1>1
<1>6. table' \in Tables /\ decision' \in Decisions
  BY <1>1 DEF ActionInv
<1> QED
  BY <1>1, <1>3, <1>4, <1>5, <1>6 DEF ActionInv

LEMMA RaiseCallCheckFoldStep == ActionInv /\ RaiseCallCheckFold => ActionInv'
<1> SUFFICES ASSUME ActionInv, RaiseCallCheckFold PROVE ActionInv'
  OBVIOUS
<1>1. /\ pc \in {"raise", "call", "check", "fold"} /\ registered = "none"
      /\ UNCHANGED <<table, decision, pot>> /\ decision \in Decisions
      /\ DecidedOn(on) /\ Restrained(on) /\ SizeMeant(on, size) /\ size \in Amounts
  BY DEF RaiseCallCheckFold, Following, ActionInv
<1>a. UNCHANGED <<on, size>>
  BY DEF RaiseCallCheckFold, Do, Click, Attempt, Skip
<1>2. /\ DecidedOn(on)' /\ Restrained(on)' /\ SizeMeant(on, size)' /\ size' \in Amounts
      /\ \A i \in inputs : Meant(i)'
  BY <1>1, <1>a, SameDecision DEF ActionInv
<1>3. CASE Seen(pc) /\ ~(pc = "check" /\ table.owed)
  <2>1. inputs' = inputs \cup {pc} /\ registered' = pc /\ pc' = "over"
    BY <1>3 DEF RaiseCallCheckFold, Do, Click, Attempt, Seen
  <2>2. Meant(pc)
    BY <1>1, <1>3, OnIsMeant DEF Seen
  <2>3. \A i \in inputs' : Meant(i)'
    BY <1>1, <1>2, <2>1, <2>2, SameDecision
  <2> QED
    BY <1>1, <1>2, <1>3, <1>a, <2>1, <2>3
       DEF ActionInv, Pcs, Seen, NoCall, NoCheck
<1>4. CASE ~(Seen(pc) /\ ~(pc = "check" /\ table.owed))
  <2>1. UNCHANGED <<inputs, registered>> /\ pc' = Following[pc]
    BY <1>4 DEF RaiseCallCheckFold, Skip, Seen
  <2>2. /\ pc = "raise" => pc' = "call"
        /\ pc = "call" => pc' = "check"
        /\ pc = "check" => pc' = "fold"
        /\ pc = "fold" => pc' = "over"
    BY <2>1 DEF Following
  <2> QED
    BY <1>1, <1>2, <1>4, <1>a, <2>1, <2>2
       DEF ActionInv, Pcs, Seen, NoCall, NoCheck, Following
<1> QED
  BY <1>3, <1>4

LEMMA ActionStep == ActionInv /\ [Next]_vars => ActionInv'
<1>1. ActionInv /\ UNCHANGED vars => ActionInv'
  BY DEF vars, ActionInv, DecidedOn, Restrained, SizeMeant, Bold, FoldAllin, Meant, Seen, NoCall, NoCheck
<1> QED
  BY <1>1, DecideStep, BetStep, RaiseCallCheckFoldStep DEF Next, Bets

LEMMA ActionInvariant == Spec => []ActionInv
BY InitAction, ActionStep, PTL DEF Spec

-----------------------------------------------------------------------------
(* Whatever fails, no input puts more at stake than the bot decided to, for  *)
(* every set of buttons: the chain of backups only goes down, and so does the*)
(* amount that an entry leaves in f$betsize; but for the three exceptions    *)
(* that NeverMoreThanDecided names.                                          *)
THEOREM NeverMore == Spec => []NeverMoreThanDecided
<1>1. ActionInv => NeverMoreThanDecided
  BY DEF ActionInv, Meant, NeverMoreThanDecided
<1> QED
  BY <1>1, ActionInvariant, PTL

(* A turn with a fold button is never let pass, unless the bot only beeps or *)
(* the mutex cannot be had: fold is on, and tried last.                      *)
THEOREM AlwaysActs == Spec => []ActsInTime
<1>1. ActionInv => ActsInTime
  BY DEF ActionInv, DecidedOn, Seen, ActsInTime
<1> QED
  BY <1>1, ActionInvariant, PTL

(* No bot folds where checking is free and possible.                         *)
THEOREM NoFreeFold == Spec => []NeverFoldsForFree
<1>1. ActionInv => NeverFoldsForFree
  <2> SUFFICES ASSUME ActionInv, ~table.owed, "check" \in table.buttons,
                      registered = "fold"
               PROVE  FALSE
    BY DEF NeverFoldsForFree
  <2>1. DecidedOn(on) /\ "fold" \in on /\ NoCheck
    BY DEF ActionInv
  <2> QED
    BY <2>1 DEF DecidedOn, NoCheck, Seen
<1> QED
  BY <1>1, ActionInvariant, PTL

(* No raise that was decided ends in a fold where a call is possible, except *)
(* RaiseTwoPot, which has no backup.                                         *)
THEOREM NoRaiseFolds == Spec => []RaisesAreBacked
<1>1. ActionInv => RaisesAreBacked
  <2> SUFFICES ASSUME ActionInv, decision \in RaisesDecided \ {"betpot_2_1"},
                      "call" \in table.buttons, registered = "fold"
               PROVE  FALSE
    BY DEF RaisesAreBacked
  <2>1. DecidedOn(on) /\ NoCall
    BY DEF ActionInv
  <2> QED
    BY <2>1 DEF DecidedOn, NoCall, Seen
<1> QED
  BY <1>1, ActionInvariant, PTL
=============================================================================
