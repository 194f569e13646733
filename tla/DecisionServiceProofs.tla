----------------------- MODULE DecisionServiceProofs -----------------------
(***************************************************************************)
(* Proofs about DecisionService, for any table size, any cards, any delays *)
(* between the requests and any number of hands.                           *)
(***************************************************************************)
EXTENDS DecisionService, FiniteSetTheorems, TLAPS

-----------------------------------------------------------------------------
(* What every step is: an evaluation of some table, the answer of a        *)
(* service that has no table, or nothing.                                  *)

EvaluationOf(t, new, delay) ==
  /\ table' = t /\ ready' = TRUE /\ noMyTurn' = noMyTurn
  /\ new => hand < MaxHands
            /\ distinct' = /\ hand > 0
                           /\ t.dealer # table.dealer
                           /\ t.hole[1] # table.hole[1] /\ t.hole[2] # table.hole[2]
                           /\ t.hero = userchair
  /\ ~new => /\ hand > 0 /\ distinct' = distinct /\ t.board >= table.board
             /\ t.dealer = table.dealer /\ t.hero = table.hero /\ t.hole = table.hole
  /\ Evaluate(t, new, delay)

AnsweredIsPopulated == ready => hand > 0

LEMMA Steps ==
  ASSUME TypeOK, AnsweredIsPopulated, Next
  PROVE  \/ \E t \in Table, new \in BOOLEAN, delay \in Delays : EvaluationOf(t, new, delay)
         \/ \E delay \in Delays : AnswerUnevaluated(delay)
<1>1. PICK delay \in Delays :
         \/ \E t \in Table : DecideFirstOfHand(t, delay)
         \/ \E board \in Boards : DecideAgain([table EXCEPT !.board = board], delay)
         \/ DecideWithoutBody(delay)
         \/ AnswerUnevaluated(delay)
  BY DEF Next
<1>2. ASSUME NEW t \in Table, DecideFirstOfHand(t, delay)
      PROVE  EvaluationOf(t, TRUE, delay)
  BY <1>2 DEF DecideFirstOfHand, Populate, EvaluationOf
<1>3. ASSUME NEW board \in Boards, DecideAgain([table EXCEPT !.board = board], delay)
      PROVE  \E t \in Table : EvaluationOf(t, FALSE, delay)
  <2> DEFINE t == [table EXCEPT !.board = board]
  <2>1. t \in Table /\ t.dealer = table.dealer /\ t.hero = table.hero /\ t.hole = table.hole
    BY DEF TypeOK, Table
  <2>2. EvaluationOf(t, FALSE, delay)
    BY <1>3, <2>1 DEF DecideAgain, Populate, EvaluationOf
  <2> QED BY <2>1, <2>2
<1>4. ASSUME DecideWithoutBody(delay)
      PROVE  EvaluationOf(table, FALSE, delay)
  <2>1. table.board >= table.board
    <3>1. table.board \in {0, 3, 4, 5}
      BY BoardsAssumption DEF TypeOK, Table
    <3> QED BY <3>1
  <2> QED BY <1>4, <2>1 DEF DecideWithoutBody, requestVars, EvaluationOf, AnsweredIsPopulated
<1> QED BY <1>1, <1>2, <1>3, <1>4 DEF TypeOK

LEMMA ClockIsKept ==
  ASSUME NEW delay \in Delays, NEW clock \in Clock
  PROVE  After(delay, clock) \in Clock
BY DelaysAssumption DEF After, Clock, Throttle

-----------------------------------------------------------------------------
(* The type invariant. *)

TypeInv == TypeOK /\ AnsweredIsPopulated

THEOREM InitType == Init => TypeInv
<1> SUFFICES ASSUME Init PROVE TypeInv
  OBVIOUS
<1>1. Table # {}
  <2>1. PICK c \in Chairs : TRUE
    BY ChairsAssumption
  <2>2. PICK k \in Card : TRUE
    BY CardsAssumption
  <2>3. PICK b \in Boards : TRUE
    BY BoardsAssumption
  <2>4. [dealer |-> c, hero |-> c, hole |-> <<k, k>>, board |-> b] \in Table
    BY DEF Table
  <2> QED BY <2>4
<1>2. table \in Table
  BY <1>1 DEF Init
<1>3. calm \in BOOLEAN /\ noMyTurn \in BOOLEAN /\ AnsweredIsPopulated
  BY DEF Init, AnsweredIsPopulated
<1>4. NoCards \in Cards
  BY DEF NoCards, Cards
<1>5. history \in [Betrounds -> 0 .. MaxHands]
  BY MaxHandsAssumption DEF Init
<1>6. hand \in 0 .. MaxHands /\ elapsed \in Clock /\ elapsedhand \in Clock /\ gap \in Clock
  BY MaxHandsAssumption DEF Init, Clock, Throttle
<1>7. /\ last \in [dealerchair : Chairs \cup {Undefined}, cards : Cards,
                   board : Boards \cup {Undefined}]
      /\ window \in (SUBSET Method) \X (SUBSET Method) \X (SUBSET Method)
  BY <1>4 DEF Init, InitDetector, NothingSeen
<1>8. /\ isHandreset \in BOOLEAN /\ ready \in BOOLEAN
      /\ distinct \in BOOLEAN /\ muted \in BOOLEAN /\ early \in BOOLEAN
  BY DEF Init, InitDetector
<1>9. /\ handsPlayed \in 0..MaxHandsPlayed /\ resets \in Nat /\ heartbeats \in 0 .. 2
      /\ userchair \in Chairs \cup {Undefined} /\ dealer \in Chairs \cup {Undefined}
  BY DEF Init, InitDetector, MaxHandsPlayed
<1> QED BY <1>2, <1>3, <1>5, <1>6, <1>7, <1>8, <1>9 DEF TypeInv, TypeOK

LEMMA TypeOfDetector ==
  ASSUME TypeOK,
         NEW t \in Table, NEW other \in SUBSET OtherMethods, NEW nowhand, NEW now,
         OnNewHeartbeat(dealer, UsersCards(t), t.board, other, nowhand, now,
                        userchair # Undefined)
  PROVE  /\ last' \in [dealerchair : Chairs \cup {Undefined}, cards : Cards,
                       board : Boards \cup {Undefined}]
         /\ window' \in (SUBSET Method) \X (SUBSET Method) \X (SUBSET Method)
         /\ isHandreset' \in BOOLEAN /\ handsPlayed' \in 0..MaxHandsPlayed
<1>1. UsersCards(t) \in Cards
  BY DEF UsersCards, NoCards, Cards, Table
<1>2. last' = [dealerchair |-> dealer, cards |-> UsersCards(t), board |-> t.board]
  BY DEF OnNewHeartbeat
<1>3. BitVectorFiringHandresetMethods(dealer, UsersCards(t), t.board, other) \in SUBSET Method
  BY DEF BitVectorFiringHandresetMethods
<1>4. \/ window' = NothingSeen
      \/ window' = <<BitVectorFiringHandresetMethods(dealer, UsersCards(t), t.board, other),
                     window[1], window[2]>>
  BY DEF OnNewHeartbeat
<1>5. window' \in (SUBSET Method) \X (SUBSET Method) \X (SUBSET Method)
  BY <1>3, <1>4 DEF TypeOK, NothingSeen
<1>6. isHandreset' \in BOOLEAN
  BY DEF OnNewHeartbeat
<1>7. \/ handsPlayed' = handsPlayed
      \/ handsPlayed < MaxHandsPlayed /\ handsPlayed' = handsPlayed + 1
  BY DEF OnNewHeartbeat
<1>8. handsPlayed' \in 0..MaxHandsPlayed
  BY <1>7 DEF TypeOK, MaxHandsPlayed
<1> QED BY <1>1, <1>2, <1>5, <1>6, <1>8 DEF TypeOK, Table

LEMMA RoundOfTable == ASSUME NEW t \in Table PROVE Betround(t) \in Betrounds
BY DEF Betround, Betrounds, Preflop, River

LEMMA NextType == TypeInv /\ [Next]_vars => TypeInv'
<1> SUFFICES ASSUME TypeInv, [Next]_vars PROVE TypeInv'
  OBVIOUS
<1> USE DEF TypeInv
<1>1. ASSUME NEW t \in Table, NEW new \in BOOLEAN, NEW delay \in Delays,
             EvaluationOf(t, new, delay)
      PROVE  TypeInv'
  <2> DEFINE h == IF new THEN hand + 1 ELSE hand
             now == After(delay, elapsed)
             nowhand == After(delay, elapsedhand)
             before == IF new THEN 0 ELSE resets
  <2>1. PICK other \in OtherEvidence :
          /\ EvaluateAll(t, h, other, now, nowhand)
          /\ hand' = h
          /\ heartbeats' = IF new THEN 1 ELSE 2
          /\ early' = ((~new /\ early) \/ Betround(t) < River)
          /\ muted' = \/ ~new /\ muted
                      \/ before = 0 /\ TooShortlyAfterLastHandreset(nowhand, now)
          /\ resets' = IF isHandreset' THEN before + 1 ELSE before
          /\ gap' = After(delay, IF isHandreset THEN 0 ELSE gap)
          /\ calm' = calm
    BY <1>1 DEF EvaluationOf, Evaluate
  <2>2. other \in SUBSET OtherMethods
    BY DEF OtherEvidence
  <2>3. now \in Clock /\ nowhand \in Clock
    BY ClockIsKept DEF TypeOK
  <2>4. h \in 1 .. MaxHands
    <3>1. CASE new
      <4>1. hand < MaxHands /\ h = hand + 1
        BY <1>1, <3>1 DEF EvaluationOf
      <4> QED BY <4>1, MaxHandsAssumption DEF TypeOK
    <3>2. CASE ~new
      <4>1. hand > 0 /\ h = hand
        BY <1>1, <3>2 DEF EvaluationOf
      <4> QED BY <4>1, MaxHandsAssumption DEF TypeOK
    <3> QED BY <3>1, <3>2
  <2>5. /\ last' \in [dealerchair : Chairs \cup {Undefined}, cards : Cards,
                      board : Boards \cup {Undefined}]
        /\ window' \in (SUBSET Method) \X (SUBSET Method) \X (SUBSET Method)
        /\ isHandreset' \in BOOLEAN /\ handsPlayed' \in 0..MaxHandsPlayed
    <3>1. OnNewHeartbeat(dealer, UsersCards(t), t.board, other, nowhand, now,
                         userchair # Undefined)
      BY <2>1 DEF EvaluateAll
    <3> HIDE DEF now, nowhand
    <3> QED BY <2>2, <3>1, TypeOfDetector
  <2>6. userchair' \in Chairs \cup {Undefined} /\ dealer' \in Chairs \cup {Undefined}
    BY <2>1 DEF EvaluateAll, UpdateUserchair, CalculateUserChair, TypeOK, Table
  <2>7. history' \in [Betrounds -> 0 .. MaxHands]
    <3> HIDE DEF h
    <3>1. UpdateHistory(t, h)
      BY <2>1 DEF EvaluateAll
    <3>2. ASSUME NEW past \in [Betrounds -> 0 .. MaxHands]
          PROVE  CalculateHistory(past, t, h) \in [Betrounds -> 0 .. MaxHands]
      <4>1. h \in 0 .. MaxHands
        BY <2>4, MaxHandsAssumption
      <4> HIDE DEF h
      <4> QED BY <4>1 DEF CalculateHistory
    <3>3. [r \in Betrounds |-> 0] \in [Betrounds -> 0 .. MaxHands]
      BY MaxHandsAssumption
    <3> QED BY <3>1, <3>2, <3>3 DEF UpdateHistory, TypeOK
  <2>8. elapsed' \in Clock /\ elapsedhand' \in Clock
    BY <2>1, <2>3 DEF EvaluateAll, Clock, Throttle
  <2>9. gap' \in Clock
    <3>1. (IF isHandreset THEN 0 ELSE gap) \in Clock
      <4>1. 0 \in Clock /\ gap \in Clock
        BY DEF TypeOK, Clock, Throttle
      <4> QED BY <4>1
    <3> QED BY <2>1, <3>1, ClockIsKept
  <2>10. resets' \in Nat
    BY <2>1 DEF TypeOK
  <2>11. muted' \in BOOLEAN /\ early' \in BOOLEAN /\ calm' \in BOOLEAN
    BY <2>1 DEF TypeOK
  <2>12. distinct' \in BOOLEAN /\ ready' \in BOOLEAN /\ noMyTurn' \in BOOLEAN /\ table' \in Table
    BY <1>1 DEF EvaluationOf, TypeOK
  <2>13. hand' \in 0 .. MaxHands /\ heartbeats' \in 0 .. 2 /\ hand' > 0
    BY <2>1, <2>4
  <2> QED
    BY <2>5, <2>6, <2>7, <2>8, <2>9, <2>10, <2>11, <2>12, <2>13
    DEF TypeOK, AnsweredIsPopulated
<1>2. ASSUME NEW delay \in Delays, AnswerUnevaluated(delay)
      PROVE  TypeInv'
  <2>1. elapsed' \in Clock /\ elapsedhand' \in Clock /\ gap' \in Clock
    BY <1>2, ClockIsKept DEF AnswerUnevaluated, TypeOK
  <2>2. UNCHANGED <<last, window, isHandreset, handsPlayed, ready, noMyTurn, table, userchair,
                    dealer, history, hand, heartbeats, distinct, muted, early, resets, calm>>
    BY <1>2 DEF AnswerUnevaluated, detectorVars, requestVars
  <2> QED BY <2>1, <2>2 DEF TypeOK, AnsweredIsPopulated
<1>3. CASE UNCHANGED vars
  BY <1>3 DEF TypeOK, AnsweredIsPopulated, vars, detectorVars, requestVars, engineVars, handVars
<1> QED BY <1>1, <1>2, <1>3, Steps

(* Every variable keeps its type; in particular the window never holds     *)
(* anything but methods and the history nothing but hands dealt.           *)
THEOREM TypeCorrect == Spec => []TypeOK
<1>1. TypeInv => TypeOK
  BY DEF TypeInv
<1> QED BY InitType, NextType, <1>1, PTL DEF Spec
-----------------------------------------------------------------------------
(* The hero.  Once a hand was evaluated before the river, the user chair   *)
(* shows its cards in every later request of this hand and is kept.        *)

THEOREM HeroCorrect == Spec => []HeroFollowsTheCards
<1>1. Init => HeroFollowsTheCards
  BY DEF Init, HeroFollowsTheCards
<1>2. TypeInv /\ HeroFollowsTheCards /\ [Next]_vars => HeroFollowsTheCards'
  <2> SUFFICES ASSUME TypeInv, HeroFollowsTheCards, [Next]_vars
               PROVE  HeroFollowsTheCards'
    OBVIOUS
  <2>1. ASSUME NEW t \in Table, NEW new \in BOOLEAN, NEW delay \in Delays,
               EvaluationOf(t, new, delay)
        PROVE  HeroFollowsTheCards'
    <3> SUFFICES ASSUME ~noMyTurn, early'
                 PROVE  userchair' = t.hero
      BY <2>1 DEF EvaluationOf, HeroFollowsTheCards
    <3>1. userchair' = CalculateUserChair(t)
      BY <2>1 DEF EvaluationOf, Evaluate, EvaluateAll, UpdateUserchair, IsMyTurn
    <3>2. (~new /\ early) \/ Betround(t) < River
      BY <2>1 DEF EvaluationOf, Evaluate
    <3>3. CASE Betround(t) < River
      BY <3>1, <3>3 DEF CalculateUserChair
    <3>4. CASE ~new /\ early
      <4>1. userchair = t.hero
        BY <2>1, <3>4 DEF EvaluationOf, HeroFollowsTheCards
      <4> QED BY <3>1, <4>1 DEF CalculateUserChair
    <3> QED BY <3>2, <3>3, <3>4
  <2>2. ASSUME NEW delay \in Delays, AnswerUnevaluated(delay)
        PROVE  HeroFollowsTheCards'
    BY <2>2 DEF AnswerUnevaluated, HeroFollowsTheCards, requestVars
  <2>3. CASE UNCHANGED vars
    BY <2>3 DEF HeroFollowsTheCards, vars, requestVars, engineVars, handVars
  <2> QED BY <2>1, <2>2, <2>3, Steps DEF TypeInv
<1> QED BY InitType, NextType, <1>1, <1>2, PTL DEF Spec

-----------------------------------------------------------------------------
(* The distance of the resets.  The time engine measures what the caller   *)
(* measures, except that it starts with the connection.                    *)

ClockInv ==
  /\ elapsedhand = IF isHandreset THEN 0 ELSE gap
  /\ ~ready => ~isHandreset

DistanceInv == ClockInv /\ ResetsKeepDistance

THEOREM DistanceCorrect == Spec => []ResetsKeepDistance
<1>1. Init => DistanceInv
  BY DEF Init, InitDetector, DistanceInv, ClockInv, ResetsKeepDistance
<1>2. TypeInv /\ DistanceInv /\ [Next]_vars => DistanceInv'
  <2> SUFFICES ASSUME TypeInv, DistanceInv, [Next]_vars
               PROVE  DistanceInv'
    OBVIOUS
  <2>1. ASSUME NEW t \in Table, NEW new \in BOOLEAN, NEW delay \in Delays,
               EvaluationOf(t, new, delay)
        PROVE  DistanceInv'
    <3> DEFINE now == After(delay, elapsed)
               nowhand == After(delay, elapsedhand)
    <3>1. gap' = nowhand
      BY <2>1 DEF EvaluationOf, Evaluate, DistanceInv, ClockInv
    <3>2. PICK h, other :
            /\ OnNewHeartbeat(dealer, UsersCards(t), t.board, other, nowhand, now,
                              userchair # Undefined)
            /\ elapsed' = now
            /\ elapsedhand' = IF isHandreset' THEN 0 ELSE nowhand
      BY <2>1 DEF EvaluationOf, Evaluate, EvaluateAll
    <3>3. ClockInv'
      BY <2>1, <3>1, <3>2 DEF ClockInv, EvaluationOf
    <3>4. isHandreset' => ~TooShortlyAfterLastHandreset(nowhand, now)
      BY <3>2 DEF OnNewHeartbeat
    <3>5. now \in Clock /\ nowhand \in Clock
      BY ClockIsKept DEF TypeInv, TypeOK
    <3> HIDE DEF now, nowhand
    <3>6. ResetsKeepDistance'
      <4> SUFFICES ASSUME isHandreset', elapsed' > Throttle PROVE gap' >= Throttle
        BY DEF ResetsKeepDistance
      <4>1. ~(nowhand < Throttle)
        BY <3>2, <3>4 DEF TooShortlyAfterLastHandreset
      <4> QED BY <3>1, <3>5, <4>1 DEF Clock, Throttle
    <3> QED BY <3>3, <3>6 DEF DistanceInv
  <2>2. ASSUME NEW delay \in Delays, AnswerUnevaluated(delay)
        PROVE  DistanceInv'
    <3>1. ~isHandreset /\ ~isHandreset' /\ ready' = ready
      BY <2>2 DEF AnswerUnevaluated, DistanceInv, ClockInv, detectorVars, requestVars
    <3>2. elapsedhand' = gap'
      BY <2>2, <3>1 DEF AnswerUnevaluated, DistanceInv, ClockInv
    <3> QED BY <3>1, <3>2 DEF DistanceInv, ClockInv, ResetsKeepDistance
  <2>3. CASE UNCHANGED vars
    BY <2>3 DEF DistanceInv, ClockInv, ResetsKeepDistance, vars, detectorVars,
                requestVars, engineVars, handVars
  <2> QED BY <2>1, <2>2, <2>3, Steps DEF TypeInv
<1>3. DistanceInv => ResetsKeepDistance
  BY DEF DistanceInv
<1> QED BY InitType, NextType, <1>1, <1>2, <1>3, PTL DEF Spec
-----------------------------------------------------------------------------
(* Counting methods. *)

LEMMA TwoMethods ==
  ASSUME NEW S, IsFiniteSet(S), NEW a \in S, NEW b \in S, a # b
  PROVE  Cardinality(S) >= 2
<1>1. /\ IsFiniteSet(S \ {a})
      /\ Cardinality(S \ {a}) = Cardinality(S) - 1
  BY FS_RemoveElement
<1>2. Cardinality(S \ {a}) # 0
  BY <1>1, FS_EmptySet
<1> QED BY <1>1, <1>2, FS_CardinalityType

LEMMA OneMethod ==
  ASSUME NEW S, NEW a, S \subseteq {a}
  PROVE  ~(Cardinality(S) >= 2)
<1>1. IsFiniteSet({a}) /\ Cardinality({a}) = 1
  BY FS_Singleton
<1>2. IsFiniteSet(S) /\ Cardinality(S) <= Cardinality({a})
  BY <1>1, FS_Subset
<1> QED BY <1>1, <1>2, FS_CardinalityType

LEMMA MethodsAreFinite == IsFiniteSet(Method)
<1>1. IsFiniteSet({"dealerchair", "usercards", "communitycards"})
  <2>1. IsFiniteSet({"dealerchair"} \cup {"usercards"})
    BY FS_Singleton, FS_Union
  <2>2. IsFiniteSet(({"dealerchair"} \cup {"usercards"}) \cup {"communitycards"})
    BY <2>1, FS_Singleton, FS_Union
  <2>3. ({"dealerchair"} \cup {"usercards"}) \cup {"communitycards"}
           = {"dealerchair", "usercards", "communitycards"}
    OBVIOUS
  <2> QED BY <2>2, <2>3
<1> QED BY <1>1, FS_Union, OtherMethodsAssumption DEF Method

-----------------------------------------------------------------------------
(* The history.  The first evaluation of a distinct hand sees new cards,   *)
(* the second a new dealer; they meet in the window unless the first has   *)
(* led to a reset already.  A reset leaves only data of this hand.         *)

Fresh == \A r \in Betrounds : history[r] \in {0, hand}

HalfTheEvidence ==
  /\ resets = 0
  /\ "usercards" \in window[1]
  /\ last.dealerchair # Undefined
  /\ last.dealerchair # table.dealer

EvidenceInv ==
  /\ hand > 0 => /\ heartbeats > 0
                 /\ dealer = table.dealer
                 /\ \A i \in {1, 2} : last.cards[i] \in {table.hole[i], CardBack, CardUndefined}
  /\ distinct => hand > 0
  /\ distinct /\ ~muted /\ heartbeats = 2 => Fresh
  /\ distinct /\ ~muted /\ heartbeats = 1 => Fresh \/ HalfTheEvidence

LEMMA ResetMakesFresh ==
  ASSUME TypeOK, NEW t \in Table, UpdateHistory(t, hand'), isHandreset'
  PROVE  Fresh'
BY RoundOfTable DEF UpdateHistory, CalculateHistory, Fresh

LEMMA FreshStaysFresh ==
  ASSUME TypeOK, Fresh, NEW t \in Table, UpdateHistory(t, hand), hand' = hand
  PROVE  Fresh'
BY RoundOfTable DEF UpdateHistory, CalculateHistory, Fresh, TypeOK

LEMMA HistoryStep ==
  ASSUME TypeInv, EvidenceInv,
         NEW t \in Table, NEW new \in BOOLEAN, NEW delay \in Delays,
         EvaluationOf(t, new, delay)
  PROVE  EvidenceInv'
<1> DEFINE now == After(delay, elapsed)
           nowhand == After(delay, elapsedhand)
           before == IF new THEN 0 ELSE resets
<1>1. PICK other \in OtherEvidence :
        /\ OnNewHeartbeat(dealer, UsersCards(t), t.board, other, nowhand, now,
                          userchair # Undefined)
        /\ dealer' = t.dealer
        /\ UpdateHistory(t, hand')
        /\ hand' = IF new THEN hand + 1 ELSE hand
        /\ heartbeats' = IF new THEN 1 ELSE 2
        /\ muted' = \/ ~new /\ muted
                    \/ before = 0 /\ TooShortlyAfterLastHandreset(nowhand, now)
        /\ resets' = IF isHandreset' THEN before + 1 ELSE before
  BY DEF EvaluationOf, Evaluate, EvaluateAll
<1> HIDE DEF now, nowhand
<1> DEFINE fired == BitVectorFiringHandresetMethods(dealer, UsersCards(t), t.board, other)
           total == fired \cup window[1] \cup window[2]
<1>2. /\ last' = [dealerchair |-> dealer, cards |-> UsersCards(t), board |-> t.board]
      /\ ~TooShortlyAfterLastHandreset(nowhand, now) =>
            /\ Cardinality(total) >= 2 => isHandreset'
            /\ ~isHandreset' => window' = <<fired, window[1], window[2]>>
  <2>1. OnNewHeartbeat(dealer, UsersCards(t), t.board, other, nowhand, now,
                       userchair # Undefined)
    BY <1>1
  <2> QED BY <2>1 DEF OnNewHeartbeat
<1>3. IsFiniteSet(total)
  <2>1. total \subseteq Method
    BY DEF BitVectorFiringHandresetMethods, TypeInv, TypeOK
  <2> QED BY <2>1, MethodsAreFinite, FS_Subset
<1> HIDE DEF fired, total
<1>4. hand' > 0 /\ heartbeats' > 0
  <2>1. CASE new
    BY <1>1, <2>1 DEF TypeInv, TypeOK
  <2>2. CASE ~new
    BY <1>1, <2>2 DEF EvaluationOf
  <2> QED BY <2>1, <2>2
<1>5. dealer' = table'.dealer
  BY <1>1 DEF EvaluationOf
<1>6. \A i \in {1, 2} : last'.cards[i] \in {table'.hole[i], CardBack, CardUndefined}
  BY <1>2 DEF EvaluationOf, UsersCards, NoCards
<1>7. ASSUME distinct', ~muted', heartbeats' = 1
      PROVE  Fresh' \/ HalfTheEvidence'
  <2>1. new /\ before = 0 /\ ~TooShortlyAfterLastHandreset(nowhand, now)
    BY <1>1, <1>7
  <2>2. /\ hand > 0 /\ t.dealer # table.dealer /\ t.hero = userchair
        /\ t.hole[1] # table.hole[1] /\ t.hole[2] # table.hole[2]
    BY <1>7, <2>1 DEF EvaluationOf
  <2>3. UsersCards(t) = t.hole /\ \A i \in {1, 2} : t.hole[i] \in Card
    BY <2>2, ChairsAssumption DEF UsersCards, Table, Undefined
  <2>4. IsHandresetByUserCards(UsersCards(t))
    BY <2>2, <2>3, CardsAssumption DEF EvidenceInv, IsHandresetByUserCards
  <2>5. "usercards" \in fired
    BY <2>4 DEF fired, BitVectorFiringHandresetMethods, Method
  <2>6. CASE isHandreset'
    BY <1>1, <2>6, ResetMakesFresh DEF TypeInv
  <2>7. CASE ~isHandreset'
    <3>1. resets' = 0 /\ "usercards" \in window'[1]
      BY <1>1, <1>2, <2>1, <2>5, <2>7
    <3>2. last'.dealerchair = dealer /\ dealer = table.dealer /\ dealer \in Chairs
      BY <1>2, <2>2 DEF EvidenceInv, TypeInv, TypeOK, Table
    <3>3. last'.dealerchair # Undefined /\ last'.dealerchair # table'.dealer
      BY <2>2, <3>2, ChairsAssumption DEF EvaluationOf, Undefined
    <3> QED BY <3>1, <3>3 DEF HalfTheEvidence
  <2> QED BY <2>6, <2>7
<1>8. ASSUME distinct', ~muted', heartbeats' = 2
      PROVE  Fresh'
  <2>1. ~new /\ ~muted /\ before = resets
    BY <1>1, <1>8
  <2>2. hand' = hand /\ hand > 0 /\ distinct /\ t.dealer = table.dealer
    BY <1>1, <1>8, <2>1 DEF EvaluationOf
  <2>3. heartbeats = 1 \/ heartbeats = 2
    BY <2>2 DEF EvidenceInv, TypeInv, TypeOK
  <2>4. CASE Fresh
    BY <1>1, <2>2, <2>4, FreshStaysFresh DEF TypeInv
  <2>5. CASE HalfTheEvidence
    <3>1. ~TooShortlyAfterLastHandreset(nowhand, now)
      BY <1>1, <1>8, <2>1, <2>5 DEF HalfTheEvidence
    <3>2. IsHandresetByDealerChair(dealer)
      <4>1. dealer = table.dealer /\ dealer \in Chairs
        BY <2>2 DEF EvidenceInv, TypeInv, TypeOK, Table
      <4> QED BY <2>5, <4>1, ChairsAssumption
              DEF HalfTheEvidence, IsHandresetByDealerChair, Undefined
    <3>3. "dealerchair" \in total /\ "usercards" \in total
      BY <2>5, <3>2 DEF HalfTheEvidence, total, fired, BitVectorFiringHandresetMethods, Method
    <3>4. isHandreset'
      BY <1>2, <1>3, <3>1, <3>3, TwoMethods
    <3> QED BY <1>1, <3>4, ResetMakesFresh DEF TypeInv
  <2> QED BY <2>1, <2>2, <2>3, <2>4, <2>5 DEF EvidenceInv
<1> QED BY <1>4, <1>5, <1>6, <1>7, <1>8 DEF EvidenceInv

THEOREM HistoryCorrect == Spec => []HistoryIsOfThisHand
<1>1. Init => EvidenceInv
  BY DEF Init, InitDetector, EvidenceInv
<1>2. TypeInv /\ EvidenceInv /\ [Next]_vars => EvidenceInv'
  <2> SUFFICES ASSUME TypeInv, EvidenceInv, [Next]_vars PROVE EvidenceInv'
    OBVIOUS
  <2>1. ASSUME NEW delay \in Delays, AnswerUnevaluated(delay)
        PROVE  EvidenceInv'
    BY <2>1 DEF AnswerUnevaluated, detectorVars, requestVars, EvidenceInv, Fresh, HalfTheEvidence
  <2>2. CASE UNCHANGED vars
    BY <2>2 DEF EvidenceInv, Fresh, HalfTheEvidence, vars, detectorVars, requestVars,
                engineVars, handVars
  <2> QED BY <2>1, <2>2, Steps, HistoryStep DEF TypeInv
<1>3. EvidenceInv => HistoryIsOfThisHand
  BY DEF EvidenceInv, HistoryIsOfThisHand, Fresh
<1> QED BY InitType, NextType, <1>1, <1>2, <1>3, PTL DEF Spec
-----------------------------------------------------------------------------
(* One reset a hand.  After the first evaluation of a distinct hand only   *)
(* the dealer chair can still be news, and after a reset it is the only    *)
(* evidence that can be in the window.                                     *)

OnlyTheDealer == \A i \in {1, 2, 3} : window[i] \subseteq {"dealerchair"}

OneResetInv ==
  calm /\ distinct =>
    /\ hand > 0
    /\ userchair = table.hero
    /\ last.cards = table.hole
    /\ last.board = table.board
    /\ resets = 0 \/ (resets = 1 /\ OnlyTheDealer)

LEMMA OneResetStep ==
  ASSUME TypeInv, OneResetInv,
         NEW t \in Table, NEW new \in BOOLEAN, NEW delay \in Delays,
         EvaluationOf(t, new, delay),
         calm', distinct'
  PROVE  OneResetInv'
<1> DEFINE now == After(delay, elapsed)
           nowhand == After(delay, elapsedhand)
           before == IF new THEN 0 ELSE resets
<1>1. PICK other \in OtherEvidence :
        /\ OnNewHeartbeat(dealer, UsersCards(t), t.board, other, nowhand, now,
                          userchair # Undefined)
        /\ UpdateUserchair(t)
        /\ hand' = IF new THEN hand + 1 ELSE hand
        /\ resets' = IF isHandreset' THEN before + 1 ELSE before
        /\ calm' = calm
  BY DEF EvaluationOf, Evaluate, EvaluateAll
<1> HIDE DEF now, nowhand
<1> DEFINE fired == BitVectorFiringHandresetMethods(dealer, UsersCards(t), t.board, other)
           total == fired \cup window[1] \cup window[2]
<1>2. /\ last' = [dealerchair |-> dealer, cards |-> UsersCards(t), board |-> t.board]
      /\ isHandreset' => Cardinality(total) >= 2 /\ window' = NothingSeen
      /\ window' = NothingSeen \/ window' = <<fired, window[1], window[2]>>
  <2>1. OnNewHeartbeat(dealer, UsersCards(t), t.board, other, nowhand, now,
                       userchair # Undefined)
    BY <1>1
  <2> QED BY <2>1 DEF OnNewHeartbeat
<1> HIDE DEF fired, total
<1>3. userchair = t.hero /\ hand' > 0
  <2>1. CASE new
    BY <1>1, <2>1 DEF EvaluationOf, TypeInv, TypeOK
  <2>2. CASE ~new
    BY <1>1, <2>2 DEF EvaluationOf, OneResetInv
  <2> QED BY <2>1, <2>2
<1>4. userchair' = table'.hero
  BY <1>1, <1>3 DEF EvaluationOf, UpdateUserchair, CalculateUserChair
<1>5. UsersCards(t) = t.hole
  BY <1>3, ChairsAssumption DEF UsersCards, Table, Undefined
<1>6. last'.cards = table'.hole /\ last'.board = table'.board
  BY <1>2, <1>5 DEF EvaluationOf
<1>7. NothingSeen[1] = {} /\ NothingSeen[2] = {} /\ NothingSeen[3] = {}
  BY DEF NothingSeen
<1>8. resets' = 0 \/ (resets' = 1 /\ OnlyTheDealer')
  <2>1. CASE before = 0
    <3>1. CASE isHandreset'
      BY <1>1, <1>2, <1>7, <2>1, <3>1 DEF OnlyTheDealer
    <3>2. CASE ~isHandreset'
      BY <1>1, <2>1, <3>2
    <3> QED BY <3>1, <3>2
  <2>2. CASE before # 0
    <3>1. ~new /\ before = resets
      BY <2>2
    <3>2. resets = 1 /\ OnlyTheDealer /\ last.cards = t.hole /\ last.board = table.board
      <4>1. calm /\ distinct /\ t.hole = table.hole
        BY <1>1, <3>1 DEF EvaluationOf
      <4> QED BY <2>2, <3>1, <4>1 DEF OneResetInv
    <3>3. ~IsHandresetByUserCards(UsersCards(t))
      BY <1>5, <3>2 DEF IsHandresetByUserCards
    <3>4. ~IsHandresetByCommunityCards(t.board)
      <4>1. t.board >= table.board
        BY <3>1 DEF EvaluationOf
      <4>2. t.board \in {0, 3, 4, 5} /\ table.board \in {0, 3, 4, 5}
        BY BoardsAssumption DEF Table, TypeInv, TypeOK
      <4> QED BY <3>2, <4>1, <4>2 DEF IsHandresetByCommunityCards
    <3>5. fired \subseteq {"dealerchair"}
      BY <1>1, <3>3, <3>4 DEF fired, BitVectorFiringHandresetMethods, OtherEvidence
    <3>6. total \subseteq {"dealerchair"}
      BY <3>2, <3>5 DEF total, OnlyTheDealer
    <3>7. ~isHandreset'
      BY <1>2, <3>6, OneMethod
    <3>8. OnlyTheDealer'
      <4>1. CASE window' = NothingSeen
        BY <1>7, <4>1 DEF OnlyTheDealer
      <4>2. CASE window' = <<fired, window[1], window[2]>>
        <5>1. window'[1] = fired /\ window'[2] = window[1] /\ window'[3] = window[2]
          BY <4>2
        <5>2. window[1] \subseteq {"dealerchair"} /\ window[2] \subseteq {"dealerchair"}
          BY <3>2 DEF OnlyTheDealer
        <5> QED BY <3>5, <5>1, <5>2 DEF OnlyTheDealer
      <4> QED BY <1>2, <4>1, <4>2
    <3>9. resets' = resets
      <4>1. resets' = before
        BY <1>1, <3>7
      <4> QED BY <3>1, <4>1
    <3> QED BY <3>2, <3>8, <3>9
  <2> QED BY <2>1, <2>2
<1> QED BY <1>3, <1>4, <1>6, <1>8 DEF OneResetInv

THEOREM ResetOnceCorrect == Spec => []HandIsResetOnce
<1>1. Init => OneResetInv
  BY DEF Init, OneResetInv
<1>2. TypeInv /\ OneResetInv /\ [Next]_vars => OneResetInv'
  <2> SUFFICES ASSUME TypeInv, OneResetInv, [Next]_vars PROVE OneResetInv'
    OBVIOUS
  <2>1. ASSUME NEW t \in Table, NEW new \in BOOLEAN, NEW delay \in Delays,
               EvaluationOf(t, new, delay)
        PROVE  OneResetInv'
    <3>1. CASE calm' /\ distinct'
      BY <2>1, <3>1, OneResetStep
    <3> QED BY <3>1 DEF OneResetInv
  <2>2. ASSUME NEW delay \in Delays, AnswerUnevaluated(delay)
        PROVE  OneResetInv'
    BY <2>2 DEF AnswerUnevaluated, detectorVars, requestVars, OneResetInv, OnlyTheDealer
  <2>3. CASE UNCHANGED vars
    BY <2>3 DEF OneResetInv, OnlyTheDealer, vars, detectorVars, requestVars,
                engineVars, handVars
  <2> QED BY <2>1, <2>2, <2>3, Steps DEF TypeInv
<1>3. TypeInv /\ OneResetInv => HandIsResetOnce
  BY DEF OneResetInv, HandIsResetOnce, TypeInv, TypeOK
<1> QED BY InitType, NextType, <1>1, <1>2, <1>3, PTL DEF Spec
=============================================================================
