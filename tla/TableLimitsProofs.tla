-------------------------- MODULE TableLimitsProofs --------------------------
(***************************************************************************)
(* What holds of the table limits for every list of levels, every table    *)
(* and every number of hands above two.                                    *)
(***************************************************************************)
EXTENDS TableLimits, FiniteSetTheorems, SequenceTheorems, TLAPS

LimitsType == [best : Limits, hand : Limits, session : Limits, handLocked : BOOLEAN,
               sessionLocked : BOOLEAN, saved : Seq(Limits), lockedIn : Nat]

\* What is locked has come from a guess, and the session from the saved values.
LimitsRight(l) ==
    /\ l \in LimitsType
    /\ Len(l.saved) <= HandsToLock
    /\ l.handLocked => l.hand \in Known
    /\ \A i \in 1 .. Len(l.saved) : l.saved[i] \in Known
    /\ l.sessionLocked => l.session \in Medians(l.saved) /\ Len(l.saved) = HandsToLock

\* Once a hand was seen something is locked; until then nothing is.
HandsRight ==
    /\ resets \in Nat
    /\ ~limits.handLocked /\ ~limits.sessionLocked => resets = 0
    /\ resets = 0 => ~limits.handLocked /\ ~limits.sessionLocked /\ limits.saved = << >>
    /\ limits.handLocked => limits.lockedIn = resets
    /\ Len(limits.saved) <= resets + 1

\* A tournament that shows itself is known from the first heartbeat on.
TournamentRight ==
    shown => /\ ~limits.sessionLocked
             /\ \/ istournament = "unknown" /\ ~decisionLocked /\ limits.saved = << >>
                \/ istournament = "yes" /\ decisionLocked

IInv ==
    /\ LimitsRight(limits)
    /\ istournament \in {"yes", "no", "unknown"} /\ decisionLocked \in BOOLEAN
    /\ dealer \in Chairs \cup {Undefined} /\ experienced \in BOOLEAN /\ shown \in BOOLEAN
    /\ HandsRight
    /\ TournamentRight

USE LevelsAssumption, AmountsAssumption, HandsAssumption, SightAssumption, EvidenceAssumption

-----------------------------------------------------------------------------
(* The guesses.                                                            *)

LEMMA LevelKnown == \A i \in DOMAIN Levels : Levels[i] \in Known
OBVIOUS

LEMMA MatchKnown == ASSUME NEW x PROVE BestMatchingBlindLevel(x) \subseteq Known
<1>1. ASSUME NEW S, NEW i \in First(S) PROVE i \in S
  BY <1>1 DEF First
<1> QED
  BY LevelKnown, <1>1 DEF BestMatchingBlindLevel

LEMMA HalfKnown == ASSUME NEW v \in Nat PROVE HalfBlindValue(v) \subseteq Nat \ {0}
<1> DEFINE last == Levels[Len(Levels)]
<1>1. last \in Known
  <2>1. Levels \in Seq(Known) /\ Len(Levels) \in Nat /\ Len(Levels) # 0
    BY EmptySeq, LenProperties
  <2> QED BY <2>1
<1>2. last.sblind \in Nat \ {0} /\ last.bblind \in Nat \ {0}
  BY <1>1 DEF Known
<1> HIDE DEF last
<1>3. ASSUME NEW h \in HalfBlindValue(v) PROVE h = last.sblind \/ h = last.bblind \/ (h \in Amounts /\ h > 0)
  BY <1>3 DEF HalfBlindValue, NextSmallerOrEqualBlind, last
<1>4. \A a \in Amounts : a > 0 => a \in Nat \ {0}
  OBVIOUS
<1>5. ASSUME NEW h \in HalfBlindValue(v) PROVE h \in Nat \ {0}
  BY <1>2, <1>3, <1>4 DEF last
<1> QED BY <1>5

LEMMA CompleteKnown ==
    ASSUME NEW x \in Limits PROVE CompletePartiallyKnownBlinds(x) \subseteq Known
<1> DEFINE sb == SBlindBBlindReasonable(x)
           sB == SBlindBBetReasonable(x)
           bB == BBlindBBetReasonable(x)
<1>1. x.sblind \in Nat /\ x.bblind \in Nat /\ x.bbet \in Nat
      /\ x = [sblind |-> x.sblind, bblind |-> x.bblind, bbet |-> x.bbet]
  BY DEF Limits
<1>2. /\ sb => x.sblind > 0 /\ x.bblind > 0
      /\ sB => x.sblind > 0 /\ x.bbet > 0
      /\ bB => x.bblind > 0 /\ x.bbet > 0
  BY DEF SBlindBBlindReasonable, SBlindBBetReasonable, BBlindBBetReasonable
<1>3. HalfBlindValue(x.bbet) \subseteq Nat \ {0} /\ HalfBlindValue(x.bblind) \subseteq Nat \ {0}
  BY <1>1, HalfKnown
<1>4. \A half \in HalfBlindValue(x.bbet) : HalfBlindValue(half) \subseteq Nat \ {0}
  BY <1>3, HalfKnown
<1> SUFFICES ASSUME NEW g \in CompletePartiallyKnownBlinds(x) PROVE g \in Known
  OBVIOUS
<1>k. ASSUME NEW a \in Nat, NEW b \in Nat, NEW c \in Nat, a > 0, b > 0, c > 0,
             g = [sblind |-> a, bblind |-> b, bbet |-> c]
      PROVE  g \in Known
  BY <1>k DEF Known
<1> HIDE DEF sb, sB, bB
<1>5. CASE sb
  <2>1. (g = x /\ sB) \/ g = [x EXCEPT !.bbet = 2 * x.bblind]
    BY <1>5 DEF CompletePartiallyKnownBlinds, sb, sB, bB
  <2>2. CASE g = x /\ sB
    BY <1>1, <1>2, <1>5, <2>2, <1>k
  <2>3. CASE g = [x EXCEPT !.bbet = 2 * x.bblind]
    <3>1. g = [sblind |-> x.sblind, bblind |-> x.bblind, bbet |-> 2 * x.bblind]
      BY <1>1, <2>3
    <3> QED BY <1>1, <1>2, <1>5, <3>1, <1>k
  <2> QED BY <2>1, <2>2, <2>3
<1>6. CASE ~sb /\ sB
  <2>1. PICK half \in HalfBlindValue(x.bbet) : g = [x EXCEPT !.bblind = half]
    BY <1>6 DEF CompletePartiallyKnownBlinds, sb, sB, bB
  <2>2. g = [sblind |-> x.sblind, bblind |-> half, bbet |-> x.bbet]
    BY <1>1, <2>1
  <2> QED BY <1>1, <1>2, <1>3, <1>6, <2>2, <1>k
<1>7. CASE ~sb /\ ~sB /\ bB
  <2>1. PICK half \in HalfBlindValue(x.bblind) : g = [x EXCEPT !.sblind = half]
    BY <1>7 DEF CompletePartiallyKnownBlinds, sb, sB, bB
  <2>2. g = [sblind |-> half, bblind |-> x.bblind, bbet |-> x.bbet]
    BY <1>1, <2>1
  <2> QED BY <1>1, <1>2, <1>3, <1>7, <2>2, <1>k
<1>8. CASE ~sb /\ ~sB /\ ~bB
  <2>1. CASE x.bblind >= 2
    <3>1. PICK half \in HalfBlindValue(x.bblind) :
            g = [x EXCEPT !.sblind = half, !.bbet = 2 * x.bblind]
      BY <1>8, <2>1 DEF CompletePartiallyKnownBlinds, sb, sB, bB
    <3>2. g = [sblind |-> half, bblind |-> x.bblind, bbet |-> 2 * x.bblind]
      BY <1>1, <3>1
    <3> QED BY <1>1, <1>3, <2>1, <3>2, <1>k
  <2>2. CASE ~(x.bblind >= 2) /\ x.bbet >= 4
    <3>1. PICK half \in HalfBlindValue(x.bbet) : \E quarter \in HalfBlindValue(half) :
            g = [x EXCEPT !.bblind = half, !.sblind = quarter]
      BY <1>8, <2>2 DEF CompletePartiallyKnownBlinds, sb, sB, bB
    <3>2. PICK quarter \in HalfBlindValue(half) : g = [x EXCEPT !.bblind = half, !.sblind = quarter]
      BY <3>1
    <3>3. g = [sblind |-> quarter, bblind |-> half, bbet |-> x.bbet]
      BY <1>1, <3>2
    <3> QED BY <1>1, <1>3, <1>4, <2>2, <3>3, <1>k
  <2>3. CASE ~(x.bblind >= 2) /\ ~(x.bbet >= 4)
    <3>1. x.sblind >= 1 /\ g = [x EXCEPT !.bblind = 2 * x.sblind, !.bbet = 4 * x.sblind]
      BY <1>8, <2>3 DEF CompletePartiallyKnownBlinds, sb, sB, bB
    <3>2. g = [sblind |-> x.sblind, bblind |-> 2 * x.sblind, bbet |-> 4 * x.sblind]
      BY <1>1, <3>1
    <3>3. /\ 2 * x.sblind \in Nat /\ 4 * x.sblind \in Nat
          /\ x.sblind > 0 /\ 2 * x.sblind > 0 /\ 4 * x.sblind > 0
      BY <1>1, <3>1
    <3> QED BY <1>1, <3>2, <3>3, <1>k
  <2> QED BY <2>1, <2>2, <2>3
<1> QED BY <1>5, <1>6, <1>7, <1>8

LEMMA BetsType ==
    ASSUME NEW p \in AllPictures, NEW s \in BOOLEAN
    PROVE  FirstBlindDataFromBets(p, s) \in Limits
<1>1. BlindFromBets(p) \in Limits
  BY DEF AllPictures, BlindFromBets, BigBlind, SmallBlind, NoLimits, Limits
<1>2. ASSUME NEW x \in Limits PROVE WithAntes(x) \in Limits
  <2>1. x.sblind \in Nat /\ x.bblind \in Nat /\ x.bbet \in Nat /\ x.bblind \div 2 \in Nat
        /\ x = [sblind |-> x.sblind, bblind |-> x.bblind, bbet |-> x.bbet]
    BY DEF Limits
  <2> DEFINE small == IF x.sblind = 0 THEN x.bblind \div 2 ELSE x.sblind
             big == IF x.bblind = 0 THEN 2 * small ELSE x.bblind
  <2>2. small \in Nat /\ big \in Nat
    BY <2>1
  <2>3. WithAntes(x) = [x EXCEPT !.sblind = small, !.bblind = big]
    BY DEF WithAntes
  <2> HIDE DEF small, big
  <2>4. WithAntes(x) = [sblind |-> small, bblind |-> big, bbet |-> x.bbet]
    BY <2>1, <2>3
  <2> QED BY <2>1, <2>2, <2>4 DEF Limits
<1> QED BY <1>1, <1>2 DEF FirstBlindDataFromBets, NoLimits, Limits

LEMMA GuessKnown ==
    ASSUME NEW x \in Limits, NEW p \in AllPictures, NEW s \in BOOLEAN
    PROVE  Guess(x, p, s) \subseteq Known
<1>1. \A y \in Limits : MatchOrComplete(y) \subseteq Known
  BY MatchKnown, CompleteKnown DEF MatchOrComplete
<1>2. LowestLevel \in Known
  BY DEF LowestLevel, Known
<1> QED BY <1>1, <1>2, BetsType DEF Guess
-----------------------------------------------------------------------------
(* The limits as one value.                                                *)

LEMMA ResetFields ==
    ASSUME NEW l \in LimitsType
    PROVE  LET r == UpdateOnHandreset(l) IN
           /\ r \in LimitsType
           /\ r.session = l.session /\ r.sessionLocked = l.sessionLocked /\ r.saved = l.saved
           /\ ~r.handLocked
<1>1. NoLimits \in Limits
  BY DEF NoLimits, Limits
<1> QED BY <1>1 DEF LimitsType, UpdateOnHandreset

LEMMA GuessFields ==
    ASSUME NEW l \in LimitsType, NEW g \in Limits
    PROVE  LET r == [l EXCEPT !.best = g] IN
           /\ r \in LimitsType
           /\ r.best = g /\ r.hand = l.hand /\ r.handLocked = l.handLocked
           /\ r.session = l.session /\ r.sessionLocked = l.sessionLocked
           /\ r.saved = l.saved /\ r.lockedIn = l.lockedIn
BY DEF LimitsType

LEMMA LockFields ==
    ASSUME NEW l \in LimitsType, NEW n \in Nat
    PROVE  LET r == AutoLockBlindsForCurrentHand(l, n) IN
           /\ r \in LimitsType
           /\ r.best = l.best /\ r.hand = l.best /\ r.handLocked /\ r.lockedIn = n
           /\ r.session = l.session /\ r.sessionLocked = l.sessionLocked
           /\ r.saved = IF Len(l.saved) < HandsToLock THEN Append(l.saved, l.best) ELSE l.saved
<1> DEFINE more == IF Len(l.saved) < HandsToLock THEN Append(l.saved, l.best) ELSE l.saved
<1>1. AutoLockBlindsForCurrentHand(l, n) =
        [l EXCEPT !.hand = l.best, !.handLocked = TRUE, !.lockedIn = n, !.saved = more]
  BY DEF AutoLockBlindsForCurrentHand, LimitsType
<1>2. more \in Seq(Limits)
  BY DEF LimitsType
<1> HIDE DEF more
<1>3. LET r == AutoLockBlindsForCurrentHand(l, n) IN
      /\ r \in LimitsType
      /\ r.best = l.best /\ r.hand = l.best /\ r.handLocked /\ r.lockedIn = n
      /\ r.session = l.session /\ r.sessionLocked = l.sessionLocked
      /\ r.saved = more
  BY <1>1, <1>2 DEF LimitsType
<1> QED BY <1>3 DEF more

LEMMA SessionFields ==
    ASSUME NEW l \in LimitsType, NEW t \in Limits
    PROVE  LET r == [l EXCEPT !.sessionLocked = TRUE, !.session = t] IN
           /\ r \in LimitsType
           /\ r.best = l.best /\ r.hand = l.hand /\ r.handLocked = l.handLocked
           /\ r.session = t /\ r.sessionLocked
           /\ r.saved = l.saved /\ r.lockedIn = l.lockedIn
BY DEF LimitsType

LEMMA MediansType ==
    ASSUME NEW S \in Seq(Limits), NEW t \in Medians(S)
    PROVE  /\ t \in Limits
           /\ (\A i \in 1 .. Len(S) : S[i] \in Known) => t \in Known
           /\ \A p \in Positions : IsMedian(S, p, t[p])
<1>1. /\ t \in [sblind : Values(S, "sblind"), bblind : Values(S, "bblind"), bbet : Values(S, "bbet")]
      /\ \A p \in Positions : IsMedian(S, p, t[p])
  BY DEF Medians
<1>2. PICK i \in DOMAIN S, j \in DOMAIN S, k \in DOMAIN S :
        t = [sblind |-> S[i].sblind, bblind |-> S[j].bblind, bbet |-> S[k].bbet]
  <2>1. PICK i \in DOMAIN S : t.sblind = S[i]["sblind"]
    BY <1>1 DEF Values
  <2>2. PICK j \in DOMAIN S : t.bblind = S[j]["bblind"]
    BY <1>1 DEF Values
  <2>3. PICK k \in DOMAIN S : t.bbet = S[k]["bbet"]
    BY <1>1 DEF Values
  <2> QED BY <1>1, <2>1, <2>2, <2>3
<1>3. /\ S[i] \in Limits /\ S[j] \in Limits /\ S[k] \in Limits
      /\ i \in 1 .. Len(S) /\ j \in 1 .. Len(S) /\ k \in 1 .. Len(S)
  OBVIOUS
<1>4. t \in Limits
  BY <1>2, <1>3 DEF Limits
<1>5. ASSUME \A m \in 1 .. Len(S) : S[m] \in Known PROVE t \in Known
  <2>1. S[i] \in Known /\ S[j] \in Known /\ S[k] \in Known
    BY <1>3, <1>5
  <2> QED BY <1>2, <2>1 DEF Known
<1> QED BY <1>1, <1>4, <1>5

\* The result of a calculation that is not skipped.
GuessedFrom(l, b, n, r) ==
    \E g \in Known :
        \/ ~b.handreset /\ r = [l EXCEPT !.best = g]
        \/ b.handreset /\
             LET x == AutoLockBlindsForCurrentHand([l EXCEPT !.best = g], n) IN
             \/ r = x
             \/ /\ istournament # "yes" /\ Len(x.saved) = HandsToLock
                /\ \E t \in Medians(x.saved) :
                     r = [x EXCEPT !.sessionLocked = TRUE, !.session = t]

\* What one calculation of the limits may do.
LEMMA HeartbeatCases ==
    ASSUME NEW l, LimitsRight(l), NEW b \in Beats, NEW d, NEW n \in Nat,
           NEW r \in UpdateOnHeartbeat(l, b, d, n)
    PROVE  \/ (l.handLocked \/ l.sessionLocked) /\ r = l
           \/ ~l.handLocked /\ ~l.sessionLocked /\ GuessedFrom(l, b, n, r)
<1>1. CASE l.handLocked \/ l.sessionLocked
  BY <1>1 DEF UpdateOnHeartbeat, TableLimitsNeedToBeComputed
<1>2. CASE ~l.handLocked /\ ~l.sessionLocked
  <2> DEFINE seen == d # Undefined /\ d = b.button
  <2>1. PICK g \in Guess(b.title, b.picture, seen) :
          r \in AutoLockBlinds([l EXCEPT !.best = g], b.handreset, n)
    BY <1>2 DEF UpdateOnHeartbeat, TableLimitsNeedToBeComputed
  <2>2. b.title \in Limits /\ b.picture \in AllPictures /\ b.handreset \in BOOLEAN
    BY DEF Beats
  <2>3. g \in Known
    BY <2>1, <2>2, GuessKnown
  <2> DEFINE y == [l EXCEPT !.best = g]
             x == AutoLockBlindsForCurrentHand(y, n)
  <2>4. g \in Limits
    BY <2>3 DEF Known, Limits
  <2>5. y.handLocked = l.handLocked /\ y.sessionLocked = l.sessionLocked
    BY <2>4, GuessFields DEF LimitsRight
  <2>6. CASE ~b.handreset
    BY <1>2, <2>1, <2>3, <2>6 DEF AutoLockBlinds, GuessedFrom
  <2>7. CASE b.handreset
    <3>1. r \in AutoLockBlindsForCashgames(x)
      BY <1>2, <2>1, <2>5, <2>7 DEF AutoLockBlinds
    <3>2. \/ r = x
          \/ /\ istournament # "yes" /\ Len(x.saved) = HandsToLock
             /\ \E t \in Medians(x.saved) : r = [x EXCEPT !.sessionLocked = TRUE, !.session = t]
      BY <3>1 DEF AutoLockBlindsForCashgames
    <3> QED BY <1>2, <2>3, <2>7, <3>2 DEF GuessedFrom
  <2> QED BY <2>2, <2>6, <2>7
<1> QED
  <2>1. l.handLocked \in BOOLEAN /\ l.sessionLocked \in BOOLEAN
    BY DEF LimitsRight, LimitsType
  <2> QED BY <1>1, <1>2, <2>1
\* It keeps what is right, touches nothing that is locked, and locks on a hand-reset.
LEMMA HeartbeatFacts ==
    ASSUME NEW l, LimitsRight(l), NEW b \in Beats, NEW d, NEW n \in Nat,
           NEW r \in UpdateOnHeartbeat(l, b, d, n)
    PROVE  /\ LimitsRight(r)
           /\ l.handLocked \/ l.sessionLocked => r = l
           /\ ~l.handLocked /\ ~l.sessionLocked /\ ~b.handreset =>
                ~r.handLocked /\ ~r.sessionLocked /\ r.saved = l.saved
           /\ ~l.handLocked /\ ~l.sessionLocked /\ b.handreset =>
                /\ r.handLocked /\ r.lockedIn = n
                /\ Len(r.saved) <= Len(l.saved) + 1
                /\ r.sessionLocked => istournament # "yes" /\ Len(r.saved) = HandsToLock
<1>1. l \in LimitsType /\ b.handreset \in BOOLEAN
  BY DEF LimitsRight, Beats
<1>2. CASE l.handLocked \/ l.sessionLocked
  <2>1. r = l
    BY <1>2, HeartbeatCases
  <2> QED BY <1>2, <2>1
<1>3. CASE ~l.handLocked /\ ~l.sessionLocked
  <2>1. PICK g \in Known :
          \/ ~b.handreset /\ r = [l EXCEPT !.best = g]
          \/ b.handreset /\
               LET x == AutoLockBlindsForCurrentHand([l EXCEPT !.best = g], n) IN
               \/ r = x
               \/ /\ istournament # "yes" /\ Len(x.saved) = HandsToLock
                  /\ \E t \in Medians(x.saved) :
                       r = [x EXCEPT !.sessionLocked = TRUE, !.session = t]
    <3>1. GuessedFrom(l, b, n, r)
      BY <1>3, HeartbeatCases
    <3> QED BY <3>1 DEF GuessedFrom
  <2>2. g \in Limits
    BY DEF Known, Limits
  <2> DEFINE y == [l EXCEPT !.best = g]
             x == AutoLockBlindsForCurrentHand(y, n)
  <2>3. /\ y \in LimitsType
        /\ y.best = g /\ y.hand = l.hand /\ y.handLocked = l.handLocked
        /\ y.session = l.session /\ y.sessionLocked = l.sessionLocked
        /\ y.saved = l.saved /\ y.lockedIn = l.lockedIn
    BY <1>1, <2>2, GuessFields
  <2> HIDE DEF y
  <2>4. CASE ~b.handreset
    <3>1. r = y
      BY <2>1, <2>4 DEF y
    <3>2. LimitsRight(r)
      BY <2>3, <3>1, <1>3 DEF LimitsRight
    <3> QED BY <1>3, <2>3, <2>4, <3>1, <3>2
  <2>5. CASE b.handreset
    <3>1. \/ r = x
          \/ /\ istournament # "yes" /\ Len(x.saved) = HandsToLock
             /\ \E t \in Medians(x.saved) : r = [x EXCEPT !.sessionLocked = TRUE, !.session = t]
      BY <2>1, <2>5 DEF y
    <3>2. /\ x \in LimitsType
          /\ x.best = g /\ x.hand = g /\ x.handLocked /\ x.lockedIn = n
          /\ x.session = l.session /\ x.sessionLocked = l.sessionLocked
          /\ x.saved = IF Len(l.saved) < HandsToLock THEN Append(l.saved, g) ELSE l.saved
      BY <2>3, LockFields
    <3> HIDE DEF x
    <3>3. /\ x.saved \in Seq(Limits) /\ Len(x.saved) <= HandsToLock
          /\ Len(x.saved) <= Len(l.saved) + 1
          /\ \A i \in 1 .. Len(x.saved) : x.saved[i] \in Known
      <4>1. l.saved \in Seq(Limits) /\ Len(l.saved) \in Nat /\ Len(l.saved) <= HandsToLock
            /\ \A i \in 1 .. Len(l.saved) : l.saved[i] \in Known
        BY <1>1 DEF LimitsRight, LimitsType
      <4>2. CASE Len(l.saved) < HandsToLock
        <5>1. /\ Append(l.saved, g) \in Seq(Limits) /\ Len(Append(l.saved, g)) = Len(l.saved) + 1
              /\ \A i \in 1 .. Len(l.saved) : Append(l.saved, g)[i] = l.saved[i]
              /\ Append(l.saved, g)[Len(l.saved) + 1] = g
          BY <2>2, <4>1, AppendProperties
        <5>2. x.saved = Append(l.saved, g)
          BY <3>2, <4>2
        <5>3. ASSUME NEW i \in 1 .. Len(x.saved) PROVE x.saved[i] \in Known
          <6>1. i \in 1 .. Len(l.saved) \/ i = Len(l.saved) + 1
            BY <4>1, <5>1, <5>2
          <6> QED BY <4>1, <5>1, <5>2, <6>1
        <5> QED BY <4>1, <4>2, <5>1, <5>2, <5>3
      <4>3. CASE ~(Len(l.saved) < HandsToLock)
        BY <3>2, <4>1, <4>3
      <4> QED BY <4>2, <4>3
    <3>4. LimitsRight(x) /\ ~x.sessionLocked
      BY <1>3, <3>2, <3>3 DEF LimitsRight
    <3>5. CASE r = x
      BY <1>3, <2>5, <3>2, <3>3, <3>4, <3>5
    <3>6. CASE r # x
      <4>1. PICK t \in Medians(x.saved) : r = [x EXCEPT !.sessionLocked = TRUE, !.session = t]
        BY <3>1, <3>6
      <4>2. t \in Limits
        BY <3>3, MediansType
      <4>3. /\ r \in LimitsType
            /\ r.hand = x.hand /\ r.handLocked = x.handLocked
            /\ r.session = t /\ r.sessionLocked
            /\ r.saved = x.saved /\ r.lockedIn = x.lockedIn
        BY <3>2, <4>1, <4>2, SessionFields
      <4>4. istournament # "yes" /\ Len(x.saved) = HandsToLock
        BY <3>1, <3>6
      <4>5. LimitsRight(r)
        BY <3>4, <4>3, <4>4 DEF LimitsRight
      <4> QED BY <1>3, <2>5, <3>2, <3>3, <4>3, <4>4, <4>5
    <3> QED BY <3>5, <3>6
  <2> QED BY <1>1, <2>4, <2>5
<1> QED
  <2>1. l.handLocked \in BOOLEAN /\ l.sessionLocked \in BOOLEAN
    BY <1>1 DEF LimitsType
  <2> QED BY <1>2, <1>3, <2>1

LEMMA ResetRight ==
    ASSUME NEW l, LimitsRight(l) PROVE LimitsRight(UpdateOnHandreset(l))
BY ResetFields DEF LimitsRight

-----------------------------------------------------------------------------
(* The steps.                                                              *)

LEMMA InitInv == Init => IInv
<1> SUFFICES ASSUME Init PROVE IInv
  OBVIOUS
<1>1. NoLimits \in Limits
  BY DEF NoLimits, Limits
<1>2. LimitsRight(NoLimitsYet)
  BY <1>1 DEF LimitsRight, LimitsType, NoLimitsYet
<1>3. ~limits.handLocked /\ ~limits.sessionLocked /\ limits.saved = << >> /\ resets = 0
  BY DEF Init, NoLimitsYet
<1>4. HandsRight
  BY <1>3, EmptySeq DEF HandsRight
<1> QED BY <1>2, <1>3, <1>4 DEF Init, IInv, TournamentRight

\* One heartbeat: what becomes of the limits when it calculates twice.
LEMMA EvaluateAllLimits ==
    ASSUME IInv, NEW b \in Beats, EvaluateAll(b)
    PROVE  /\ LimitsRight(limits') /\ HandsRight'
           /\ limits.sessionLocked =>
                limits'.sessionLocked /\ limits'.session = limits.session
           /\ limits.handLocked /\ ~b.handreset => limits' = limits
           /\ limits'.sessionLocked => limits.sessionLocked \/ istournament # "yes"
           /\ limits'.sessionLocked => limits.sessionLocked \/ limits.saved # << >>
           /\ dealer' \in Chairs \cup {Undefined}
<1>1. /\ LimitsRight(limits) /\ HandsRight /\ b.handreset \in BOOLEAN
      /\ resets' = IF b.handreset THEN resets + 1 ELSE resets
      /\ resets \in Nat /\ resets' \in Nat
      /\ limits.handLocked \in BOOLEAN /\ limits.sessionLocked \in BOOLEAN
      /\ limits.saved \in Seq(Limits) /\ Len(limits.saved) \in Nat
  BY DEF IInv, EvaluateAll, Beats, HandsRight, LimitsRight, LimitsType
<1>2. PICK early \in UpdateOnHeartbeat(limits, b, dealer, resets'), d \in Dealerchair(b) :
        /\ dealer' = d
        /\ limits' \in UpdateOnHeartbeat(IF b.handreset THEN UpdateOnHandreset(early) ELSE early,
                                         b, d, resets')
  BY DEF EvaluateAll
<1>3. dealer' \in Chairs \cup {Undefined}
  BY <1>2 DEF Dealerchair, IInv, Beats
<1>4. /\ LimitsRight(early)
      /\ limits.handLocked \/ limits.sessionLocked => early = limits
      /\ ~limits.handLocked /\ ~limits.sessionLocked /\ ~b.handreset =>
           ~early.handLocked /\ ~early.sessionLocked /\ early.saved = limits.saved
      /\ ~limits.handLocked /\ ~limits.sessionLocked /\ b.handreset =>
           /\ early.handLocked /\ early.lockedIn = resets'
           /\ Len(early.saved) <= Len(limits.saved) + 1
           /\ early.sessionLocked => istournament # "yes" /\ Len(early.saved) = HandsToLock
  BY <1>1, <1>2, HeartbeatFacts
<1> DEFINE ready == IF b.handreset THEN UpdateOnHandreset(early) ELSE early
<1>5. LimitsRight(ready)
  BY <1>4, ResetRight
<1>6. /\ b.handreset => /\ ~ready.handLocked /\ ready.session = early.session
                        /\ ready.sessionLocked = early.sessionLocked /\ ready.saved = early.saved
      /\ ~b.handreset => ready = early
  BY <1>4, ResetFields DEF LimitsRight
<1>7. limits' \in UpdateOnHeartbeat(ready, b, dealer', resets')
  BY <1>2
<1> HIDE DEF ready
<1>8. /\ LimitsRight(limits')
      /\ ready.handLocked \/ ready.sessionLocked => limits' = ready
      /\ ~ready.handLocked /\ ~ready.sessionLocked /\ ~b.handreset =>
           ~limits'.handLocked /\ ~limits'.sessionLocked /\ limits'.saved = ready.saved
      /\ ~ready.handLocked /\ ~ready.sessionLocked /\ b.handreset =>
           /\ limits'.handLocked /\ limits'.lockedIn = resets'
           /\ Len(limits'.saved) <= Len(ready.saved) + 1
           /\ limits'.sessionLocked => istournament # "yes" /\ Len(limits'.saved) = HandsToLock
  BY <1>1, <1>5, <1>7, HeartbeatFacts
<1>9. /\ early.handLocked \in BOOLEAN /\ early.sessionLocked \in BOOLEAN
      /\ ready.handLocked \in BOOLEAN /\ ready.sessionLocked \in BOOLEAN
      /\ limits'.handLocked \in BOOLEAN /\ limits'.sessionLocked \in BOOLEAN
      /\ early.saved \in Seq(Limits) /\ ready.saved \in Seq(Limits) /\ limits'.saved \in Seq(Limits)
      /\ Len(early.saved) \in Nat /\ Len(ready.saved) \in Nat /\ Len(limits'.saved) \in Nat
      /\ Len(limits'.saved) = 0 <=> limits'.saved = << >>
      /\ Len(limits.saved) = 0 <=> limits.saved = << >>
  BY <1>1, <1>4, <1>5, <1>8, EmptySeq DEF LimitsRight, LimitsType
<1>10. CASE ~b.handreset
  <2>1. limits.handLocked \/ limits.sessionLocked => limits' = limits
    BY <1>4, <1>6, <1>8, <1>10
  <2>2. ~limits.handLocked /\ ~limits.sessionLocked =>
          ~limits'.handLocked /\ ~limits'.sessionLocked /\ limits'.saved = limits.saved
    BY <1>4, <1>6, <1>8, <1>9, <1>10
  <2>3. HandsRight'
    BY <1>1, <1>9, <1>10, <2>1, <2>2 DEF HandsRight
  <2> QED BY <1>1, <1>3, <1>8, <1>10, <2>1, <2>2, <2>3
<1>11. CASE b.handreset
  <2>1. CASE limits.sessionLocked
    <3>1. /\ limits' = ready /\ ~ready.handLocked /\ ready.session = limits.session
          /\ ready.sessionLocked /\ ready.saved = limits.saved
      BY <1>4, <1>6, <1>8, <1>11, <2>1
    <3>2. HandsRight'
      BY <1>1, <1>11, <2>1, <3>1 DEF HandsRight
    <3> QED BY <1>3, <1>8, <1>11, <2>1, <3>1, <3>2
  <2>2. CASE limits.handLocked /\ ~limits.sessionLocked
    <3>1. /\ ~ready.handLocked /\ ~ready.sessionLocked /\ ready.saved = limits.saved
      BY <1>4, <1>6, <1>11, <2>2
    <3>2. /\ limits'.handLocked /\ limits'.lockedIn = resets'
          /\ Len(limits'.saved) <= Len(limits.saved) + 1
          /\ limits'.sessionLocked => istournament # "yes"
      BY <1>8, <1>11, <3>1
    <3>3. resets # 0 /\ resets' = resets + 1
      BY <1>1, <1>11, <2>2 DEF HandsRight
    <3>4. HandsRight'
      BY <1>1, <1>9, <3>2, <3>3 DEF HandsRight
    <3>5. limits'.sessionLocked => limits.saved # << >>
      BY <1>8, <1>9, <1>11, <3>1, <3>2
    <3> QED BY <1>3, <1>8, <1>11, <2>2, <3>2, <3>4, <3>5
  <2>3. CASE ~limits.handLocked /\ ~limits.sessionLocked
    <3>1. resets = 0 /\ resets' = 1 /\ Len(limits.saved) = 0
      BY <1>1, <1>9, <1>11, <2>3 DEF HandsRight
    <3>2. Len(early.saved) <= 1 /\ ~early.sessionLocked
      BY <1>4, <1>9, <1>11, <2>3, <3>1
    <3>3. ~ready.handLocked /\ ~ready.sessionLocked /\ Len(ready.saved) <= 1
      BY <1>6, <1>11, <3>2
    <3>4. /\ limits'.handLocked /\ limits'.lockedIn = resets' /\ Len(limits'.saved) <= 2
          /\ ~limits'.sessionLocked
      BY <1>8, <1>9, <1>11, <3>3
    <3>5. HandsRight'
      BY <1>9, <3>1, <3>4 DEF HandsRight
    <3> QED BY <1>3, <1>8, <1>11, <2>3, <3>4, <3>5
  <2> QED BY <1>1, <2>1, <2>2, <2>3
<1> QED BY <1>1, <1>10, <1>11
\* What is found out about the tournament.
LEMMA TournamentFacts ==
    ASSUME IInv, NEW e \in SUBSET Signs, NEW v \in Nat
    PROVE  LET found == TryToDetectTournament(e, v) IN
           /\ found.answer \in {"yes", "no", "unknown"} /\ found.final \in BOOLEAN
           /\ decisionLocked => found.answer = istournament /\ found.final
           /\ ShowsTournament(e) /\ istournament = "unknown" /\ ~decisionLocked =>
                found.answer = "yes" /\ found.final
<1>1. /\ istournament \in {"yes", "no", "unknown"} /\ decisionLocked \in BOOLEAN
  BY DEF IInv
<1>2. ShowsTournament(e) => "buyin" \in e \/ "title" \in e
  BY DEF ShowsTournament
<1> DEFINE found == TryToDetectTournament(e, v)
<1>3. \A a : /\ Sure(a).answer = a /\ Sure(a).final = TRUE
            /\ Perhaps(a).answer = a /\ Perhaps(a).final = FALSE
  BY DEF Sure, Perhaps
<1>4. decisionLocked => found = Sure(istournament)
  BY DEF TryToDetectTournament
<1>5. ShowsTournament(e) /\ istournament = "unknown" /\ ~decisionLocked => found = Sure("yes")
  BY <1>2 DEF TryToDetectTournament
<1> DEFINE answers == {"yes", "no", istournament}
<1>6. \/ found \in {Sure(a) : a \in answers}
      \/ found \in {Perhaps(a) : a \in answers}
  <2> DEFINE known == istournament # "unknown" /\ experienced
  <2>1. "yes" \in answers /\ "no" \in answers /\ istournament \in answers
    OBVIOUS
  <2>2. CASE decisionLocked \/ "buyin" \in e \/ known \/ "title" \in e
    <3>1. found = Sure(istournament) \/ found = Sure("yes")
      <4>1. CASE decisionLocked
        BY <4>1, SMT DEF TryToDetectTournament
      <4>2. CASE ~decisionLocked /\ "buyin" \in e
        BY <4>2, SMT DEF TryToDetectTournament
      <4>3. CASE ~decisionLocked /\ ~("buyin" \in e) /\ known
        BY <4>3, SMT DEF TryToDetectTournament
      <4>4. CASE ~decisionLocked /\ ~("buyin" \in e) /\ ~known /\ "title" \in e
        BY <4>4, SMT DEF TryToDetectTournament
      <4> QED BY <2>2, <4>1, <4>2, <4>3, <4>4
    <3> HIDE DEF found, answers
    <3> QED BY <2>1, <3>1
  <2>3. CASE ~(decisionLocked \/ "buyin" \in e \/ known \/ "title" \in e)
    <3>1. found = IF "few" \in e THEN Perhaps(istournament)
                  ELSE IF 0 < v /\ v < 1000 THEN Perhaps("no")
                  ELSE IF "manual" \in e THEN Perhaps(istournament)
                  ELSE IF "chips" \in e THEN Sure("yes")
                  ELSE IF v > 50000 THEN Perhaps("yes")
                  ELSE Sure("no")
      BY <2>3 DEF TryToDetectTournament
    <3> HIDE DEF found, answers
    <3>2. \/ found = Perhaps(istournament) \/ found = Perhaps("no") \/ found = Sure("yes")
          \/ found = Perhaps("yes") \/ found = Sure("no")
      BY <3>1
    <3> QED BY <2>1, <3>2
  <2> QED BY <2>2, <2>3
<1> HIDE DEF found
<1>7. found.answer \in {"yes", "no", "unknown"} /\ found.final \in BOOLEAN
  <2>1. PICK a \in answers : found = Sure(a) \/ found = Perhaps(a)
    BY <1>6
  <2>2. found.answer = a /\ found.final \in BOOLEAN
    BY <1>3, <2>1
  <2> QED BY <1>1, <2>2
<1> QED BY <1>3, <1>4, <1>5, <1>7 DEF found

LEMMA BestType == ASSUME NEW l, LimitsRight(l) PROVE BestTableLimits(l).bblind \in Nat
BY DEF LimitsRight, LimitsType, BestTableLimits, Limits

LEMMA NextInv == IInv /\ [Next]_vars => IInv'
<1> SUFFICES ASSUME IInv, [Next]_vars PROVE IInv'
  OBVIOUS
<1>1. CASE UpdateOnConnection
  <2>1. NoLimits \in Limits
    BY DEF NoLimits, Limits
  <2>2. LimitsRight(NoLimitsYet)
    BY <2>1 DEF LimitsRight, LimitsType, NoLimitsYet
  <2>3. ~limits'.handLocked /\ ~limits'.sessionLocked /\ limits'.saved = << >> /\ resets' = 0
    BY <1>1 DEF UpdateOnConnection, NoLimitsYet
  <2>4. HandsRight'
    BY <2>3, EmptySeq DEF HandsRight
  <2> QED BY <1>1, <2>2, <2>3, <2>4 DEF UpdateOnConnection, IInv, TournamentRight
<1>2. CASE GainExperience
  BY <1>2 DEF GainExperience, IInv, HandsRight, TournamentRight
<1>3. ASSUME NEW b \in Beats, EvaluateAll(b) PROVE IInv'
  <2>1. /\ LimitsRight(limits') /\ HandsRight'
        /\ limits'.sessionLocked => limits.sessionLocked \/ istournament # "yes"
        /\ limits'.sessionLocked => limits.sessionLocked \/ limits.saved # << >>
        /\ dealer' \in Chairs \cup {Undefined}
    BY <1>3, EvaluateAllLimits
  <2> DEFINE v == BestTableLimits(limits').bblind
             found == TryToDetectTournament(b.evidence, v)
  <2>2. v \in Nat /\ b.evidence \in SUBSET Signs
    BY <2>1, BestType DEF Beats
  <2>3. /\ found.answer \in {"yes", "no", "unknown"} /\ found.final \in BOOLEAN
        /\ decisionLocked => found.answer = istournament /\ found.final
        /\ ShowsTournament(b.evidence) /\ istournament = "unknown" /\ ~decisionLocked =>
             found.answer = "yes" /\ found.final
    BY <2>2, TournamentFacts
  <2>4. IF b.myTurn \/ istournament = "unknown"
        THEN istournament' = found.answer /\ decisionLocked' = found.final
        ELSE UNCHANGED <<istournament, decisionLocked>>
    BY <1>3 DEF EvaluateAll
  <2> HIDE DEF found
  <2>5. istournament' \in {"yes", "no", "unknown"} /\ decisionLocked' \in BOOLEAN
    BY <2>3, <2>4 DEF IInv
  <2>6. shown' = shown /\ experienced' = experienced /\ (shown => ShowsTournament(b.evidence))
    BY <1>3 DEF EvaluateAll
  <2>7. TournamentRight'
    <3> SUFFICES ASSUME shown
                 PROVE  ~limits'.sessionLocked /\ istournament' = "yes" /\ decisionLocked'
      BY <2>6 DEF TournamentRight
    <3>1. /\ ~limits.sessionLocked
          /\ \/ istournament = "unknown" /\ ~decisionLocked /\ limits.saved = << >>
             \/ istournament = "yes" /\ decisionLocked
      BY DEF IInv, TournamentRight
    <3>2. ~limits'.sessionLocked
      BY <2>1, <3>1
    <3>3. istournament' = "yes" /\ decisionLocked'
      BY <2>3, <2>4, <2>6, <3>1
    <3> QED BY <3>2, <3>3
  <2> QED BY <2>1, <2>5, <2>6, <2>7 DEF IInv
<1>4. CASE UNCHANGED vars
  BY <1>4 DEF vars, IInv, HandsRight, TournamentRight
<1> QED BY <1>1, <1>2, <1>3, <1>4 DEF Next, Heartbeat

LEMMA Invariance == Spec => []IInv
BY InitInv, NextInv, PTL DEF Spec

-----------------------------------------------------------------------------
(* The theorems.                                                           *)

\* The type invariant; the arrays of saved values never overflow.
THEOREM TypeCorrect == Spec => []TypeOK
<1>1. IInv => TypeOK
  BY DEF IInv, HandsRight, TypeOK, LimitsRight, LimitsType
<1> QED BY <1>1, Invariance, PTL

\* A value is the median if less than half of the others are on either side of it.
LEMMA MedianIsMajority ==
    ASSUME NEW S \in Seq(Limits), NEW p \in Positions, NEW s \in Nat, NEW t \in Nat,
           IsMedian(S, p, s),
           2 * Cardinality(Below(S, p, t)) < Len(S), 2 * Cardinality(Above(S, p, t)) < Len(S)
    PROVE  s = t
<1> DEFINE n == Len(S)
           D == 1 .. n
           k == (n - 1) \div 2
<1>1. n \in Nat /\ DOMAIN S = D /\ IsFiniteSet(D) /\ Cardinality(D) = n
  <2>1. n \in Nat /\ DOMAIN S = D
    BY LenProperties
  <2>2. \A m \in Nat : IsFiniteSet(1 .. m) /\ Cardinality(1 .. m) = m
    <3> SUFFICES ASSUME NEW m \in Nat PROVE IsFiniteSet(1 .. m) /\ Cardinality(1 .. m) = m
      OBVIOUS
    <3>1. 1 \in Int /\ m \in Int
      OBVIOUS
    <3>2. IsFiniteSet(1 .. m) /\ Cardinality(1 .. m) = IF 1 > m THEN 0 ELSE m - 1 + 1
      BY <3>1, FS_Interval, Zenon
    <3> QED BY <3>2
  <2> QED BY <2>1, <2>2
<1>2. \A i \in D : S[i][p] \in Nat
  <2>1. \A x \in Limits : x[p] \in Nat
    BY DEF Positions, Limits
  <2>2. \A i \in D : S[i] \in Limits
    BY <1>1
  <2> QED BY <2>1, <2>2
<1>3. \A x : Below(S, p, x) \subseteq D /\ Above(S, p, x) \subseteq D
  BY <1>1 DEF Below, Above
<1>4. \A x : /\ IsFiniteSet(Below(S, p, x)) /\ Cardinality(Below(S, p, x)) \in Nat
             /\ IsFiniteSet(Above(S, p, x)) /\ Cardinality(Above(S, p, x)) \in Nat
  BY <1>1, <1>3, FS_Subset, FS_CardinalityType
<1>5. \A A \in SUBSET D : IsFiniteSet(D \ A) /\ Cardinality(D \ A) = n - Cardinality(A)
  <2> SUFFICES ASSUME NEW A \in SUBSET D
               PROVE  IsFiniteSet(D \ A) /\ Cardinality(D \ A) = n - Cardinality(A)
    OBVIOUS
  <2>1. IsFiniteSet(D \ A) /\ Cardinality(D \ A) = Cardinality(D) - Cardinality(D \cap A)
    BY <1>1, FS_Difference
  <2>2. D \cap A = A
    OBVIOUS
  <2> QED BY <1>1, <2>1, <2>2
<1>6. Cardinality(Below(S, p, s)) <= k /\ Cardinality(Above(S, p, s)) < n - k
  BY DEF IsMedian
<1>7. n > 0 /\ 2 * k <= n - 1 /\ n - 2 <= 2 * k /\ k \in Nat
  BY <1>1, <1>4
<1>8. CASE s < t
  <2>1. D \ Above(S, p, s) \subseteq Below(S, p, t)
    BY <1>1, <1>2, <1>8 DEF Above, Below
  <2>2. n - Cardinality(Above(S, p, s)) <= Cardinality(Below(S, p, t))
    <3>1. Cardinality(D \ Above(S, p, s)) <= Cardinality(Below(S, p, t))
      BY <1>4, <2>1, FS_Subset
    <3>2. Cardinality(D \ Above(S, p, s)) = n - Cardinality(Above(S, p, s))
      BY <1>3, <1>5
    <3> QED BY <3>1, <3>2
  <2> QED BY <1>1, <1>4, <1>6, <1>7, <2>2
<1>9. CASE s > t
  <2>1. D \ Below(S, p, s) \subseteq Above(S, p, t)
    BY <1>1, <1>2, <1>9 DEF Above, Below
  <2>2. n - Cardinality(Below(S, p, s)) <= Cardinality(Above(S, p, t))
    <3>1. Cardinality(D \ Below(S, p, s)) <= Cardinality(Above(S, p, t))
      BY <1>4, <2>1, FS_Subset
    <3>2. Cardinality(D \ Below(S, p, s)) = n - Cardinality(Below(S, p, s))
      BY <1>3, <1>5
    <3> QED BY <3>1, <3>2
  <2> QED BY <1>1, <1>4, <1>6, <1>7, <2>2
<1> QED BY <1>8, <1>9

\* The limits of a session survive a minority of wrong ones, whatever hands they are from.
THEOREM MajorityCorrect == Spec => []MajorityIsRight
<1>1. ASSUME IInv, limits.sessionLocked, NEW p \in Positions, NEW t \in Values(limits.saved, p),
             2 * Cardinality(Below(limits.saved, p, t)) < Len(limits.saved),
             2 * Cardinality(Above(limits.saved, p, t)) < Len(limits.saved)
      PROVE  limits.session[p] = t
  <2>1. limits.saved \in Seq(Limits) /\ limits.session \in Medians(limits.saved)
    BY <1>1 DEF IInv, LimitsRight, LimitsType
  <2>2. limits.session \in Limits /\ IsMedian(limits.saved, p, limits.session[p])
    BY <2>1, MediansType
  <2>3. PICK i \in DOMAIN limits.saved : t = limits.saved[i][p]
    BY DEF Values
  <2>4. limits.saved[i] \in Limits
    BY <2>1
  <2>5. t \in Nat /\ limits.session[p] \in Nat
    BY <2>2, <2>3, <2>4 DEF Positions, Limits
  <2> QED BY <1>1, <2>1, <2>2, <2>5, MedianIsMajority
<1>2. IInv => MajorityIsRight
  BY <1>1 DEF MajorityIsRight
<1> QED BY <1>2, Invariance, PTL

\* Only the first hand is saved twice.
THEOREM SavedCorrect == Spec => []SavedOncePerHand
<1>1. IInv => SavedOncePerHand
  BY DEF IInv, HandsRight, SavedOncePerHand
<1> QED BY <1>1, Invariance, PTL

\* No lock outlives its hand.
THEOREM LocksCorrect == Spec => []LocksAreOfThisHand
<1>1. IInv => LocksAreOfThisHand
  BY DEF IInv, HandsRight, LocksAreOfThisHand
<1> QED BY <1>1, Invariance, PTL

\* There are limits from the first hand on.
THEOREM LimitsCorrect == Spec => []AlwaysLimits
<1>1. ASSUME IInv, resets > 0 PROVE BestTableLimits(limits) \in Known
  <2>1. LimitsRight(limits) /\ (limits.handLocked \/ limits.sessionLocked)
    BY <1>1 DEF IInv, HandsRight
  <2>2. limits.sessionLocked => limits.session \in Known
    <3>1. limits.saved \in Seq(Limits)
      BY <2>1 DEF LimitsRight, LimitsType
    <3> QED BY <2>1, <3>1, MediansType DEF LimitsRight
  <2> QED BY <2>1, <2>2 DEF LimitsRight, BestTableLimits
<1>2. IInv => AlwaysLimits
  BY <1>1 DEF AlwaysLimits
<1> QED BY <1>2, Invariance, PTL

\* A tournament that shows itself keeps its blinds open.
THEOREM TournamentCorrect == Spec => []ShownTournamentNeverLocks
<1>1. IInv => ShownTournamentNeverLocks
  BY DEF IInv, TournamentRight, ShownTournamentNeverLocks
<1> QED BY <1>1, Invariance, PTL

\* The limits stand for the hand or for the session.
THEOREM StandCorrect == Spec => LimitsStand
<1> DEFINE A == limits.sessionLocked \/ (limits.handLocked /\ resets' = resets)
                => BestTableLimits(limits') = BestTableLimits(limits) \/ UpdateOnConnection
<1>1. ASSUME IInv, NEW b \in Beats, EvaluateAll(b) PROVE A
  <2>1. /\ limits.sessionLocked =>
             limits'.sessionLocked /\ limits'.session = limits.session
        /\ limits.handLocked /\ ~b.handreset => limits' = limits
    BY <1>1, EvaluateAllLimits
  <2>2. resets' = resets => ~b.handreset
    BY <1>1 DEF EvaluateAll, IInv, HandsRight
  <2> QED BY <2>1, <2>2 DEF BestTableLimits
<1>2. IInv /\ [Next]_vars => [A]_vars
  BY <1>1 DEF Next, Heartbeat, GainExperience
<1> QED BY <1>2, Invariance, PTL DEF Spec, LimitsStand
=============================================================================
