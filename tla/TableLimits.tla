----------------------------- MODULE TableLimits -----------------------------
(***************************************************************************)
(* CSymbolEngineTableLimits and CSymbolEngineIsTournament over the         *)
(* heartbeats of many hands.  The blinds are guessed (BlindGuesser) until  *)
(* a hand-reset locks them for the hand; in a cash game the median of the  *)
(* first few locked values is locked for the session.  Whether it is a     *)
(* cash game is itself found out on the way, partly from the blinds.       *)
(*                                                                         *)
(* CEngineContainer::EvaluateAll calculates the limits twice in every      *)
(* heartbeat: once in advance, with the dealer chair of the heartbeat      *)
(* before and without having told the engine of a hand-reset, and once in  *)
(* the turn of the engine.                                                 *)
(***************************************************************************)
EXTENDS BlindGuesser, FiniteSets

CONSTANTS
    HandsToLock,    \* k_number_of_hands_to_autolock_blinds_for_cashgames
    Titles,         \* what the scraper may find: limits with unknown parts
    Pictures,       \* what the bets at the table may look like
    Chairs,         \* where the dealer button may be
    Evidence,       \* what there may be to tell a tournament by: sets of Signs
    MaxHands        \* bound on the hand-resets of a connection

Undefined == "undefined"
Signs == {"buyin",      \* a buy-in, or figures of a multi-table tournament
          "title",      \* the title says so, or it is DDPoker
          "few",        \* less than two players
          "manual",     \* connected to ManualMode
          "chips"}      \* antes, or bets and balances like in a tournament

\* The first hand is saved twice, before it is known whether this is a tournament.
ASSUME HandsAssumption == HandsToLock \in Nat /\ HandsToLock > 2
ASSUME SightAssumption == Titles \subseteq Limits /\ Pictures \subseteq AllPictures
ASSUME EvidenceAssumption == Evidence \subseteq SUBSET Signs

VARIABLES
    limits,         \* the fields of CSymbolEngineTableLimits, see NoLimitsYet
    istournament,   \* _istournament: yes, no or unknown
    decisionLocked, \* _decision_locked
    dealer,         \* CSymbolEngineDealerchair::_dealerchair
    experienced,    \* more than two hands played, and acted since the connection
    resets,         \* ghost: hand-resets since the connection
    shown           \* ghost: a tournament, and there is always a sign to tell it by

vars == <<limits, istournament, decisionLocked, dealer, experienced, resets, shown>>

\* What one heartbeat sees: a view of the table, the decision of the hand-reset
\* detector, and whether it is our turn.
Beats == [title : Titles, picture : Pictures, button : Chairs \cup {Undefined},
          handreset : BOOLEAN, myTurn : BOOLEAN, evidence : Evidence]

ShowsTournament(evidence) == evidence \cap {"buyin", "title"} # {}

NoLimitsYet ==
    [best |-> NoLimits,         \* tablelimit_best_guess
     hand |-> NoLimits,         \* tablelimit_locked_for_current_hand
     session |-> NoLimits,      \* tablelimit_locked_for_complete_session
     handLocked |-> FALSE,      \* blinds_locked_for_current_hand
     sessionLocked |-> FALSE,   \* blinds_locked_for_complete_session
     saved |-> << >>,           \* tablelimits_first_N_hands_*, as many as are saved
     lockedIn |-> 0]            \* ghost: the hand that was locked in, 0: none

Init ==
    /\ limits = NoLimitsYet
    /\ istournament = "unknown" /\ decisionLocked = FALSE
    /\ dealer = Undefined /\ experienced = FALSE
    /\ resets = 0 /\ shown \in BOOLEAN

-----------------------------------------------------------------------------

\* Mutant: the lock of the hand comes first.
BestTableLimitsOfHand(l) ==
    IF l.handLocked THEN l.hand ELSE IF l.sessionLocked THEN l.session ELSE l.best

\* BestTableLimitsToBeUsed.
BestTableLimits(l) ==
    IF l.sessionLocked THEN l.session ELSE IF l.handLocked THEN l.hand ELSE l.best

\* Mutant: keeps the lock.
UpdateOnHandresetKeeps(l) == [l EXCEPT !.best = NoLimits]

\* UpdateOnHandreset of the limits.
UpdateOnHandreset(l) ==
    [l EXCEPT !.best = NoLimits, !.hand = NoLimits, !.handLocked = FALSE, !.lockedIn = 0]

Values(saved, p) == {saved[i][p] : i \in DOMAIN saved}
Below(saved, p, t) == {i \in DOMAIN saved : saved[i][p] < t}
Above(saved, p, t) == {i \in DOMAIN saved : saved[i][p] > t}

\* Mutant: an element too far to the right.
IsMedianOffByOne(saved, p, t) ==
    LET k == Len(saved) \div 2 + 1
    IN Cardinality(Below(saved, p, t)) <= k /\ Cardinality(Above(saved, p, t)) < Len(saved) - k

\* kth_smallest of Median.cpp, with k = (n - 1) / 2 counted from zero: at most k values
\* are smaller, and the larger ones leave room for k + 1 others.
IsMedian(saved, p, t) ==
    LET k == (Len(saved) - 1) \div 2
    IN Cardinality(Below(saved, p, t)) <= k /\ Cardinality(Above(saved, p, t)) < Len(saved) - k

\* The medians of the three positions, each taken by itself.
Medians(saved) ==
    {t \in [sblind : Values(saved, "sblind"), bblind : Values(saved, "bblind"),
            bbet : Values(saved, "bbet")] : \A p \in Positions : IsMedian(saved, p, t[p])}

\* AutoLockBlindsForCashgamesAfterNHands: what is not known to be a tournament counts
\* as a cash game.
AutoLockBlindsForCashgames(l) ==
    IF l.sessionLocked \/ istournament = "yes" \/ Len(l.saved) # HandsToLock THEN {l}
    ELSE {[l EXCEPT !.sessionLocked = TRUE, !.session = t] : t \in Medians(l.saved)}

\* Mutant: without a look at the number of values saved.
AutoLockBlindsForCurrentHandAppends(l, n) ==
    [l EXCEPT !.hand = l.best, !.handLocked = TRUE, !.lockedIn = n, !.saved = Append(@, l.best)]

\* AutoLockBlindsForCurrentHand with RememberBlindsForCashgames, in the n-th hand.
AutoLockBlindsForCurrentHand(l, n) ==
    [l EXCEPT !.hand = l.best, !.handLocked = TRUE, !.lockedIn = n,
              !.saved = IF Len(@) < HandsToLock THEN Append(@, l.best) ELSE @]

TableLimitsNeedToBeComputed(l) == ~l.handLocked /\ ~l.sessionLocked

\* AutoLockBlinds.
AutoLockBlinds(l, handreset, n) ==
    IF handreset /\ ~l.handLocked
    THEN AutoLockBlindsForCashgames(AutoLockBlindsForCurrentHand(l, n)) ELSE {l}

\* UpdateOnHeartbeat and CalcTableLimits, for the dealer chair d in the n-th hand.
UpdateOnHeartbeat(l, b, d, n) ==
    IF ~TableLimitsNeedToBeComputed(l) THEN {l}
    ELSE UNION {AutoLockBlinds([l EXCEPT !.best = guess], b.handreset, n) :
                  guess \in Guess(b.title, b.picture, d # Undefined /\ d = b.button)}

\* CSymbolEngineDealerchair::UpdateOnHeartbeat: without the button it is the chair before
\* the small blind, if a bet looks like one, and the one of before otherwise.
Dealerchair(b) ==
    IF b.button # Undefined THEN {b.button} ELSE {dealer, Undefined} \cup Chairs

-----------------------------------------------------------------------------

Sure(a) == [answer |-> a, final |-> TRUE]
Perhaps(a) == [answer |-> a, final |-> FALSE]

\* Mutant: looks at the blinds before the title.
TryToDetectBlindsFirst(evidence, bblind) ==
    IF decisionLocked THEN Sure(istournament)
    ELSE IF "buyin" \in evidence THEN Sure("yes")
    ELSE IF istournament # "unknown" /\ experienced THEN Sure(istournament)
    ELSE IF 0 < bblind /\ bblind < 1000 THEN Perhaps("no")
    ELSE IF "title" \in evidence THEN Sure("yes")
    ELSE IF bblind > 50000 THEN Perhaps("yes")
    ELSE Sure("no")

\* CSymbolEngineIsTournament::TryToDetectTournament: the answer, and whether it is final.
\* The big blind of a tournament is 10.00 at least, a large one is above 500.00.
TryToDetectTournament(evidence, bblind) ==
    IF decisionLocked THEN Sure(istournament)
    ELSE IF "buyin" \in evidence THEN Sure("yes")
    ELSE IF istournament # "unknown" /\ experienced THEN Sure(istournament)
    ELSE IF "title" \in evidence THEN Sure("yes")
    ELSE IF "few" \in evidence THEN Perhaps(istournament)
    ELSE IF 0 < bblind /\ bblind < 1000 THEN Perhaps("no")
    ELSE IF "manual" \in evidence THEN Perhaps(istournament)
    ELSE IF "chips" \in evidence THEN Sure("yes")
    ELSE IF bblind > 50000 THEN Perhaps("yes")
    ELSE Sure("no")

\* Mutant: the values saved at the table of before stay.
UpdateOnConnectionKeepsSaved ==
    /\ limits' = [NoLimitsYet EXCEPT !.saved = limits.saved]
    /\ istournament' = "unknown" /\ decisionLocked' = FALSE
    /\ dealer' = Undefined /\ experienced' = FALSE /\ resets' = 0
    /\ UNCHANGED shown

\* The auto-connector: UpdateOnConnection of the engines.
UpdateOnConnection ==
    /\ limits' = NoLimitsYet
    /\ istournament' = "unknown" /\ decisionLocked' = FALSE
    /\ dealer' = Undefined /\ experienced' = FALSE /\ resets' = 0
    /\ UNCHANGED shown

\* The autoplayer acts for the first time, or the third hand is over.
GainExperience ==
    /\ ~experienced /\ experienced' = TRUE
    /\ UNCHANGED <<limits, istournament, decisionLocked, dealer, resets, shown>>

\* EvaluateAll: the limits in advance; then dealer chair, limits and tournament in turn.
EvaluateAll(b) ==
    /\ shown => ShowsTournament(b.evidence)
    /\ b.handreset => resets < MaxHands
    /\ resets' = IF b.handreset THEN resets + 1 ELSE resets
    /\ \E early \in UpdateOnHeartbeat(limits, b, dealer, resets'), d \in Dealerchair(b) :
         LET ready == IF b.handreset THEN UpdateOnHandreset(early) ELSE early
         IN dealer' = d /\ limits' \in UpdateOnHeartbeat(ready, b, d, resets')
    /\ IF b.myTurn \/ istournament = "unknown"
         THEN LET found == TryToDetectTournament(b.evidence, BestTableLimits(limits').bblind)
              IN istournament' = found.answer /\ decisionLocked' = found.final
         ELSE UNCHANGED <<istournament, decisionLocked>>
    /\ UNCHANGED <<experienced, shown>>

Heartbeat == \E b \in Beats : EvaluateAll(b)

Next == UpdateOnConnection \/ GainExperience \/ Heartbeat

Spec == Init /\ [][Next]_vars

-----------------------------------------------------------------------------

\* The fields have their types, and the arrays of saved values do not overflow
\* (RememberBlindsForCashgames, CSymbolEngineTableLimits.cpp:192).
TypeOK ==
    /\ limits \in [best : Limits, hand : Limits, session : Limits, handLocked : BOOLEAN,
                  sessionLocked : BOOLEAN, saved : Seq(Limits), lockedIn : Nat]
    /\ Len(limits.saved) <= HandsToLock
    /\ istournament \in {"yes", "no", "unknown"} /\ decisionLocked \in BOOLEAN
    /\ dealer \in Chairs \cup {Undefined} /\ experienced \in BOOLEAN
    /\ resets \in Nat /\ shown \in BOOLEAN

\* The limits of the session are right in every position in which less than half of
\* the saved values are too small and less than half of them too high
\* (AutoLockBlindsForCashgamesAfterNHands, CSymbolEngineTableLimits.cpp:170-173).
MajorityIsRight ==
    limits.sessionLocked =>
        \A p \in Positions : \A t \in Values(limits.saved, p) :
            /\ 2 * Cardinality(Below(limits.saved, p, t)) < Len(limits.saved)
            /\ 2 * Cardinality(Above(limits.saved, p, t)) < Len(limits.saved)
            => limits.session[p] = t

\* The limits that the bot calculates with stand until the next hand once they are
\* locked for a hand, and until the next connection once they are locked for the
\* session, although they are calculated twice per heartbeat.
LimitsStand ==
    [][limits.sessionLocked \/ (limits.handLocked /\ resets' = resets)
        => BestTableLimits(limits') = BestTableLimits(limits) \/ UpdateOnConnection]_vars

\* No hand weighs more than another in the median, except the first one of a
\* connection: it is saved twice, in advance and in the turn of the engine.
SavedOncePerHand == Len(limits.saved) <= resets + 1

\* What is locked for a hand was guessed in that hand, also where the calculation in
\* advance has locked it before the engine was told of the new hand.
LocksAreOfThisHand == limits.handLocked => limits.lockedIn = resets

\* From the first hand on there are always limits to calculate with, whatever could be
\* seen; bets are divided by them everywhere.
AlwaysLimits == resets > 0 => BestTableLimits(limits) \in Known

\* The blinds of a tournament that shows a buy-in or a title are never locked for the
\* session, although its first heartbeats are taken for a cash game
\* (TryToDetectTournament, CSymbolEngineIsTournament.cpp:389-396: locking does the harm).
ShownTournamentNeverLocks == shown => ~limits.sessionLocked
=============================================================================
