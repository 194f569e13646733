---------------------------- MODULE BlindGuesser ----------------------------
(***************************************************************************)
(* CBlindGuesser and CBlindLevels: the blinds and the big bet of a table   *)
(* from whatever is known of them.  What the table's title says is looked  *)
(* up in a list of well-known levels, completed by rules of thumb if it is *)
(* not there, and replaced by the first bets behind the dealer if nothing  *)
(* can be made of it.                                                      *)
(*                                                                         *)
(* Amounts are whole numbers of cents; 0 stands for every unknown amount.  *)
(* A guess is a set of possible results: the search for a smaller blind    *)
(* may run beyond the end of the list, and then finds anything.            *)
(***************************************************************************)
EXTENDS Naturals, Sequences

CONSTANTS
    Levels,     \* kBlindLevels: the list of known levels
    Amounts     \* what memory behind the list may look like

Limits == [sblind : Nat, bblind : Nat, bbet : Nat]
Known == [sblind : Nat \ {0}, bblind : Nat \ {0}, bbet : Nat \ {0}]

ASSUME LevelsAssumption == Levels \in Seq(Known) /\ Levels # << >>
ASSUME AmountsAssumption == Amounts \subseteq Nat

NoLimits == [sblind |-> 0, bblind |-> 0, bbet |-> 0]
LowestLevel == [sblind |-> 1, bblind |-> 2, bbet |-> 4]

\* The first bets behind the dealer (0: there is none), whether the first one is
\* next to him, whether two players were dealt in, and whether antes are visible.
AllPictures ==
    [first : Nat, second : Nat, adjacent : BOOLEAN, headsup : BOOLEAN, antes : BOOLEAN]

Positions == {"sblind", "bblind", "bbet"}

-----------------------------------------------------------------------------

MatchesPerfectly(x, level) == \A p \in Positions : x[p] > 0 => x[p] = level[p]
MatchesPartially(x, level) == \E p \in Positions : x[p] > 0 /\ x[p] = level[p]

\* Empty only for an empty set of numbers.
First(S) == {i \in S : \A j \in S : i <= j}

\* CBlindLevels::BestMatchingBlindLevel: the first level that fits what is known,
\* else the first that agrees in one position and overrules the others.
BestMatchingBlindLevel(x) ==
    LET perfect == {i \in DOMAIN Levels : MatchesPerfectly(x, Levels[i])}
        partial == {i \in DOMAIN Levels : MatchesPartially(x, Levels[i])}
    IN IF x = NoLimits THEN {}
       ELSE {Levels[i] : i \in First(IF perfect # {} THEN perfect ELSE partial)}

\* CBlindLevels::GetNextSmallerOrEqualBlindOnList for one half of the argument.  It
\* starts at the end of the list and counts upwards: the small blind of the last
\* level is taken unless the guess is larger, and then there is only memory left:
\* any amount that fits.  A read that runs on until it faults is not modelled.
NextSmallerOrEqualBlind(double) ==
    LET last == Levels[Len(Levels)]
    IN IF double >= 2 * last.sblind /\ double <= 2 * last.bblind
         THEN {last.bblind}
       ELSE IF double <= 2 * last.sblind
         THEN {last.sblind}
       ELSE {a \in Amounts : a > 0 /\ double <= 2 * a}

HalfBlindValue(known) == NextSmallerOrEqualBlind(known)

SBlindBBlindReasonable(x) ==
    x.sblind > 0 /\ x.bblind > 0 /\ 100 * x.sblind >= 33 * x.bblind /\ x.sblind <= x.bblind
SBlindBBetReasonable(x) ==
    x.sblind > 0 /\ x.bbet > 0 /\ 100 * x.sblind >= 16 * x.bbet /\ 2 * x.sblind <= x.bbet
BBlindBBetReasonable(x) ==
    x.bblind > 0 /\ x.bbet > 0 /\ 5 * x.bblind >= 2 * x.bbet /\ 100 * x.bblind <= 67 * x.bbet

\* CBlindGuesser::CompletePartiallyKnownBlinds: two values that go together give the
\* third, else one value gives the others; no result if nothing is known.
CompletePartiallyKnownBlinds(x) ==
    LET sb == SBlindBBlindReasonable(x)
        sB == SBlindBBetReasonable(x)
        bB == BBlindBBetReasonable(x)
    IN IF sb /\ sB /\ bB THEN {x}
       ELSE IF sb THEN {[x EXCEPT !.bbet = 2 * x.bblind]}
       ELSE IF sB THEN {[x EXCEPT !.bblind = half] : half \in HalfBlindValue(x.bbet)}
       ELSE IF bB THEN {[x EXCEPT !.sblind = half] : half \in HalfBlindValue(x.bblind)}
       ELSE IF x.bblind >= 2
         THEN {[x EXCEPT !.sblind = half, !.bbet = 2 * x.bblind] :
                 half \in HalfBlindValue(x.bblind)}
       ELSE IF x.bbet >= 4
         THEN UNION {{[x EXCEPT !.bblind = half, !.sblind = quarter] :
                        quarter \in HalfBlindValue(half)} : half \in HalfBlindValue(x.bbet)}
       ELSE IF x.sblind >= 1
         THEN {[x EXCEPT !.bblind = 2 * x.sblind, !.bbet = 4 * x.sblind]}
       ELSE {}

BigBlind(amount) == [NoLimits EXCEPT !.bblind = amount]
SmallBlind(amount) == [NoLimits EXCEPT !.sblind = amount]

\* The rules of GetFirstBlindDataFromBetsAtTheTable for the two bets.
BlindFromBets(p) ==
    IF p.headsup /\ p.second > 0 /\ 100 * p.second < 61 * p.first THEN BigBlind(p.first)
    ELSE IF p.second < 2 * p.first THEN BigBlind(p.second)
    ELSE IF p.adjacent THEN SmallBlind(p.first)
    ELSE IF p.second = 0 \/ 2 * p.second > 5 * p.first THEN BigBlind(p.first)
    ELSE SmallBlind(p.first)

\* With antes the blind that is missing is derived from the other one (of big blinds
\* that are even; what is made of the ante itself is left out).
WithAntes(x) ==
    LET s == IF x.sblind = 0 THEN x.bblind \div 2 ELSE x.sblind
        b == IF x.bblind = 0 THEN 2 * s ELSE x.bblind
    IN [x EXCEPT !.sblind = s, !.bblind = b]

\* CBlindGuesser::GetFirstBlindDataFromBetsAtTheTable: nothing without the dealer.
FirstBlindDataFromBets(p, dealerSeen) ==
    IF ~dealerSeen THEN NoLimits
    ELSE IF p.antes THEN WithAntes(BlindFromBets(p)) ELSE BlindFromBets(p)

MatchOrComplete(x) ==
    LET level == BestMatchingBlindLevel(x)
    IN IF level # {} THEN level ELSE CompletePartiallyKnownBlinds(x)

\* Mutant: without the last resort.
GuessOrNothing(title, picture, dealerSeen) ==
    LET known == MatchOrComplete(title)
        seen == MatchOrComplete(FirstBlindDataFromBets(picture, dealerSeen))
    IN IF known # {} THEN known ELSE IF seen # {} THEN seen ELSE {NoLimits}

\* CBlindGuesser::Guess.
Guess(title, picture, dealerSeen) ==
    LET known == MatchOrComplete(title)
        seen == MatchOrComplete(FirstBlindDataFromBets(picture, dealerSeen))
    IN IF known # {} THEN known ELSE IF seen # {} THEN seen ELSE {LowestLevel}
=============================================================================
