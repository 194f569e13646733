-------------------------- MODULE DecisionService --------------------------
(***************************************************************************)
(* The decision service (server.cpp, engined.cpp): one thread that answers *)
(* one request after the other.  POST /decide fills the table state and    *)
(* evaluates all symbol engines once; a request without a body evaluates   *)
(* the table of the request before.  Each evaluation is one heartbeat of   *)
(* the engine, so whatever an engine remembers from heartbeat to heartbeat *)
(* it remembers from request to request: who the hero is, where the dealer *)
(* was, the history of the hand.  Nothing in a request says that a new     *)
(* hand has begun; the engine finds out with CHandresetDetector.           *)
(*                                                                         *)
(* A request gives the dealer, the chair and the cards of the hero and the *)
(* community cards.  All other chairs are occupied and show card backs     *)
(* (the default of the request).  The caller plays one hand after the      *)
(* other and asks as often as it likes in each of them.                    *)
(***************************************************************************)
EXTENDS HandresetDetector

CONSTANTS
  Chairs,           \* the chairs of the table
  Boards,           \* the numbers of community cards a request shows
  Delays,           \* seconds between a request and the one before
  MaxHands          \* bound on the hands the caller plays

ASSUME ChairsAssumption == Chairs \subseteq Nat /\ Chairs # {}
ASSUME BoardsAssumption == Boards \subseteq {0, 3, 4, 5} /\ Boards # {}
ASSUME DelaysAssumption == Delays \subseteq Nat
ASSUME CardsAssumption ==
  Card # {} /\ CardUndefined \notin Card /\ CardBack \notin Card
ASSUME OtherMethodsAssumption == IsFiniteSet(OtherMethods)
ASSUME MaxHandsAssumption == MaxHands \in Nat \ {0}

VARIABLES
  ready,            \* g_table_state_ready
  noMyTurn,         \* the environment variable HISS_NOMYTURN is set
  table,            \* p_table_state: what the last request with a body said
  userchair,        \* CSymbolEngineUserchair::_userchair
  dealer,           \* CSymbolEngineDealerchair::_dealerchair
  history,          \* _nplayersround: for each round the hand it was counted in, 0: none
  elapsed,          \* seconds since the connection, see Clock
  elapsedhand,      \* seconds since the last hand-reset, see Clock
  \* What a caller knows and the service is not told:
  hand,             \* number of the hand the table shows, 0 before the first request
  heartbeats,       \* evaluations of this hand so far, at most 2
  distinct,         \* dealer and both cards are new, the user chair is the hero's already
  muted,            \* in this hand an evaluation before its reset was throttled
  early,            \* this hand was evaluated before the river
  resets,           \* hand-resets since this hand began
  gap,              \* seconds from the last hand-reset to this evaluation
  calm              \* none of the OtherMethods ever fires

requestVars == <<ready, noMyTurn, table>>
engineVars == <<userchair, dealer, history, elapsed, elapsedhand>>
handVars == <<hand, heartbeats, distinct, muted, early, resets, gap, calm>>
vars == <<detectorVars, requestVars, engineVars, handVars>>

Preflop == 1
River == 4
Betrounds == Preflop..River
Table == [dealer : Chairs, hero : Chairs, hole : Card \X Card, board : Boards]

\* Only differences below and beyond the throttle matter.
Clock == 0..(Throttle + 1)
After(delay, clock) == IF clock + delay > Throttle THEN Throttle + 1 ELSE clock + delay

OtherEvidence == IF calm THEN {{}} ELSE SUBSET OtherMethods

TypeOK ==
  /\ last \in [dealerchair : Chairs \cup {Undefined}, cards : Cards,
               board : Boards \cup {Undefined}]
  /\ window \in (SUBSET Method) \X (SUBSET Method) \X (SUBSET Method)
  /\ isHandreset \in BOOLEAN /\ handsPlayed \in 0..MaxHandsPlayed
  /\ ready \in BOOLEAN /\ noMyTurn \in BOOLEAN
  /\ table \in Table
  /\ userchair \in Chairs \cup {Undefined}
  /\ dealer \in Chairs \cup {Undefined}
  /\ history \in [Betrounds -> 0..MaxHands]
  /\ elapsed \in Clock /\ elapsedhand \in Clock
  /\ hand \in 0..MaxHands /\ heartbeats \in 0..2
  /\ distinct \in BOOLEAN /\ muted \in BOOLEAN
  /\ early \in BOOLEAN /\ calm \in BOOLEAN
  /\ resets \in Nat /\ gap \in Clock

\* hiss_boot(): the engine is connected, no request has been seen.
Init ==
  /\ InitDetector
  /\ ready = FALSE
  /\ noMyTurn \in BOOLEAN
  /\ table = CHOOSE t \in Table : TRUE      \* nobody looks at it
  /\ userchair = Undefined
  /\ dealer = Undefined
  /\ history = [r \in Betrounds |-> 0]
  /\ elapsed = 0 /\ elapsedhand = 0
  /\ hand = 0 /\ heartbeats = 0 /\ distinct = FALSE
  /\ muted = FALSE /\ early = FALSE /\ resets = 0 /\ gap = 0
  /\ calm \in BOOLEAN
-----------------------------------------------------------------------------
\* CBetroundCalculator: an incomplete flop is still preflop.
Betround(t) ==
  CASE t.board = 5 -> River [] t.board = 4 -> 3 [] t.board = 3 -> 2
    [] OTHER -> Preflop

\* CTableState::User(): the chair that the engine takes for the hero's.
UsersCards(t) ==
  IF userchair = Undefined THEN NoCards
  ELSE IF userchair = t.hero THEN t.hole
  ELSE <<CardBack, CardBack>>

\* CCasinoInterface::IsMyTurn(): without a screen nothing but the flag says so.
IsMyTurn == ~noMyTurn

\* A mutant: a chair that was found once is kept for ever.
CalculateUserChairOnce(t) ==
  IF userchair = Undefined /\ Betround(t) < River THEN t.hero ELSE userchair

(* CSymbolEngineUserchair: looks for a new chair unless the known chair    *)
(* shows its cards.  On the river known cards may be a showdown; without   *)
(* visible buttons none of them is taken for the hero's.                   *)
CalculateUserChair(t) ==
  IF userchair # t.hero /\ Betround(t) < River THEN t.hero ELSE userchair

UpdateUserchair(t) ==
  userchair' = IF userchair = Undefined \/ IsMyTurn THEN CalculateUserChair(t)
               ELSE userchair

\* Mutant: the history survives a hand-reset.
UpdateHistoryKeeps(t, h) ==
  history' = IF history[Betround(t)] = 0 THEN [history EXCEPT ![Betround(t)] = h] ELSE history

(* CSymbolEngineHistory: the number of players of a round is counted once  *)
(* and kept until a hand-reset.  It is counted when it is our turn or when *)
(* the user has no cards, here: when the user is not known.                *)
CalculateHistory(past, t, h) ==
  IF past[Betround(t)] = 0 THEN [past EXCEPT ![Betround(t)] = h] ELSE past

UpdateHistory(t, h) ==
  LET past == IF isHandreset' THEN [r \in Betrounds |-> 0] ELSE history
  IN history' = IF IsMyTurn \/ userchair' = Undefined
                THEN CalculateHistory(past, t, h) ELSE past

(* EvaluateAll(): the hand-reset detector first, with the dealer chair and *)
(* the user chair of the evaluation before, then the engines one by one.   *)
EvaluateAll(t, h, other, now, nowhand) ==
  /\ OnNewHeartbeat(dealer, UsersCards(t), t.board, other, nowhand, now,
                    userchair # Undefined)
  /\ UpdateUserchair(t)
  /\ dealer' = t.dealer
  /\ elapsed' = now
  /\ elapsedhand' = IF isHandreset' THEN 0 ELSE nowhand
  /\ UpdateHistory(t, h)

\* An evaluation, and what the caller knows about it.
Evaluate(t, new, delay) ==
  \E other \in OtherEvidence :
    LET h == IF new THEN hand + 1 ELSE hand
        now == After(delay, elapsed)
        nowhand == After(delay, elapsedhand)
        before == IF new THEN 0 ELSE resets
    IN /\ EvaluateAll(t, h, other, now, nowhand)
       /\ hand' = h
       /\ heartbeats' = IF new THEN 1 ELSE 2
       /\ early' = ((~new /\ early) \/ Betround(t) < River)
       /\ muted' = \/ ~new /\ muted
                   \/ before = 0 /\ TooShortlyAfterLastHandreset(nowhand, now)
       /\ resets' = IF isHandreset' THEN before + 1 ELSE before
       /\ gap' = After(delay, IF isHandreset THEN 0 ELSE gap)
       /\ UNCHANGED calm

\* POST /decide: PopulateTableState() replaces the whole table state.
Populate(t) ==
  /\ table' = t
  /\ ready' = TRUE
  /\ UNCHANGED noMyTurn

DecideFirstOfHand(t, delay) ==
  /\ hand < MaxHands
  /\ Populate(t)
  /\ distinct' = /\ hand > 0
                 /\ t.dealer # table.dealer
                 /\ t.hole[1] # table.hole[1] /\ t.hole[2] # table.hole[2]
                 /\ t.hero = userchair
  /\ Evaluate(t, TRUE, delay)

DecideAgain(t, delay) ==
  /\ hand > 0
  /\ t.board >= table.board
  /\ [t EXCEPT !.board = table.board] = table
  /\ Populate(t)
  /\ UNCHANGED distinct
  /\ Evaluate(t, FALSE, delay)

\* /decide without a body: the table of the last request is evaluated again.
DecideWithoutBody(delay) ==
  /\ ready
  /\ UNCHANGED <<requestVars, distinct>>
  /\ Evaluate(table, FALSE, delay)

\* Without a table nothing is evaluated; /health and unknown paths never are.
AnswerUnevaluated(delay) ==
  /\ ~ready
  /\ elapsed' = After(delay, elapsed)
  /\ elapsedhand' = After(delay, elapsedhand)
  /\ gap' = After(delay, gap)
  /\ UNCHANGED <<detectorVars, requestVars, userchair, dealer, history, hand, heartbeats,
                 distinct, muted, early, resets, calm>>

Next ==
  \E delay \in Delays :
    \/ \E t \in Table : DecideFirstOfHand(t, delay)
    \/ \E board \in Boards : DecideAgain([table EXCEPT !.board = board], delay)
    \/ DecideWithoutBody(delay)
    \/ AnswerUnevaluated(delay)

Spec == Init /\ [][Next]_vars
-----------------------------------------------------------------------------
(* The hero is the chair of the request that holds the hole cards, as soon *)
(* as this hand has been evaluated once before the river, whoever was the  *)
(* hero of the hands before (the chair is remembered from request to       *)
(* request, and only looked for when the remembered one shows no cards).   *)
HeroFollowsTheCards == ~noMyTurn /\ early => userchair = table.hero

(* Two hand-resets are at least four seconds apart, whichever evidence     *)
(* comes in, once the connection itself is older than that: the detector   *)
(* asks the time engine, which is set back by the reset of the same        *)
(* evaluation, after the detector has been asked.                          *)
ResetsKeepDistance == isHandreset /\ elapsed > Throttle => gap >= Throttle

(* The data that is kept for the rounds of a hand is data of this hand     *)
(* from the second evaluation on, although the dealer chair is compared    *)
(* one evaluation late and the evidence of a new hand therefore comes in   *)
(* pieces; provided that dealer and both cards have changed, the hero has not, and *)
(* no evaluation fell into the seconds after the reset of the hand before. *)
HistoryIsOfThisHand ==
  distinct /\ ~muted /\ heartbeats = 2
    => \A r \in Betrounds : history[r] \in {0, hand}

(* The pieces of evidence of one new hand, spread over several             *)
(* evaluations, never make two resets, nor one of their own after one      *)
(* together with what was left over from the hand before: memory that is   *)
(* filled in a hand is not wiped again in its middle.  This needs dealer   *)
(* and cards to change and the hero to stay, and no other evidence.        *)
HandIsResetOnce == calm /\ distinct => resets <= 1
=============================================================================
