------------------------- MODULE HandresetDetector -------------------------
(***************************************************************************)
(* CHandresetDetector decides once per evaluation whether a new hand has   *)
(* begun.  It knows several methods of telling; each of them may fire on   *)
(* a different heartbeat, so a hand-reset is declared when two different   *)
(* methods have fired in a window of three heartbeats.                     *)
(*                                                                         *)
(* Three methods are modelled by what they compare: the dealer chair, the  *)
(* user's cards and the community cards.  The others (pot, number of       *)
(* opponents, balances, blinds, hand number, antes ...) compare figures    *)
(* which the model does not hold; they may fire or not at any heartbeat.   *)
(***************************************************************************)
EXTENDS Integers, FiniteSets

CONSTANTS
  OtherMethods,     \* the methods that are not modelled by their data
  CardUndefined,    \* CARD_UNDEFINED and CARD_NOCARD: there is no such card
  CardBack,         \* CARD_BACK: a card nobody can see
  Card              \* the values of known cards

VARIABLES
  last,             \* values of the last heartbeat: dealerchair, cards, board
  window,           \* _methods_firing_the_last_three_heartbeats, [1] the newest
  isHandreset,      \* _is_handreset_on_this_heartbeat
  handsPlayed       \* _hands_played, up to MaxHandsPlayed

detectorVars == <<last, window, isHandreset, handsPlayed>>

Undefined == -1                             \* kUndefined
Throttle == 4                               \* kMinimumtimeBetweenTwoHeartbeats
MaxHandsPlayed == 1                         \* bound: none, or at least one
Method == {"dealerchair", "usercards", "communitycards"} \cup OtherMethods
Cards == (Card \cup {CardUndefined, CardBack}) \X (Card \cup {CardUndefined, CardBack})
NoCards == <<CardUndefined, CardUndefined>>
NothingSeen == <<{}, {}, {}>>

IsHandresetByDealerChair(dealerchair) ==
  /\ dealerchair # last.dealerchair
  /\ dealerchair # Undefined
  /\ last.dealerchair # Undefined

\* Both cards have to differ.
IsHandresetByUserCards(cards) ==
  /\ \A i \in {1, 2} : cards[i] \in Card
  /\ \A i \in {1, 2} : cards[i] # last.cards[i]

IsHandresetByCommunityCards(board) == board = 0 /\ board < last.board

BitVectorFiringHandresetMethods(dealerchair, cards, board, other) ==
  {m \in Method :
     \/ m = "dealerchair"    /\ IsHandresetByDealerChair(dealerchair)
     \/ m = "usercards"      /\ IsHandresetByUserCards(cards)
     \/ m = "communitycards" /\ IsHandresetByCommunityCards(board)
     \/ m \in other}

\* A mutant: the two times confused.
TooShortlyAfterLastHandresetSwapped(elapsedhand, elapsed) ==
  elapsedhand > Throttle /\ elapsed < Throttle

\* There was a hand-reset a moment ago, and it was not the connection itself.
TooShortlyAfterLastHandreset(elapsedhand, elapsed) ==
  elapsedhand < Throttle /\ elapsed > Throttle

InitDetector ==
  /\ last = [dealerchair |-> Undefined, cards |-> NoCards, board |-> Undefined]
  /\ window = NothingSeen
  /\ isHandreset = FALSE
  /\ handsPlayed = 0

\* A mutant: the evidence that has led to a reset is not discarded.
OnNewHeartbeatRemembers(dealerchair, cards, board, other, elapsedhand, elapsed, confirmed) ==
  LET fired == BitVectorFiringHandresetMethods(dealerchair, cards, board, other)
      quiet == TooShortlyAfterLastHandreset(elapsedhand, elapsed)
      found == ~quiet /\ Cardinality(fired \cup window[1] \cup window[2]) >= 2
  IN /\ isHandreset' = found
     /\ window' = IF quiet THEN NothingSeen ELSE <<fired, window[1], window[2]>>
     /\ handsPlayed' = IF found /\ confirmed /\ handsPlayed < MaxHandsPlayed
                       THEN handsPlayed + 1 ELSE handsPlayed
     /\ last' = [dealerchair |-> dealerchair, cards |-> cards, board |-> board]

(* One heartbeat.  Only a reset that is found counts a hand, and only once *)
(* the user's chair is known.  Evidence is discarded when it has led to a  *)
(* reset and as long as the last reset is too recent.                      *)
OnNewHeartbeat(dealerchair, cards, board, other, elapsedhand, elapsed, confirmed) ==
  LET fired == BitVectorFiringHandresetMethods(dealerchair, cards, board, other)
      quiet == TooShortlyAfterLastHandreset(elapsedhand, elapsed)
      found == ~quiet /\ Cardinality(fired \cup window[1] \cup window[2]) >= 2
  IN /\ isHandreset' = found
     /\ window' = IF quiet \/ found THEN NothingSeen
                  ELSE <<fired, window[1], window[2]>>
     /\ handsPlayed' = IF found /\ confirmed /\ handsPlayed < MaxHandsPlayed
                       THEN handsPlayed + 1 ELSE handsPlayed
     /\ last' = [dealerchair |-> dealerchair, cards |-> cards, board |-> board]
=============================================================================
