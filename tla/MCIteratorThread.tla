-------------------------- MODULE MCIteratorThread --------------------------
(* Two hands in our turn, one of them also before it, where a popup is in    *)
(* the way and a secondary formula is true.                                  *)
EXTENDS IteratorThread

CONSTANTS ace, king, nothing

MCViews == {"turnAce", "turnKing", "wait"}
MCMyTurnViews == {"turnAce", "turnKing"}
MCCardsIn == [v \in MCViews |-> IF v = "turnKing" THEN king ELSE ace]
MCButtonsIn == [v \in MCViews |-> IF v = "wait" THEN {} ELSE {"fold", "call"}]

Plain(v) == [view |-> v, popups |-> {}, chair |-> TRUE, secondary |-> "none"]

MCScreens == {Plain("turnAce"), Plain("turnKing"),
              [Plain("wait") EXCEPT !.popups = {0}, !.secondary = "works"]}
=============================================================================
