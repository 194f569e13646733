---------------------------- MODULE MCAutoplayer ----------------------------
(* Instances of the autoplayer: two views of our turn and one of another's,  *)
(* popups, a secondary formula that is always true, and two of three popup  *)
(* buttons that stay clickable.                                             *)
EXTENDS Autoplayer

CONSTANTS turnA, turnB, other

MCViews == {turnA, turnB, other}
MCMyTurnViews == {turnA, turnB}

Plain(v) == [view |-> v, popups |-> {}, chair |-> TRUE, secondary |-> "none"]

MCScreens == {Plain(turnA), Plain(turnB), Plain(other),
              [Plain(turnA) EXCEPT !.secondary = "works"],
              [Plain(turnB) EXCEPT !.secondary = "blocked"],
              [Plain(turnA) EXCEPT !.popups = {0, 2}],
              [Plain(other) EXCEPT !.popups = {1}, !.chair = FALSE]}
=============================================================================
