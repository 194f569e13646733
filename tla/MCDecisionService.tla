------------------------- MODULE MCDecisionService -------------------------
(* Instance of DecisionService for TLC: the faces of the cards are         *)
(* interchangeable.                                                        *)
EXTENDS DecisionService, TLC

Symmetry == Permutations(Card)
=============================================================================
