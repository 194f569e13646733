---------------------------- MODULE MCTableLimits ----------------------------
(* Values for the constants of TableLimits. *)
EXTENDS TableLimits, TLC

Level(s, b, bet) == [sblind |-> s, bblind |-> b, bbet |-> bet]

MCLevels == <<Level(1, 2, 4), Level(500, 1000, 2000), Level(100000, 300000, 600000)>>
MCAmounts == {0, 500000}

\* Nothing, a level of the list, and a big blind beyond it.
MCTitles == {NoLimits, [NoLimits EXCEPT !.bblind = 700000]}

Bets(f, s, adjacent) ==
    [first |-> f, second |-> s, adjacent |-> adjacent, headsup |-> FALSE, antes |-> FALSE]

\* Blinds of the list; a small blind that calls at a table of 3.50/7.00.
MCPictures == {Bets(500, 1000, TRUE), Bets(700, 700, TRUE)}

\* Which chair is which does not matter: the dealer is only compared.
Symmetry == Permutations(Chairs)

MCEvidence == {{"title"}, {}, {"chips"}}
=============================================================================
