-------------------------- MODULE MCEngineContainer --------------------------
(* Instances of the engine container: six engines stand for the fifty, in   *)
(* the order of CreateSymbolEngines:                                        *)
(*   1 multiplexer and all before the collection   2 function collection    *)
(*   3 autoplayer (f$delay)  4 prwin and the late symbols  5 ini functions  *)
(*   6 OpenPPL library                                                      *)
EXTENDS EngineContainer

CONSTANTS delay, raise, loop, hand, odds, ini, turn, memory, round, after, none

MCFunctions == {delay, raise, loop, hand, odds, ini, turn, memory, round, after}
MCReads == [f \in MCFunctions |->
  CASE f = delay -> {3} [] f = hand -> {1} [] f = odds -> {4} [] f \in {raise, loop} -> {3}
    [] f = ini -> {3} [] f \in {memory, round} -> {6} [] f = turn -> {1, 3} [] f = after -> {4}]

(* f$delay shares helpers with f$raise.  The bot has an endless recursion,  *)
(* which the decision runs into.                                            *)
MCCalls == [f \in MCFunctions |->
  CASE f = delay -> {hand, odds} [] f = raise -> {hand, odds} [] f \in {ini, turn} -> {hand}
    [] f = after -> {odds} [] f = loop -> {loop, hand} [] OTHER -> {}]

MCRoots == [e \in 1..6 |-> [h \in Hooks |->
  CASE e = 3 /\ h = "heartbeat" -> <<delay>>
    [] e = 5 /\ h \in {"connection", "heartbeat"} -> <<ini>>
    [] e = 5 /\ h = "myturn" -> <<turn>>
    [] e = 6 /\ h = "newround" -> <<round>>
    [] e = 6 /\ h \in {"connection", "handreset"} -> <<memory>>
    [] OTHER -> <<>>]]
MCDecision == <<raise, loop>>

(* No root recurses; only the decision does.                                *)
MCRank == [f \in MCFunctions |-> IF MCCalls[f] = {} THEN 0 ELSE 1]
ASSUME RootsDoNotRecurse == RootsNestWithin(MCRank)
=============================================================================
