--------------------------- MODULE EngineContainer ---------------------------
(***************************************************************************)
(* CEngineContainer: one pass over all symbol engines per heartbeat, in the*)
(* order they were added (UpdateOnConnection and EvaluateAll), and the     *)
(* decision computed after it (CAutoplayerFunctions).                      *)
(*                                                                         *)
(* CFunctionCollection is itself an engine, the second one: its update     *)
(* clears all cached results.  Some engines after it evaluate functions    *)
(* while the pass is still under way ("roots"): CSymbolEngineAutoplayer    *)
(* asks for f$delay, CSymbolEnginePrwin for f$prwin_number_of_opponents,   *)
(* CSymbolEngineIniFunctions for the f$ini functions, CSymbolEngineOpenPPL *)
(* for the functions that update memory symbols.  What they evaluate stays *)
(* cached until the next pass.                                             *)
(***************************************************************************)
EXTENDS FunctionCollection

CONSTANTS
  NumEngines,     \* the engines are 1..NumEngines, in their order
  Collection,     \* the place of CFunctionCollection
  Roots,          \* functions an engine evaluates: [engine -> [hook -> sequence]]
  Decision,       \* the functions a decision asks for, in order
  AfterAction,    \* UpdateMemorySymbolsAfterAutoplayerAction
  MaxAborts       \* bound: evaluations refused as too deep, before a pass starts

Events == {"handreset", "newround", "myturn"}
Hooks == Events \cup {"connection", "heartbeat"}

ASSUME ContainerAssumption ==
  /\ NumEngines \in Nat \ {0}
  /\ Engines = 1..NumEngines
  /\ Collection \in Engines
  /\ Roots \in [Engines -> [Hooks -> Seq(Functions)]]
  /\ Decision \in Seq(Functions)
  /\ AfterAction \in Functions
  /\ MaxAborts \in Nat

(* Nothing is evaluated in a pass before the caches are cleared.           *)
ASSUME RootsAfterCollection ==
  \A e \in Engines : e <= Collection => \A h \in Hooks : Roots[e][h] = <<>>

VARIABLES
  phase,      \* what the thread that drives the engine is doing
  pos,        \* the engine whose turn it is in a pass
  todo,       \* functions still to be evaluated for it
  events,     \* is_handreset, is_new_betround, is_my_turn of this pass
  connected   \* _reset_on_connection_executed

passVars == <<phase, pos, todo, events, connected>>
vars == <<fcVars, age, passVars>>

Phases == {"idle", "connection", "heartbeat", "decision", "decided", "acted"}

TypeOK ==
  /\ FunctionTypeOK
  /\ phase \in Phases
  /\ pos \in 1..(NumEngines + 1)
  /\ todo \in Seq(Functions)
  /\ events \subseteq Events
  /\ connected \in BOOLEAN

Init ==
  /\ FunctionInit
  /\ age = [e \in Engines |-> 2]
  /\ phase = "idle"
  /\ pos = NumEngines + 1
  /\ todo = <<>>
  /\ events = {}
  /\ connected = FALSE

InPass == phase \in {"connection", "heartbeat"}
Rest   == phase \in {"idle", "decided", "acted"} /\ todo = <<>> /\ ~Evaluating

OnePassOlder(a) == IF a < 2 THEN a + 1 ELSE 2

(* A new pass: what was updated or computed before is one pass older.      *)
NewPass(kind) ==
  /\ Rest /\ aborted < MaxAborts
  /\ phase' = kind /\ pos' = 1
  /\ age' = [e \in Engines |-> OnePassOlder(age[e])]
  /\ resultAge' = [f \in Functions |-> OnePassOlder(resultAge[f])]
  /\ UNCHANGED <<evalVars, cached, ran, todo, connected>>

(* UpdateOnConnection starts: by the boot of the service, or the connector.*)
Connect ==
  /\ ~connected
  /\ NewPass("connection")
  /\ events' = {}

Disconnect ==
  /\ Rest /\ connected
  /\ connected' = FALSE
  /\ UNCHANGED <<fcVars, age, phase, pos, todo, events>>

(* EvaluateAll past its early returns.                                     *)
StartHeartbeat ==
  /\ connected
  /\ NewPass("heartbeat")
  /\ events' \in SUBSET Events

(* The functions engine e evaluates in its updates of this pass, in order. *)
RootsNow(e) ==
  LET On(h) == IF h \in events THEN Roots[e][h] ELSE <<>> IN
  IF phase = "connection"
    THEN Roots[e]["connection"]
    ELSE On("handreset") \o On("newround") \o On("myturn") \o Roots[e]["heartbeat"]

(* Mutant: caches are only cleared when the engine connects.               *)
UpdateEngineClearsOnConnection ==
  /\ InPass /\ ~Evaluating /\ todo = <<>> /\ pos <= NumEngines
  /\ age' = [age EXCEPT ![pos] = 0]
  /\ IF pos = Collection /\ phase = "connection" THEN ClearCache ELSE UNCHANGED cacheVars
  /\ todo' = RootsNow(pos)
  /\ pos' = pos + 1
  /\ UNCHANGED <<evalVars, phase, events, connected>>

(* Mutant: engines are only updated when a new hand or a connection starts.*)
UpdateEngineOnNewHand ==
  /\ InPass /\ ~Evaluating /\ todo = <<>> /\ pos <= NumEngines
  /\ age' = IF "handreset" \in events \/ phase = "connection" THEN [age EXCEPT ![pos] = 0] ELSE age
  /\ IF pos = Collection THEN ClearCache ELSE UNCHANGED cacheVars
  /\ todo' = RootsNow(pos)
  /\ pos' = pos + 1
  /\ UNCHANGED <<evalVars, phase, events, connected>>

(* All updates of the engine whose turn it is; then its roots are due.     *)
UpdateEngine ==
  /\ InPass /\ ~Evaluating /\ todo = <<>> /\ pos <= NumEngines
  /\ age' = [age EXCEPT ![pos] = 0]
  /\ IF pos = Collection THEN ClearCache ELSE UNCHANGED cacheVars
  /\ todo' = RootsNow(pos)
  /\ pos' = pos + 1
  /\ UNCHANGED <<evalVars, phase, events, connected>>

(* Mutant: the collection is also in the second list, so its update comes  *)
(* again after that of all other engines.                                  *)
PassDoneClearsAgain ==
  /\ InPass /\ ~Evaluating /\ todo = <<>> /\ pos = NumEngines + 1
  /\ connected' = TRUE
  /\ ClearCache
  /\ IF phase = "heartbeat"
       THEN phase' = "decision" /\ todo' = Decision
       ELSE phase' = "idle" /\ todo' = <<>>
  /\ UNCHANGED <<evalVars, age, pos, events>>

PassDone ==
  /\ InPass /\ ~Evaluating /\ todo = <<>> /\ pos = NumEngines + 1
  /\ connected' = TRUE
  /\ IF phase = "heartbeat"
       THEN phase' = "decision" /\ todo' = Decision
       ELSE phase' = "idle" /\ todo' = <<>>
  /\ UNCHANGED <<fcVars, age, pos, events>>

(* Mutant: an engine's loop over functions begins anew after each of them. *)
EvaluateRestarts ==
  /\ todo # <<>>
  /\ Ask(Head(todo))
  /\ UNCHANGED <<age, phase, pos, todo, events, connected>>

(* The next function an engine or the decision asks for.                   *)
Evaluate ==
  /\ todo # <<>>
  /\ Ask(Head(todo))
  /\ todo' = Tail(todo)
  /\ UNCHANGED <<age, phase, pos, events, connected>>

EvaluateStep == (Call \/ Return) /\ UNCHANGED passVars

Decided ==
  /\ phase = "decision" /\ ~Evaluating /\ todo = <<>>
  /\ phase' = "decided"
  /\ UNCHANGED <<fcVars, age, pos, todo, events, connected>>

(* UpdateAfterAutoplayerAction: the autoplayer has clicked a button.       *)
Acts ==
  /\ phase = "decided" /\ Rest
  /\ phase' = "acted" /\ todo' = <<AfterAction>>
  /\ UNCHANGED <<fcVars, age, pos, events, connected>>

Work == UpdateEngine \/ PassDone \/ Evaluate \/ EvaluateStep \/ Decided
Next == Connect \/ Disconnect \/ StartHeartbeat \/ Acts \/ Work

Spec == Init /\ [][Next]_vars /\ WF_vars(Work)
-----------------------------------------------------------------------------
(* The functions f is computed from, itself included.                      *)
ClosedSets == {S \in SUBSET Functions : \A f \in S : Calls[f] \subseteq S}
UsesOf == [f \in Functions |->
             {g \in Functions : \A S \in ClosedSets : f \in S => g \in S}]
Uses(f) == UsesOf[f]

(* Engine e evaluates f, or a function that uses f, during the pass.       *)
EvaluatedBy(e) ==
  UNION {UNION {Uses(Roots[e][h][i]) : i \in 1..Len(Roots[e][h])} :
           h \in Events \cup {"heartbeat"}}

(* f uses a function that an engine evaluates before a symbol behind it is *)
(* updated.                                                                *)
BelowEarlyRoot(f) ==
  \E e \in Engines : \E g \in Uses(f) \cap EvaluatedBy(e) :
    \E late \in Reads[g] : late > e

(* A decision is computed from symbols of this heartbeat.  The exception   *)
(* is a function that uses one which an engine evaluated during the pass   *)
(* while a symbol behind it was not updated yet: f$delay in                *)
(* CSymbolEngineAutoplayer (155), long before prwin or history.            *)
StaleOnlyBelowEarlyRoots ==
  phase \in {"decision", "decided"} =>
    \A f \in Functions : cached[f] /\ resultAge[f] > 0 => BelowEarlyRoot(f)

(* Whatever a decision finds cached is at most one pass old, also the      *)
(* functions evaluated early in the pass and those whose values were left  *)
(* from earlier heartbeats: CFunctionCollection is updated before any      *)
(* engine evaluates a function.                                            *)
NeverOlderThanLastPass ==
  phase \in {"decision", "decided", "acted"} =>
    \A f \in Functions : cached[f] => resultAge[f] <= 1

(* Calls below what engines evaluate in a heartbeat nest no deeper than    *)
(* there is room for, however many evaluations were refused before: rank   *)
(* counts how deep.                                                        *)
RootsNestWithin(rank) ==
  \A e \in Engines : \A f \in EvaluatedBy(e) :
    /\ rank[f] + 2 * MaxAborts <= MaxDepth + 1
    /\ \A g \in Calls[f] : rank[g] < rank[f]

(* The functions with side effects that a new hand, a new round or the     *)
(* user's turn triggers (the memory symbols of the OpenPPL library, the    *)
(* f$ini functions) have run once when the decision is made: neither       *)
(* skipped because an old result was cached, nor run twice.                *)
EventFunctionsRanOnce ==
  phase \in {"decision", "decided"} =>
    \A e \in Engines : \A h \in events : \A i \in 1..Len(Roots[e][h]) :
      ran[Roots[e][h][i]] = 1

(* No evaluation that an engine asks for in a heartbeat is answered with   *)
(* the zero of CFunction.cpp 96, although the counter that decides so is   *)
(* global and refusals in earlier decisions have moved it (95): every other*)
(* exit takes back what its entry added, the one with a cached result too. *)
NoRefusalInHeartbeat == [][phase = "heartbeat" => aborted' = aborted]_vars

(* Every pass and every evaluation comes to an end, endless recursion in   *)
(* the bot's functions included.                                           *)
PassEnds == InPass ~> Rest
=============================================================================
