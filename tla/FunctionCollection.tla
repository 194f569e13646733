------------------------- MODULE FunctionCollection -------------------------
(***************************************************************************)
(* Evaluation of user-defined functions: CFunction::Evaluate with its      *)
(* cache, its guard against endless recursion and its record of the        *)
(* function under evaluation, and CFunctionCollection, which looks the     *)
(* functions up and clears all caches at once.                             *)
(*                                                                         *)
(* A parse tree is abstracted to what it reads (symbols of engines) and    *)
(* what it may call.  A call under a condition may be left out, so a       *)
(* function may return before it has made all its calls.  A result is      *)
(* abstracted to the age of the oldest symbol it was computed from.        *)
(***************************************************************************)
EXTENDS Integers, Sequences, FiniteSets

CONSTANTS
  Functions,      \* the functions of the bot
  Engines,        \* the symbol engines
  Calls,          \* the functions each function's parse tree mentions
  Reads,          \* the engines whose symbols it mentions
  DummyFunction,  \* dummy_function: none is under evaluation
  MaxDepth        \* kMaxRecursionDepth

ASSUME FunctionAssumption ==
  /\ Calls \in [Functions -> SUBSET Functions]
  /\ Reads \in [Functions -> SUBSET Engines]
  /\ DummyFunction \notin Functions
  /\ MaxDepth \in Nat \ {0}

VARIABLES
  stack,            \* the activations of CFunction::Evaluate, innermost first
  recursion_depth,  \* the global counter
  currently,        \* CFunction::_currently_evaluated_function
  previously,       \* each function's _previously_evaluated_function
  cached,           \* _is_result_cached
  resultAge,        \* age of the oldest symbol in _cached_result
  ran,              \* ghost: bodies finished since the caches were cleared, up to 2
  aborted,          \* ghost: evaluations refused as too deep
  age               \* passes since an engine's symbols were updated, up to 2

evalVars  == <<stack, recursion_depth, currently, previously, aborted>>
cacheVars == <<cached, resultAge, ran>>
fcVars    == <<evalVars, cacheVars>>

Ages == 0..2

Frames == [fn : Functions, left : SUBSET Functions, age : Ages]

FunctionTypeOK ==
  /\ stack \in Seq(Frames)
  /\ recursion_depth \in Nat
  /\ currently \in Functions \cup {DummyFunction}
  /\ previously \in [Functions -> Functions \cup {DummyFunction}]
  /\ cached \in [Functions -> BOOLEAN]
  /\ resultAge \in [Functions -> Ages]
  /\ ran \in [Functions -> 0..2]
  /\ aborted \in Nat
  /\ age \in [Engines -> Ages]

FunctionInit ==
  /\ stack = <<>>
  /\ recursion_depth = 0
  /\ currently = DummyFunction
  /\ previously = [f \in Functions |-> DummyFunction]
  /\ cached = [f \in Functions |-> FALSE]
  /\ resultAge = [f \in Functions |-> 0]
  /\ ran = [f \in Functions |-> 0]
  /\ aborted = 0

Evaluating == stack # <<>>
Older(m, n) == IF m < n THEN n ELSE m

(* The age of the oldest symbol f itself mentions, 0 when it mentions none.*)
AgeRead(f) ==
  CHOOSE n \in {0} \cup {age[e] : e \in Reads[f]} :
    \A e \in Reads[f] : age[e] <= n

(* The caller's activation after a call of g that answers a result of age n.*)
AfterCall(g, n) ==
  LET caller == stack[1] IN
    [stack EXCEPT ![1] =
       [fn |-> caller.fn, left |-> caller.left \ {g}, age |-> Older(caller.age, n)]]

(* Mutant: the early way out with a cached result forgets the counter.     *)
EnterCachedUncounted(f, callerStack) ==
  /\ recursion_depth < MaxDepth
  /\ cached[f]
  /\ recursion_depth' = recursion_depth + 1
  /\ previously' = [previously EXCEPT ![f] = currently]
  /\ stack' = callerStack
  /\ UNCHANGED <<currently, aborted, cacheVars>>

(* Evaluate(f) with room for it.  A cached result is answered at once: the *)
(* counter and the current function are back where they were on return.    *)
EnterCached(f, callerStack) ==
  /\ recursion_depth < MaxDepth
  /\ cached[f]
  /\ previously' = [previously EXCEPT ![f] = currently]
  /\ stack' = callerStack
  /\ UNCHANGED <<recursion_depth, currently, aborted, cacheVars>>

(* Mutant: the counter is only incremented for a refusal.                  *)
EnterBodyUncounted(f, callerStack) ==
  /\ recursion_depth < MaxDepth
  /\ ~cached[f]
  /\ previously' = [previously EXCEPT ![f] = currently]
  /\ currently' = f
  /\ stack' = <<[fn |-> f, left |-> Calls[f], age |-> AgeRead(f)]>> \o callerStack
  /\ UNCHANGED <<recursion_depth, aborted, cacheVars>>

EnterBody(f, callerStack) ==
  /\ recursion_depth < MaxDepth
  /\ ~cached[f]
  /\ recursion_depth' = recursion_depth + 1
  /\ previously' = [previously EXCEPT ![f] = currently]
  /\ currently' = f
  /\ stack' = <<[fn |-> f, left |-> Calls[f], age |-> AgeRead(f)]>> \o callerStack
  /\ UNCHANGED <<aborted, cacheVars>>

(* Evaluate(f) without room for it: zero is answered, and the counter is   *)
(* incremented a second time on the way out.  That the autoplayer is       *)
(* switched off as well (CFunction.cpp 94) is left out: the decision under *)
(* way is finished all the same, and the user can switch it on again.      *)
EnterTooDeep(f, callerStack) ==
  /\ recursion_depth >= MaxDepth
  /\ recursion_depth' = recursion_depth + 2
  /\ aborted' = aborted + 1
  /\ stack' = callerStack
  /\ UNCHANGED <<currently, previously, cacheVars>>

Enter(f, callerStack) ==
  \/ EnterCached(f, callerStack)
  \/ EnterBody(f, callerStack)
  \/ EnterTooDeep(f, callerStack)

(* CFunctionCollection::Evaluate from outside: an engine or the autoplayer.*)
Ask(f) == ~Evaluating /\ Enter(f, <<>>)

(* The innermost parse tree comes to a call.                               *)
Call ==
  /\ Evaluating
  /\ \E g \in Head(stack).left :
       Enter(g, AfterCall(g, IF cached[g] /\ recursion_depth < MaxDepth
                               THEN resultAge[g] ELSE 0))
  /\ UNCHANGED age

(* The innermost body is done: its result is cached, the function that was *)
(* saved when f was entered last is current again, and the caller goes on. *)
Return ==
  /\ Evaluating
  /\ LET top == Head(stack)  f == top.fn  callers == Tail(stack) IN
       /\ cached' = [cached EXCEPT ![f] = TRUE]
       /\ resultAge' = [resultAge EXCEPT ![f] = top.age]
       /\ ran' = [ran EXCEPT ![f] = IF @ < 2 THEN @ + 1 ELSE @]
       /\ currently' = previously[f]
       /\ stack' = IF callers = <<>> THEN <<>>
                   ELSE [callers EXCEPT ![1] =
                           [fn |-> callers[1].fn, left |-> callers[1].left,
                            age |-> Older(callers[1].age, top.age)]]
  /\ recursion_depth' = recursion_depth - 1
  /\ UNCHANGED <<previously, aborted, age>>

(* CFunctionCollection::ClearCache.                                        *)
ClearCache ==
  /\ cached' = [f \in Functions |-> FALSE]
  /\ ran' = [f \in Functions |-> 0]
  /\ resultAge' = [f \in Functions |-> 0]
=============================================================================
