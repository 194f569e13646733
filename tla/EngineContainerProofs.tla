------------------------ MODULE EngineContainerProofs ------------------------
(* What holds of the engine container for every bot, every number and order *)
(* of engines, and every recursion limit.                                   *)
EXTENDS EngineContainer, SequenceTheorems, FiniteSetTheorems, TLAPS

(* Activations and results computed from symbols at most n passes old.      *)
FramesUpTo(n)  == [fn : Functions, left : SUBSET Functions, age : 0..n]
ResultsUpTo(n) == \A f \in Functions : cached[f] => resultAge[f] \in 0..n
AgesUpTo(n)    == \A e \in Engines : age[e] \in 0..n
UpTo(n) == /\ stack \in Seq(FramesUpTo(n))
           /\ ResultsUpTo(n)
           /\ AgesUpTo(n)

(* A function sees no symbol older than the oldest there is.                *)
LEMMA AgeReadBound ==
  ASSUME NEW n \in {1, 2}, AgesUpTo(n), NEW f \in Functions
  PROVE  /\ AgeRead(f) \in 0..n
         /\ AgeRead(f) > 0 => \E e \in Reads[f] : age[e] = AgeRead(f)
<1> DEFINE S == {0} \cup {age[e] : e \in Reads[f]}
<1>1. \A e \in Reads[f] : age[e] \in 0..n
  BY FunctionAssumption DEF AgesUpTo
<1>2. \E m \in S : \A e \in Reads[f] : age[e] <= m
  <2>1. CASE \E e \in Reads[f] : age[e] = 2
    <3> PICK e \in Reads[f] : age[e] = 2
      BY <2>1
    <3> 2 \in S /\ \A d \in Reads[f] : age[d] <= 2
      BY <1>1
    <3> QED OBVIOUS
  <2>2. CASE (\E e \in Reads[f] : age[e] = 1) /\ \A e \in Reads[f] : age[e] # 2
    <3> PICK e \in Reads[f] : age[e] = 1
      BY <2>2
    <3> 1 \in S /\ \A d \in Reads[f] : age[d] <= 1
      BY <1>1, <2>2
    <3> QED OBVIOUS
  <2>3. CASE \A e \in Reads[f] : age[e] = 0
    <3> 0 \in S /\ \A d \in Reads[f] : age[d] <= 0
      BY <2>3
    <3> QED OBVIOUS
  <2>4. \A e \in Reads[f] : age[e] = 0 \/ age[e] = 1 \/ age[e] = 2
    BY <1>1
  <2> QED BY <2>1, <2>2, <2>3, <2>4
<1>3. S \subseteq 0..n
  BY <1>1
<1>4. AgeRead(f) \in S
  BY <1>2 DEF AgeRead
<1> QED BY <1>3, <1>4

(* The caller's activation stays an activation, and the only one changed.   *)
LEMMA AfterCallType ==
  ASSUME NEW n \in {1, 2}, stack \in Seq(FramesUpTo(n)), Evaluating,
         NEW g, NEW m \in 0..n
  PROVE  /\ AfterCall(g, m) \in Seq(FramesUpTo(n))
         /\ Len(AfterCall(g, m)) = Len(stack)
<1> DEFINE top == [fn |-> stack[1].fn, left |-> stack[1].left \ {g},
                    age |-> Older(stack[1].age, m)]
<1>1. 1 \in 1..Len(stack) /\ stack[1] \in FramesUpTo(n)
  BY DEF Evaluating
<1>2. top \in FramesUpTo(n)
  BY <1>1 DEF FramesUpTo, Older
<1>3. AfterCall(g, m) = [stack EXCEPT ![1] = top]
  BY DEF AfterCall
<1> QED BY <1>1, <1>2, <1>3, ExceptSeq

(* What entering a function does to the stack and to the counter.           *)
LEMMA EnterStep ==
  ASSUME NEW n \in {1, 2}, AgesUpTo(n), NEW f \in Functions,
         recursion_depth \in Nat, aborted \in Nat,
         NEW callers \in Seq(FramesUpTo(n)), Enter(f, callers)
  PROVE  /\ stack' \in Seq(FramesUpTo(n))
         /\ recursion_depth' \in Nat /\ aborted' \in Nat
         /\ recursion_depth' - Len(stack') - 2 * aborted'
              = recursion_depth - Len(callers) - 2 * aborted
         /\ UNCHANGED <<cached, resultAge, ran>>
<1>0. Len(callers) \in Nat
  OBVIOUS
<1>1. CASE EnterCached(f, callers)
  BY <1>0, <1>1 DEF EnterCached, cacheVars
<1>2. CASE EnterTooDeep(f, callers)
  BY <1>0, <1>2 DEF EnterTooDeep, cacheVars
<1>3. CASE EnterBody(f, callers)
  <2> DEFINE new == [fn |-> f, left |-> Calls[f], age |-> AgeRead(f)]
  <2>1. new \in FramesUpTo(n)
    BY AgeReadBound, FunctionAssumption DEF FramesUpTo
  <2>2. <<new>> \in Seq(FramesUpTo(n)) /\ Len(<<new>>) = 1
    BY <2>1
  <2>3. stack' = <<new>> \o callers
    BY <1>3 DEF EnterBody
  <2>4. stack' \in Seq(FramesUpTo(n)) /\ Len(stack') = 1 + Len(callers)
    BY <2>2, <2>3, ConcatProperties
  <2> QED BY <1>0, <1>3, <2>4 DEF EnterBody, cacheVars
<1> QED BY <1>1, <1>2, <1>3 DEF Enter

(* What the recursion counter counts: the nesting, and twice every refusal. *)
DepthCountsRefusals == recursion_depth = Len(stack) + 2 * aborted

EvalInv == TypeOK /\ DepthCountsRefusals

(* One evaluation step keeps what the stack and the caches are made of.     *)
LEMMA EvaluationStep ==
  ASSUME NEW n \in {1, 2}, EvalInv, UpTo(n), Evaluate \/ EvaluateStep
  PROVE  /\ UpTo(n)'
         /\ recursion_depth' \in Nat /\ aborted' \in Nat
         /\ DepthCountsRefusals'
<1> USE DEF EvalInv, TypeOK, FunctionTypeOK
<1>0. /\ AgesUpTo(n) /\ stack \in Seq(FramesUpTo(n)) /\ ResultsUpTo(n)
      /\ Len(stack) \in Nat
  BY DEF UpTo
<1>1. CASE Evaluate
  <2>1. Enter(Head(todo), <<>>) /\ stack = <<>> /\ Head(todo) \in Functions
    BY <1>1 DEF Evaluate, Ask, Evaluating
  <2>2. <<>> \in Seq(FramesUpTo(n)) /\ Len(<<>>) = 0
    OBVIOUS
  <2>3. /\ stack' \in Seq(FramesUpTo(n))
        /\ recursion_depth' \in Nat /\ aborted' \in Nat
        /\ recursion_depth' - Len(stack') - 2 * aborted'
             = recursion_depth - 0 - 2 * aborted
        /\ UNCHANGED <<cached, resultAge, ran>>
    BY <1>0, <2>1, <2>2, EnterStep
  <2>4. UNCHANGED age
    BY <1>1 DEF Evaluate
  <2>5. Len(stack') \in Nat
    BY <2>3
  <2> QED BY <1>0, <2>1, <2>2, <2>3, <2>4, <2>5
          DEF UpTo, ResultsUpTo, AgesUpTo, DepthCountsRefusals
<1>2. CASE EvaluateStep /\ Call
  <2>1. PICK g \in Head(stack).left :
          Enter(g, AfterCall(g, IF cached[g] /\ recursion_depth < MaxDepth
                                  THEN resultAge[g] ELSE 0))
    BY <1>2 DEF Call
  <2>2. Evaluating /\ UNCHANGED age
    BY <1>2 DEF Call
  <2>3. g \in Functions
    <3>1. Head(stack) \in Frames
      BY <2>2, HeadTailProperties DEF Evaluating
    <3> QED BY <3>1 DEF Frames
  <2> DEFINE m == IF cached[g] /\ recursion_depth < MaxDepth THEN resultAge[g] ELSE 0
  <2>4. m \in 0..n
    BY <1>0, <2>3 DEF ResultsUpTo
  <2>5. /\ AfterCall(g, m) \in Seq(FramesUpTo(n))
        /\ Len(AfterCall(g, m)) = Len(stack)
    BY <1>0, <2>2, <2>4, AfterCallType
  <2> DEFINE callers == AfterCall(g, m)
  <2>6. /\ stack' \in Seq(FramesUpTo(n))
        /\ recursion_depth' \in Nat /\ aborted' \in Nat
        /\ recursion_depth' - Len(stack') - 2 * aborted'
             = recursion_depth - Len(stack) - 2 * aborted
        /\ UNCHANGED <<cached, resultAge, ran>>
    <3>1. Enter(g, callers)
      BY <2>1
    <3>2. callers \in Seq(FramesUpTo(n)) /\ Len(callers) = Len(stack)
      BY <2>5
    <3> HIDE DEF callers
    <3>3. recursion_depth \in Nat /\ aborted \in Nat
      OBVIOUS
    <3> HIDE DEF EvalInv, TypeOK, FunctionTypeOK
    <3>4. /\ stack' \in Seq(FramesUpTo(n))
          /\ recursion_depth' \in Nat /\ aborted' \in Nat
          /\ recursion_depth' - Len(stack') - 2 * aborted'
               = recursion_depth - Len(callers) - 2 * aborted
          /\ UNCHANGED <<cached, resultAge, ran>>
      BY <1>0, <2>3, <3>1, <3>2, <3>3, EnterStep
    <3> QED BY <3>2, <3>4
  <2>7. Len(stack') \in Nat
    BY <2>6
  <2>8. UpTo(n)'
    BY <1>0, <2>2, <2>6 DEF UpTo, ResultsUpTo, AgesUpTo
  <2>9. DepthCountsRefusals'
    BY <1>0, <2>6, <2>7 DEF DepthCountsRefusals
  <2> QED BY <2>6, <2>8, <2>9
<1>3. CASE EvaluateStep /\ Return
  <2> DEFINE top == Head(stack)  callers == Tail(stack)
  <2>1. Evaluating /\ UNCHANGED <<aborted, age>> /\ recursion_depth' = recursion_depth - 1
    BY <1>3 DEF Return
  <2>2. /\ top \in FramesUpTo(n) /\ callers \in Seq(FramesUpTo(n))
        /\ Len(callers) = Len(stack) - 1
    BY <1>0, <2>1, HeadTailProperties DEF Evaluating
  <2>3. stack' \in Seq(FramesUpTo(n)) /\ Len(stack') = Len(stack) - 1
    <3>1. CASE callers = <<>>
      BY <1>3, <2>2, <3>1 DEF Return
    <3>2. CASE callers # <<>>
      <4> DEFINE new == [fn |-> callers[1].fn, left |-> callers[1].left,
                         age |-> Older(callers[1].age, top.age)]
      <4>1. 1 \in 1..Len(callers) /\ callers[1] \in FramesUpTo(n)
        BY <2>2, <3>2
      <4>2. new \in FramesUpTo(n)
        BY <2>2, <4>1 DEF FramesUpTo, Older
      <4>3. stack' = [callers EXCEPT ![1] = new]
        BY <1>3, <3>2 DEF Return
      <4> QED BY <2>2, <4>1, <4>2, <4>3, ExceptSeq
    <3> QED BY <3>1, <3>2
  <2>4. ResultsUpTo(n)'
    BY <1>0, <1>3, <2>2 DEF Return, ResultsUpTo, FramesUpTo
  <2>5. recursion_depth \in Nat \ {0}
    BY <1>0, <2>1, <2>2 DEF DepthCountsRefusals
  <2> QED BY <1>0, <2>1, <2>3, <2>4, <2>5 DEF UpTo, AgesUpTo, DepthCountsRefusals
<1> QED BY <1>1, <1>2, <1>3 DEF EvaluateStep

(* The other actions keep the shape of the evaluation too.                  *)
LEMMA RootsAreFunctions ==
  ASSUME NEW e \in Engines
  PROVE  RootsNow(e) \in Seq(Functions)
<1>1. \A h \in Hooks : Roots[e][h] \in Seq(Functions)
  BY ContainerAssumption
<1> DEFINE On(h) == IF h \in events THEN Roots[e][h] ELSE <<>>
<1>2. \A h \in Hooks : On(h) \in Seq(Functions)
  BY <1>1
<1>3. {"handreset", "newround", "myturn", "heartbeat", "connection"} \subseteq Hooks
  BY DEF Hooks, Events
<1>4. On("handreset") \o On("newround") \in Seq(Functions)
  BY <1>2, <1>3, ConcatProperties
<1>5. (On("handreset") \o On("newround")) \o On("myturn") \in Seq(Functions)
  BY <1>2, <1>3, <1>4, ConcatProperties
<1>6. ((On("handreset") \o On("newround")) \o On("myturn"))
        \o Roots[e]["heartbeat"] \in Seq(Functions)
  BY <1>1, <1>3, <1>5, ConcatProperties
<1> QED BY <1>1, <1>3, <1>6 DEF RootsNow

Control == Connect \/ Disconnect \/ StartHeartbeat \/ UpdateEngine \/ PassDone
             \/ Decided \/ Acts

LEMMA NextSplit == Next <=> Control \/ Evaluate \/ EvaluateStep
BY DEF Next, Work, Control

LEMMA ControlKeepsEvaluation ==
  Control => UNCHANGED evalVars
BY DEF Control, Connect, Disconnect, StartHeartbeat, NewPass, UpdateEngine, PassDone,
       Decided, Acts, fcVars

LEMMA ZeroIsAnAge == 0 \in Ages /\ 0 \in 0..2
BY DEF Ages

LEMMA AgesStay ==
  ASSUME NEW a \in [Engines -> Ages], NEW e
  PROVE  [a EXCEPT ![e] = 0] \in [Engines -> Ages]
BY ZeroIsAnAge

LEMMA AllZero ==
  /\ [f \in Functions |-> FALSE] \in [Functions -> BOOLEAN]
  /\ [f \in Functions |-> 0] \in [Functions -> Ages]
  /\ [f \in Functions |-> 0] \in [Functions -> 0..2]
  /\ [f \in Functions |-> DummyFunction]
       \in [Functions -> Functions \cup {DummyFunction}]
BY ZeroIsAnAge

LEMMA FramesAreUpToTwo == Frames = FramesUpTo(2) /\ Ages = 0..2
BY DEF Frames, FramesUpTo, Ages

LEMMA TypedIsUpToTwo == TypeOK => UpTo(2)
BY FramesAreUpToTwo DEF TypeOK, FunctionTypeOK, UpTo, ResultsUpTo, AgesUpTo

(* Entering leaves the records of the functions what they are.              *)
LEMMA EnterType ==
  ASSUME TypeOK, NEW f \in Functions, NEW callers, Enter(f, callers)
  PROVE  /\ currently' \in Functions \cup {DummyFunction}
         /\ previously' \in [Functions -> Functions \cup {DummyFunction}]
         /\ UNCHANGED cacheVars
BY DEF TypeOK, FunctionTypeOK, Enter, EnterCached, EnterBody, EnterTooDeep

LEMMA EvalStepInv ==
  ASSUME EvalInv, Evaluate \/ EvaluateStep
  PROVE  EvalInv'
<1>1. /\ UpTo(2)' /\ recursion_depth' \in Nat /\ aborted' \in Nat
      /\ DepthCountsRefusals'
  BY EvaluationStep, TypedIsUpToTwo DEF EvalInv
<1>2. stack' \in Seq(Frames)
  BY <1>1, FramesAreUpToTwo DEF UpTo
<1> USE DEF EvalInv, TypeOK, FunctionTypeOK, cacheVars
<1>3. CASE Evaluate
  <2>1. Enter(Head(todo), <<>>) /\ Head(todo) \in Functions
    BY <1>3 DEF Evaluate, Ask
  <2>2. /\ currently' \in Functions \cup {DummyFunction}
        /\ previously' \in [Functions -> Functions \cup {DummyFunction}]
        /\ UNCHANGED cacheVars
    BY <2>1, EnterType
  <2>3. todo' \in Seq(Functions) /\ UNCHANGED <<age, phase, pos, events, connected>>
    BY <1>3 DEF Evaluate
  <2> QED BY <1>1, <1>2, <2>2, <2>3
<1>4. CASE EvaluateStep /\ Call
  <2>1. stack # <<>> /\ UNCHANGED <<age, passVars>>
    BY <1>4 DEF Call, Evaluating, EvaluateStep
  <2>2. PICK g \in Head(stack).left : \E callers : Enter(g, callers)
    BY <1>4 DEF Call
  <2>3. g \in Functions
    <3>1. Head(stack) \in Frames
      BY <2>1, HeadTailProperties
    <3> QED BY <2>2, <3>1 DEF Frames
  <2>4. /\ currently' \in Functions \cup {DummyFunction}
        /\ previously' \in [Functions -> Functions \cup {DummyFunction}]
        /\ UNCHANGED cacheVars
    BY <2>2, <2>3, EnterType
  <2> QED BY <1>1, <1>2, <2>1, <2>4 DEF passVars
<1>5. CASE EvaluateStep /\ Return
  <2>1. stack # <<>> /\ UNCHANGED <<previously, age, passVars>>
    BY <1>5 DEF Return, Evaluating, EvaluateStep
  <2>2. Head(stack) \in Frames
    BY <2>1, HeadTailProperties
  <2>3. /\ currently' \in Functions \cup {DummyFunction}
        /\ cached' \in [Functions -> BOOLEAN]
        /\ resultAge' \in [Functions -> Ages]
        /\ ran' \in [Functions -> 0..2]
    BY <1>5, <2>2 DEF Return, Frames
  <2> QED BY <1>1, <1>2, <2>1, <2>3 DEF passVars
<1> QED BY <1>3, <1>4, <1>5 DEF EvaluateStep

LEMMA ControlStepInv ==
  ASSUME EvalInv, Control
  PROVE  EvalInv'
<1> USE DEF EvalInv, TypeOK, FunctionTypeOK, evalVars, cacheVars, fcVars
<1>0. /\ NumEngines \in Nat \ {0} /\ Engines = 1..NumEngines
      /\ Decision \in Seq(Functions) /\ AfterAction \in Functions
  BY ContainerAssumption
<1>1. UNCHANGED evalVars
  BY ControlKeepsEvaluation
<1>2. DepthCountsRefusals'
  BY <1>1 DEF DepthCountsRefusals
<1>3. ASSUME NEW a \in Ages PROVE OnePassOlder(a) \in Ages
  BY DEF Ages, OnePassOlder
<1>4. ASSUME NEW kind \in {"connection", "heartbeat"}, NewPass(kind),
             events' \subseteq Events
      PROVE  TypeOK'
  BY <1>0, <1>1, <1>3, <1>4 DEF NewPass, Phases
<1>5. CASE Connect
  BY <1>2, <1>4, <1>5 DEF Connect
<1>6. CASE StartHeartbeat
  BY <1>2, <1>4, <1>6 DEF StartHeartbeat
<1>7. CASE Disconnect
  BY <1>1, <1>2, <1>7 DEF Disconnect
<1>8. CASE UpdateEngine
  <2>1. pos \in Engines /\ pos + 1 \in 1..(NumEngines + 1)
    BY <1>0, <1>8 DEF UpdateEngine
  <2>2. todo' \in Seq(Functions) /\ pos' \in 1..(NumEngines + 1)
    BY <1>8, <2>1, RootsAreFunctions DEF UpdateEngine
  <2>3. age' = [age EXCEPT ![pos] = 0] /\ UNCHANGED <<phase, events, connected>>
    BY <1>8 DEF UpdateEngine
  <2>5. age' \in [Engines -> Ages]
    <3>1. age \in [Engines -> Ages]
      OBVIOUS
    <3> QED BY <2>3, <3>1, AgesStay
  <2>4. /\ cached' \in [Functions -> BOOLEAN]
        /\ resultAge' \in [Functions -> Ages]
        /\ ran' \in [Functions -> 0..2]
    <3>1. CASE pos = Collection
      BY <1>8, <3>1, AllZero DEF UpdateEngine, ClearCache
    <3>2. CASE pos # Collection
      BY <1>8, <3>2 DEF UpdateEngine
    <3> QED BY <3>1, <3>2
  <2> QED BY <1>1, <1>2, <2>2, <2>3, <2>4, <2>5
<1>9. CASE PassDone
  BY <1>0, <1>1, <1>2, <1>9 DEF PassDone, Phases
<1>10. CASE Decided
  BY <1>1, <1>2, <1>10 DEF Decided, Phases
<1>11. CASE Acts
  <2>1. <<AfterAction>> \in Seq(Functions)
    BY <1>0
  <2> QED BY <1>1, <1>2, <1>11, <2>1 DEF Acts, Phases
<1> QED BY <1>2, <1>5, <1>6, <1>7, <1>8, <1>9, <1>10, <1>11 DEF Control

LEMMA EvalInit == Init => EvalInv
<1> SUFFICES ASSUME Init PROVE EvalInv
  OBVIOUS
<1>1. <<>> \in Seq(Frames) /\ Len(<<>>) = 0 /\ <<>> \in Seq(Functions)
  OBVIOUS
<1>2. NumEngines \in Nat \ {0}
  BY ContainerAssumption
<1>3. FunctionTypeOK
  <2>1. age \in [Engines -> Ages]
    BY DEF Init, Ages
  <2> QED BY <1>1, <2>1, AllZero DEF Init, FunctionInit, FunctionTypeOK
<1>4. /\ phase \in Phases /\ pos \in 1..(NumEngines + 1) /\ todo \in Seq(Functions)
      /\ events \subseteq Events /\ connected \in BOOLEAN
  <2>1. pos \in 1..(NumEngines + 1)
    BY <1>2 DEF Init
  <2>2. phase \in Phases /\ connected \in BOOLEAN /\ events \subseteq Events
    BY DEF Init, Phases
  <2>3. todo \in Seq(Functions)
    BY <1>1 DEF Init
  <2> QED BY <2>1, <2>2, <2>3
<1>5. DepthCountsRefusals
  BY <1>1 DEF Init, FunctionInit, DepthCountsRefusals
<1> QED BY <1>3, <1>4, <1>5 DEF EvalInv, TypeOK

LEMMA EvalStutter == EvalInv /\ UNCHANGED vars => EvalInv'
BY DEF vars, fcVars, evalVars, cacheVars, passVars, EvalInv, TypeOK, FunctionTypeOK,
       DepthCountsRefusals

LEMMA EvalInvariant == Spec => []EvalInv
<1>1. EvalInv /\ [Next]_vars => EvalInv'
  BY NextSplit, EvalStepInv, ControlStepInv, EvalStutter
<1> QED BY <1>1, EvalInit, PTL DEF Spec

(* Every variable of the container and of its functions stays what its      *)
(* declaration says, for every bot: recursion_depth never drops below zero. *)
THEOREM TypeCorrect == Spec => []TypeOK
<1>1. EvalInv => TypeOK
  BY DEF EvalInv
<1> QED BY <1>1, EvalInvariant, PTL

(* Once CFunctionCollection has been updated in a heartbeat, nothing that   *)
(* is cached or under evaluation knows of anything older than the last pass.*)
Fresh == \/ phase = "heartbeat" /\ pos > Collection
         \/ phase \in {"decision", "decided", "acted"}

(* All engines have been updated since the table was connected.             *)
Updated == \/ phase \in {"decision", "decided", "acted"}
           \/ phase = "idle" /\ connected

FreshInv ==
  /\ EvalInv
  /\ Fresh => UpTo(1)
  /\ phase = "heartbeat" => AgesUpTo(1)
  /\ InPass => \A e \in Engines : e < pos => age[e] = 0
  /\ Updated => AgesUpTo(0)
  /\ phase = "heartbeat" /\ pos <= Collection + 1 => stack = <<>> /\ todo = <<>>

LEMMA NoRootsUpToCollection ==
  ASSUME NEW e \in Engines, e <= Collection
  PROVE  RootsNow(e) = <<>>
<1>1. \A h \in Hooks : Roots[e][h] = <<>>
  BY RootsAfterCollection
<1>2. {"handreset", "newround", "myturn", "heartbeat", "connection"} \subseteq Hooks
  BY DEF Hooks, Events
<1>3. <<>> \o <<>> = <<>>
  OBVIOUS
<1> QED BY <1>1, <1>2, <1>3 DEF RootsNow

LEMMA FreshInit == Init => FreshInv
BY EvalInit DEF Init, FreshInv, Fresh, Updated, InPass

LEMMA FreshEvaluation ==
  ASSUME FreshInv, Evaluate \/ EvaluateStep
  PROVE  FreshInv'
<1>1. EvalInv'
  BY EvalStepInv DEF FreshInv
<1>2. UNCHANGED <<age, phase, pos, connected>>
  BY DEF Evaluate, EvaluateStep, Call, Return, passVars
<1>3. Fresh' => UpTo(1)'
  BY <1>2, EvaluationStep DEF FreshInv, Fresh
<1>4. ~(phase = "heartbeat" /\ pos <= Collection + 1)
  BY DEF FreshInv, Evaluate, EvaluateStep, Call, Return, Evaluating
<1> QED BY <1>1, <1>2, <1>3, <1>4 DEF FreshInv, Fresh, Updated, InPass, AgesUpTo

LEMMA FreshControl ==
  ASSUME FreshInv, Control
  PROVE  FreshInv'
<1>0. /\ NumEngines \in Nat \ {0} /\ Engines = 1..NumEngines /\ Collection \in Engines
      /\ Decision \in Seq(Functions)
  BY ContainerAssumption
<1>1. EvalInv' /\ UNCHANGED evalVars
  BY ControlStepInv, ControlKeepsEvaluation DEF FreshInv
<1>2. /\ age \in [Engines -> 0..2] /\ pos \in 1..(NumEngines + 1)
      /\ resultAge \in [Functions -> 0..2]
  BY DEF FreshInv, EvalInv, TypeOK, FunctionTypeOK, Ages
<1>3. ASSUME NEW kind, NewPass(kind)
      PROVE  pos' = 1 /\ phase' = kind /\ stack = <<>> /\ todo' = <<>>
  BY <1>3 DEF NewPass, Rest, Evaluating
<1>4. CASE Connect
  <2>1. pos' = 1 /\ phase' = "connection"
    BY <1>3, <1>4 DEF Connect
  <2> QED BY <1>0, <1>1, <2>1 DEF FreshInv, Fresh, Updated, InPass
<1>5. CASE StartHeartbeat
  <2>1. pos' = 1 /\ phase' = "heartbeat" /\ stack' = <<>> /\ todo' = <<>>
    BY <1>1, <1>3, <1>5 DEF StartHeartbeat, evalVars
  <2>2. Updated
    BY <1>5 DEF StartHeartbeat, NewPass, Rest, Updated
  <2>3. age' = [e \in Engines |-> OnePassOlder(age[e])]
    BY <1>5 DEF StartHeartbeat, NewPass
  <2>4. \A e \in Engines : age'[e] = 1
    BY <2>2, <2>3 DEF FreshInv, AgesUpTo, OnePassOlder
  <2> QED BY <1>0, <1>1, <2>1, <2>4 DEF FreshInv, Fresh, Updated, InPass, AgesUpTo
<1>6. CASE Disconnect
  BY <1>1, <1>6 DEF Disconnect, FreshInv, Fresh, Updated, InPass, AgesUpTo, UpTo,
     ResultsUpTo, fcVars, evalVars, cacheVars
<1>7. CASE UpdateEngine
  <2>1. /\ pos \in Engines /\ pos' = pos + 1 /\ phase' = phase /\ InPass
        /\ stack = <<>> /\ stack' = <<>> /\ todo' = RootsNow(pos)
        /\ age' = [age EXCEPT ![pos] = 0]
    BY <1>0, <1>1, <1>2, <1>7 DEF UpdateEngine, evalVars, Evaluating
  <2>2. \A e \in Engines : e < pos' => age'[e] = 0
    BY <1>0, <1>2, <2>1 DEF FreshInv
  <2>3. phase' = "heartbeat" => AgesUpTo(1)'
    BY <1>0, <1>2, <2>1 DEF FreshInv, AgesUpTo
  <2>4. phase' = "heartbeat" /\ pos' <= Collection + 1 => todo' = <<>>
    BY <1>0, <1>2, <2>1, NoRootsUpToCollection
  <2>5. Fresh' => ResultsUpTo(1)'
    <3>1. CASE pos = Collection
      BY <1>7, <3>1 DEF UpdateEngine, ClearCache, ResultsUpTo
    <3>2. CASE pos # Collection
      BY <1>0, <1>2, <1>7, <2>1, <3>2
         DEF UpdateEngine, FreshInv, Fresh, InPass, UpTo, ResultsUpTo, cacheVars
    <3> QED BY <3>1, <3>2
  <2>6. stack' \in Seq(FramesUpTo(1))
    BY <2>1
  <2>7. Fresh' => UpTo(1)'
    BY <2>1, <2>3, <2>5, <2>6 DEF UpTo, Fresh, InPass
  <2> QED BY <1>1, <2>1, <2>2, <2>3, <2>4, <2>7 DEF FreshInv, Updated, InPass
<1>8. CASE PassDone
  <2>1. /\ pos = NumEngines + 1 /\ InPass /\ UNCHANGED <<stack, cached, resultAge, age, pos>>
        /\ phase' = IF phase = "heartbeat" THEN "decision" ELSE "idle"
    BY <1>8 DEF PassDone, fcVars, evalVars, cacheVars
  <2>2. AgesUpTo(0)' /\ AgesUpTo(1)'
    BY <1>0, <1>2, <2>1 DEF FreshInv, AgesUpTo
  <2>3. Fresh' => UpTo(1)'
    BY <1>0, <2>1, <2>2 DEF FreshInv, Fresh, UpTo, ResultsUpTo, InPass
  <2> QED BY <1>1, <2>1, <2>2, <2>3 DEF FreshInv, Updated, InPass
<1>9. CASE Decided \/ Acts
  <2>1. /\ phase \in {"decision", "decided"} /\ phase' \in {"decided", "acted"}
        /\ UNCHANGED <<stack, cached, resultAge, age>>
    BY <1>9 DEF Decided, Acts, fcVars, evalVars, cacheVars
  <2> QED BY <1>1, <2>1 DEF FreshInv, Fresh, Updated, InPass, UpTo, ResultsUpTo, AgesUpTo
<1> QED BY <1>4, <1>5, <1>6, <1>7, <1>8, <1>9 DEF Control

LEMMA FreshStutter == FreshInv /\ UNCHANGED vars => FreshInv'
BY EvalStutter DEF vars, fcVars, evalVars, cacheVars, passVars, FreshInv, Fresh,
   Updated, InPass, UpTo, ResultsUpTo, AgesUpTo

(* Whatever bot is loaded and however its functions call each other, what a *)
(* decision finds cached is never older than the last pass.                 *)
THEOREM DecisionsUseFreshResults == Spec => []NeverOlderThanLastPass
<1>1. FreshInv /\ [Next]_vars => FreshInv'
  BY NextSplit, FreshEvaluation, FreshControl, FreshStutter
<1>2. FreshInv => NeverOlderThanLastPass
  BY DEF FreshInv, Fresh, UpTo, ResultsUpTo, NeverOlderThanLastPass
<1> QED BY <1>1, <1>2, FreshInit, PTL DEF Spec

-----------------------------------------------------------------------------
(* What a function uses, and what an engine evaluates, is closed under calls.*)
LEMMA UsesItself ==
  ASSUME NEW f \in Functions PROVE f \in Uses(f) /\ Uses(f) \subseteq Functions
BY DEF Uses, UsesOf

LEMMA CallsAreUsed ==
  ASSUME NEW f \in Functions, NEW h \in Uses(f), NEW g \in Calls[h]
  PROVE  h \in Functions /\ g \in Uses(f)
<1>1. h \in Functions /\ \A S \in ClosedSets : f \in S => h \in S
  BY DEF Uses, UsesOf
<1>2. g \in Functions
  BY <1>1, FunctionAssumption
<1>3. \A S \in ClosedSets : f \in S => g \in S
  BY <1>1 DEF ClosedSets
<1> QED
  BY <1>1, <1>2, <1>3 DEF Uses, UsesOf

LEMMA CalledUsesLess ==
  ASSUME NEW f \in Functions, NEW g \in Calls[f]
  PROVE  g \in Functions /\ Uses(g) \subseteq Uses(f)
<1>1. g \in Functions
  BY FunctionAssumption
<1>2. \A S \in ClosedSets : f \in S => g \in S
  BY DEF ClosedSets
<1> QED
  BY <1>1, <1>2 DEF Uses, UsesOf

LEMMA EvaluatedCalls ==
  ASSUME NEW e \in Engines, NEW f \in EvaluatedBy(e)
  PROVE  f \in Functions /\ Calls[f] \subseteq EvaluatedBy(e)
<1>1. PICK h \in Events \cup {"heartbeat"} : \E i \in 1..Len(Roots[e][h]) :
        f \in Uses(Roots[e][h][i])
  BY DEF EvaluatedBy
<1>2. PICK i \in 1..Len(Roots[e][h]) : f \in Uses(Roots[e][h][i])
  BY <1>1
<1>3. Roots[e][h][i] \in Functions
  <2>1. Roots[e][h] \in Seq(Functions)
    BY ContainerAssumption DEF Hooks
  <2> QED
    BY <1>2, <2>1
<1>4. f \in Functions /\ \A g \in Calls[f] : g \in Uses(Roots[e][h][i])
  BY <1>2, <1>3, UsesItself, CallsAreUsed
<1>5. Uses(Roots[e][h][i]) \subseteq EvaluatedBy(e)
  BY DEF EvaluatedBy
<1> QED
  BY <1>4, <1>5

LEMMA EvaluatedRoots ==
  ASSUME NEW e \in Engines, NEW h \in Events \cup {"heartbeat"},
         NEW i \in 1..Len(Roots[e][h])
  PROVE  Roots[e][h][i] \in EvaluatedBy(e)
<1>1. Roots[e][h][i] \in Functions
  <2>1. Roots[e][h] \in Seq(Functions)
    BY ContainerAssumption DEF Hooks
  <2> QED
    BY <2>1
<1> QED
  BY <1>1, UsesItself DEF EvaluatedBy

(* What an element of a concatenation is, and where the parts are found.     *)
LEMMA ConcatElements ==
  ASSUME NEW S, NEW s \in Seq(S), NEW t \in Seq(S)
  PROVE  /\ s \o t \in Seq(S)
         /\ \A i \in 1..Len(s \o t) : \/ \E j \in 1..Len(s) : (s \o t)[i] = s[j]
                                     \/ \E j \in 1..Len(t) : (s \o t)[i] = t[j]
         /\ \A j \in 1..Len(s) : \E i \in 1..Len(s \o t) : (s \o t)[i] = s[j]
         /\ \A j \in 1..Len(t) : \E i \in 1..Len(s \o t) : (s \o t)[i] = t[j]
<1>1. /\ s \o t \in Seq(S) /\ Len(s \o t) = Len(s) + Len(t)
      /\ \A i \in 1..Len(s \o t) : (s \o t)[i] = IF i <= Len(s) THEN s[i] ELSE t[i - Len(s)]
  BY ConcatProperties
<1>2. Len(s) \in Nat /\ Len(t) \in Nat
  OBVIOUS
<1>3. ASSUME NEW i \in 1..Len(s \o t)
      PROVE  \/ \E j \in 1..Len(s) : (s \o t)[i] = s[j]
             \/ \E j \in 1..Len(t) : (s \o t)[i] = t[j]
  <2>1. CASE i <= Len(s)
    BY <1>1, <1>2, <2>1
  <2>2. CASE i > Len(s)
    <3>1. i - Len(s) \in 1..Len(t)
      BY <1>1, <1>2, <2>2
    <3> QED
      BY <1>1, <1>2, <2>2, <3>1
  <2> QED
    BY <1>2, <2>1, <2>2
<1>4. ASSUME NEW j \in 1..Len(s)
      PROVE  \E i \in 1..Len(s \o t) : (s \o t)[i] = s[j]
  BY <1>1, <1>2
<1>5. ASSUME NEW j \in 1..Len(t)
      PROVE  \E i \in 1..Len(s \o t) : (s \o t)[i] = t[j]
  <2>1. /\ j + Len(s) \in 1..Len(s \o t) /\ ~(j + Len(s) <= Len(s))
        /\ (j + Len(s)) - Len(s) = j
    BY <1>1, <1>2
  <2> QED
    BY <1>1, <2>1
<1> QED
  BY <1>1, <1>3, <1>4, <1>5

(* The roots of a heartbeat: all of them, and nothing else.                  *)
LEMMA RootsOfHeartbeat ==
  ASSUME NEW e \in Engines, phase = "heartbeat", events \subseteq Events
  PROVE  /\ RootsNow(e) \in Seq(Functions)
         /\ \A i \in 1..Len(RootsNow(e)) : RootsNow(e)[i] \in EvaluatedBy(e)
         /\ \A h \in events : \A j \in 1..Len(Roots[e][h]) :
              \E i \in 1..Len(RootsNow(e)) : RootsNow(e)[i] = Roots[e][h][j]
<1> DEFINE On(h) == IF h \in events THEN Roots[e][h] ELSE <<>>
           of2 == On("handreset") \o On("newround")
           of3 == of2 \o On("myturn")
           of4 == of3 \o Roots[e]["heartbeat"]
           All(s) == \A i \in 1..Len(s) : s[i] \in EvaluatedBy(e)
           In(s, t) == \A j \in 1..Len(s) : \E i \in 1..Len(t) : t[i] = s[j]
<1>0. RootsNow(e) = of4
  BY DEF RootsNow
<1>1. \A h \in Hooks : Roots[e][h] \in Seq(Functions)
  BY ContainerAssumption
<1>2. /\ {"handreset", "newround", "myturn", "heartbeat"} \subseteq Hooks
      /\ Events = {"handreset", "newround", "myturn"}
  BY DEF Hooks, Events
<1>3. \A h \in Events \cup {"heartbeat"} : All(Roots[e][h])
  BY EvaluatedRoots
<1>4. \A h \in Events : On(h) \in Seq(Functions) /\ All(On(h))
  BY <1>1, <1>2, <1>3
<1> HIDE DEF On
<1>5. of2 \in Seq(Functions) /\ All(of2) /\ In(On("handreset"), of2) /\ In(On("newround"), of2)
  BY <1>2, <1>4, ConcatElements
<1> HIDE DEF of2
<1>6. of3 \in Seq(Functions) /\ All(of3) /\ In(of2, of3) /\ In(On("myturn"), of3)
  BY <1>2, <1>4, <1>5, ConcatElements
<1> HIDE DEF of3
<1>7. of4 \in Seq(Functions) /\ All(of4) /\ In(of3, of4)
  BY <1>1, <1>2, <1>3, <1>6, ConcatElements
<1> HIDE DEF of4
<1>8. In(On("handreset"), of4) /\ In(On("newround"), of4) /\ In(On("myturn"), of4)
  BY <1>5, <1>6, <1>7
<1>9. \A h \in events : On(h) = Roots[e][h] /\ In(On(h), of4)
  BY <1>2, <1>8 DEF On
<1>10. \A h \in events : In(Roots[e][h], of4)
  BY <1>9
<1> QED
  BY <1>0, <1>7, <1>10

-----------------------------------------------------------------------------
(* What the steps of an evaluation do to the stack, by its places.           *)
FnAt(i) == stack[i].fn

(* The innermost activation, and those of its callers.                       *)
EnterCases(f, callers) ==
  \/ stack' = callers
  \/ /\ ~cached[f]
     /\ Len(stack') = Len(callers) + 1
     /\ stack'[1] = [fn |-> f, left |-> Calls[f], age |-> AgeRead(f)]
     /\ \A i \in 1..Len(callers) : stack'[i + 1] = callers[i]

LEMMA EnterPlaces ==
  ASSUME NEW f \in Functions, NEW callers \in Seq(Frames), Enter(f, callers),
         recursion_depth \in Nat
  PROVE  /\ EnterCases(f, callers)
         /\ recursion_depth < MaxDepth /\ ~cached[f] => Len(stack') = Len(callers) + 1
         /\ recursion_depth < MaxDepth => aborted' = aborted
         /\ UNCHANGED cacheVars
<1>0. MaxDepth \in Nat
  BY FunctionAssumption
<1>1. CASE EnterCached(f, callers) \/ EnterTooDeep(f, callers)
  BY <1>0, <1>1 DEF EnterCached, EnterTooDeep, EnterCases
<1>2. CASE EnterBody(f, callers)
  <2> DEFINE new == [fn |-> f, left |-> Calls[f], age |-> AgeRead(f)]
             one == <<new>>
  <2>1. /\ one \in Seq({new}) /\ Len(one) = 1 /\ one[1] = new
        /\ stack' = one \o callers /\ ~cached[f] /\ aborted' = aborted
        /\ UNCHANGED cacheVars
    BY <1>2 DEF EnterBody
  <2> HIDE DEF new, one
  <2>2. /\ Len(one \o callers) = Len(one) + Len(callers)
        /\ \A i \in 1..Len(one \o callers) :
             (one \o callers)[i] = IF i <= Len(one) THEN one[i] ELSE callers[i - Len(one)]
    <3>1. one \in Seq(Frames \cup {new}) /\ callers \in Seq(Frames \cup {new})
      BY <2>1
    <3> QED
      BY <3>1, ConcatProperties
  <2>3. Len(callers) \in Nat
    OBVIOUS
  <2>4. Len(stack') = Len(callers) + 1 /\ stack'[1] = new
    BY <2>1, <2>2, <2>3
  <2>5. ASSUME NEW i \in 1..Len(callers) PROVE stack'[i + 1] = callers[i]
    <3>1. i + 1 \in 1..Len(one \o callers) /\ ~(i + 1 <= Len(one)) /\ (i + 1) - Len(one) = i
      BY <2>1, <2>2, <2>3
    <3> QED
      BY <2>1, <2>2, <3>1
  <2> QED
    BY <2>1, <2>4, <2>5 DEF EnterCases, new
<1> QED
  BY <1>1, <1>2 DEF Enter

(* An evaluation begins.                                                     *)
Begins(f) ==
  /\ stack = <<>> /\ f \in Functions
  /\ \/ stack' = <<>>
     \/ /\ ~cached[f] /\ Len(stack') = 1
        /\ stack'[1] = [fn |-> f, left |-> Calls[f], age |-> AgeRead(f)]
  /\ recursion_depth < MaxDepth /\ ~cached[f] => stack' # <<>>
  /\ recursion_depth < MaxDepth => aborted' = aborted
  /\ UNCHANGED <<cached, resultAge, ran>>

LEMMA EvaluatePlaces ==
  ASSUME EvalInv, Evaluate
  PROVE  Begins(Head(todo))
<1>1. Enter(Head(todo), <<>>) /\ stack = <<>> /\ Head(todo) \in Functions
  BY DEF Evaluate, Ask, Evaluating, EvalInv, TypeOK
<1>2. <<>> \in Seq(Frames) /\ Len(<<>>) = 0 /\ recursion_depth \in Nat
  BY DEF EvalInv, TypeOK, FunctionTypeOK
<1>3. /\ EnterCases(Head(todo), <<>>)
      /\ recursion_depth < MaxDepth /\ ~cached[Head(todo)] => Len(stack') = Len(<<>>) + 1
      /\ recursion_depth < MaxDepth => aborted' = aborted
      /\ UNCHANGED cacheVars
  BY <1>1, <1>2, EnterPlaces
<1> QED
  BY <1>1, <1>2, <1>3 DEF Begins, EnterCases, cacheVars

(* The innermost activation calls g.                                         *)
Calling(g) ==
  /\ stack # <<>> /\ g \in stack[1].left /\ g \in Functions
  /\ \E callers \in Seq(Frames), m \in Ages :
       /\ Len(callers) = Len(stack)
       /\ callers[1].fn = FnAt(1) /\ callers[1].left \subseteq stack[1].left
       /\ callers[1].age = Older(stack[1].age, m)
       /\ m > 0 => cached[g] /\ resultAge[g] = m
       /\ \A i \in 2..Len(stack) : callers[i] = stack[i]
       /\ EnterCases(g, callers)
  /\ recursion_depth < MaxDepth => aborted' = aborted
  /\ UNCHANGED <<cached, resultAge, ran, age, passVars>>

LEMMA CallPlaces ==
  ASSUME EvalInv, EvaluateStep /\ Call
  PROVE  \E g \in Functions : Calling(g)
<1>1. PICK g \in Head(stack).left :
        Enter(g, AfterCall(g, IF cached[g] /\ recursion_depth < MaxDepth
                                THEN resultAge[g] ELSE 0))
  BY DEF Call
<1>2. /\ stack # <<>> /\ UNCHANGED <<age, passVars>> /\ stack \in Seq(Frames)
      /\ recursion_depth \in Nat /\ resultAge \in [Functions -> Ages]
  BY DEF Call, EvaluateStep, Evaluating, EvalInv, TypeOK, FunctionTypeOK
<1>3. /\ 1 \in 1..Len(stack) /\ Head(stack) = stack[1] /\ stack[1] \in Frames
      /\ Len(stack) \in Nat
  BY <1>2
<1>4. g \in Functions /\ g \in stack[1].left
  BY <1>1, <1>3 DEF Frames
<1> DEFINE m == IF cached[g] /\ recursion_depth < MaxDepth THEN resultAge[g] ELSE 0
           callers == AfterCall(g, m)
<1>5. m \in Ages /\ (m > 0 => cached[g] /\ resultAge[g] = m)
  BY <1>2, <1>4, ZeroIsAnAge
<1>6. Enter(g, callers)
  BY <1>1
<1> HIDE DEF m
<1>7. callers \in Seq(Frames) /\ Len(callers) = Len(stack)
  BY <1>2, <1>5, FramesAreUpToTwo, AfterCallType DEF Evaluating
<1>8. /\ callers[1].fn = FnAt(1) /\ callers[1].left \subseteq stack[1].left
      /\ callers[1].age = Older(stack[1].age, m)
      /\ \A i \in 2..Len(stack) : callers[i] = stack[i]
  BY <1>2, <1>3 DEF AfterCall, FnAt
<1> HIDE DEF callers
<1>9. /\ EnterCases(g, callers) /\ UNCHANGED cacheVars
      /\ recursion_depth < MaxDepth => aborted' = aborted
  BY <1>2, <1>4, <1>6, <1>7, EnterPlaces
<1> QED
  BY <1>2, <1>4, <1>5, <1>7, <1>8, <1>9 DEF Calling, cacheVars

(* The innermost activation returns.                                         *)
Returning ==
  /\ stack # <<>>
  /\ Len(stack') = Len(stack) - 1
  /\ Len(stack) > 1 => /\ stack'[1].fn = FnAt(2) /\ stack'[1].left = stack[2].left
                       /\ stack'[1].age = Older(stack[2].age, stack[1].age)
  /\ \A i \in 2..(Len(stack) - 1) : stack'[i] = stack[i + 1]
  /\ cached' = [cached EXCEPT ![FnAt(1)] = TRUE]
  /\ resultAge' = [resultAge EXCEPT ![FnAt(1)] = stack[1].age]
  /\ ran' = [ran EXCEPT ![FnAt(1)] = IF @ < 2 THEN @ + 1 ELSE @]
  /\ UNCHANGED <<aborted, age, passVars>>

LEMMA ReturnPlaces ==
  ASSUME EvalInv, EvaluateStep /\ Return
  PROVE  Returning
<1>1. /\ stack # <<>> /\ stack \in Seq(Frames) /\ UNCHANGED <<aborted, age, passVars>>
  BY DEF Return, EvaluateStep, Evaluating, EvalInv, TypeOK, FunctionTypeOK
<1> DEFINE callers == Tail(stack)
<1>2. /\ Head(stack) = stack[1] /\ callers \in Seq(Frames)
      /\ Len(callers) = Len(stack) - 1 /\ Len(stack) \in Nat \ {0}
      /\ \A i \in 1..Len(callers) : callers[i] = stack[i + 1]
  BY <1>1, HeadTailProperties
<1>3. /\ cached' = [cached EXCEPT ![FnAt(1)] = TRUE]
      /\ resultAge' = [resultAge EXCEPT ![FnAt(1)] = stack[1].age]
      /\ ran' = [ran EXCEPT ![FnAt(1)] = IF @ < 2 THEN @ + 1 ELSE @]
      /\ stack' = IF callers = <<>> THEN <<>>
                  ELSE [callers EXCEPT ![1] =
                          [fn |-> callers[1].fn, left |-> callers[1].left,
                           age |-> Older(callers[1].age, stack[1].age)]]
  BY <1>2 DEF Return, FnAt
<1> HIDE DEF callers
<1>4. CASE callers = <<>>
  <2>1. Len(stack) = 1 /\ Len(stack') = 0
    BY <1>2, <1>3, <1>4
  <2> QED
    BY <1>1, <1>3, <2>1 DEF Returning
<1>5. CASE callers # <<>>
  <2>1. 1 \in 1..Len(callers) /\ callers[1] = stack[2] /\ Len(callers) > 0
    BY <1>2, <1>5
  <2>2. /\ Len(stack') = Len(callers)
        /\ stack'[1] = [fn |-> callers[1].fn, left |-> callers[1].left,
                        age |-> Older(callers[1].age, stack[1].age)]
        /\ \A i \in 2..Len(callers) : stack'[i] = callers[i]
    BY <1>2, <1>3, <1>5, <2>1
  <2> QED
    BY <1>1, <1>2, <1>3, <2>1, <2>2 DEF Returning, FnAt
<1> QED
  BY <1>4, <1>5

-----------------------------------------------------------------------------
(* Every activation was called by the one below it on the stack.             *)
CallChain ==
  \A i \in 1..Len(stack) :
    /\ FnAt(i) \in Functions /\ stack[i].left \subseteq Calls[FnAt(i)]
    /\ i + 1 <= Len(stack) => FnAt(i) \in Calls[FnAt(i + 1)]

LEMMA ChainBegins ==
  ASSUME NEW f, Begins(f)
  PROVE  CallChain'
<1>1. CASE stack' = <<>>
  BY <1>1 DEF CallChain
<1>2. CASE stack' # <<>>
  BY <1>2 DEF Begins, CallChain, FnAt
<1> QED
  BY <1>1, <1>2

LEMMA ChainCalling ==
  ASSUME CallChain, EvalInv, NEW g, Calling(g)
  PROVE  CallChain'
<1>0. stack # <<>> /\ Len(stack) \in Nat \ {0} /\ g \in stack[1].left /\ g \in Functions
  BY DEF Calling, EvalInv, TypeOK, FunctionTypeOK
<1>1. PICK callers \in Seq(Frames) :
        /\ Len(callers) = Len(stack)
        /\ callers[1].fn = FnAt(1) /\ callers[1].left \subseteq stack[1].left
        /\ \A i \in 2..Len(stack) : callers[i] = stack[i]
        /\ EnterCases(g, callers)
  BY DEF Calling
<1>2. \A i \in 1..Len(stack) : callers[i].fn = FnAt(i) /\ callers[i].left \subseteq stack[i].left
  BY <1>0, <1>1 DEF FnAt
<1>3. g \in Calls[FnAt(1)]
  BY <1>0 DEF CallChain
<1>4. CASE stack' = callers
  BY <1>1, <1>2, <1>4 DEF CallChain, FnAt
<1>5. CASE /\ Len(stack') = Len(callers) + 1
           /\ stack'[1] = [fn |-> g, left |-> Calls[g], age |-> AgeRead(g)]
           /\ \A i \in 1..Len(callers) : stack'[i + 1] = callers[i]
  <2> SUFFICES ASSUME NEW i \in 1..Len(stack')
               PROVE  /\ FnAt(i)' \in Functions /\ stack'[i].left \subseteq Calls[FnAt(i)']
                      /\ i + 1 <= Len(stack') => FnAt(i)' \in Calls[FnAt(i + 1)']
    BY DEF CallChain
  <2>1. CASE i = 1
    <3>1. stack'[2] = callers[1]
      BY <1>0, <1>1, <1>5
    <3>2. FnAt(1)' = g /\ stack'[1].left = Calls[g] /\ FnAt(2)' = FnAt(1)
      BY <1>1, <1>5, <3>1 DEF FnAt
    <3>3. FnAt(i)' = g /\ stack'[i].left = Calls[g]
      BY <2>1, <3>2
    <3>4. i + 1 = 2
      BY <2>1
    <3>5. FnAt(i + 1)' = FnAt(1)
      BY <3>2, <3>4
    <3> QED
      BY <1>0, <1>3, <3>3, <3>5
  <2>2. CASE i # 1
    <3> DEFINE j == i - 1
    <3>1. /\ j \in 1..Len(stack) /\ i = j + 1 /\ stack'[i] = callers[j]
          /\ i + 1 <= Len(stack') => j + 1 \in 1..Len(stack) /\ stack'[i + 1] = callers[j + 1]
      BY <1>0, <1>1, <1>5, <2>2
    <3> HIDE DEF j
    <3>2. FnAt(i)' = FnAt(j) /\ stack'[i].left \subseteq stack[j].left
      BY <1>2, <3>1 DEF FnAt
    <3>3. ASSUME i + 1 <= Len(stack') PROVE FnAt(i)' \in Calls[FnAt(i + 1)']
      <4>1. FnAt(i + 1)' = FnAt(j + 1) /\ j + 1 <= Len(stack)
        BY <1>0, <1>2, <3>1, <3>3 DEF FnAt
      <4> QED
        BY <3>1, <3>2, <4>1 DEF CallChain
    <3> QED
      BY <3>1, <3>2, <3>3 DEF CallChain
  <2> QED
    BY <2>1, <2>2
<1> QED
  BY <1>1, <1>4, <1>5 DEF EnterCases

LEMMA ChainReturning ==
  ASSUME CallChain, EvalInv, Returning
  PROVE  CallChain'
<1>0. Len(stack) \in Nat \ {0} /\ Len(stack') = Len(stack) - 1
  BY DEF Returning, EvalInv, TypeOK, FunctionTypeOK
<1>1. \A i \in 1..Len(stack') : FnAt(i)' = FnAt(i + 1) /\ stack'[i].left = stack[i + 1].left
  BY <1>0 DEF Returning, FnAt
<1> SUFFICES ASSUME NEW i \in 1..Len(stack')
             PROVE  /\ FnAt(i)' \in Functions /\ stack'[i].left \subseteq Calls[FnAt(i)']
                    /\ i + 1 <= Len(stack') => FnAt(i)' \in Calls[FnAt(i + 1)']
  BY DEF CallChain
<1>2. /\ i + 1 \in 1..Len(stack)
      /\ i + 1 <= Len(stack') => i + 1 \in 1..Len(stack') /\ (i + 1) + 1 <= Len(stack)
  BY <1>0
<1> QED
  BY <1>1, <1>2 DEF CallChain

ChainInv == EvalInv /\ CallChain

LEMMA ChainStep == ChainInv /\ [Next]_vars => ChainInv'
<1> SUFFICES ASSUME ChainInv, [Next]_vars PROVE ChainInv'
  OBVIOUS
<1>1. EvalInv'
  BY NextSplit, EvalStepInv, ControlStepInv, EvalStutter DEF ChainInv
<1>2. CASE Evaluate
  BY <1>2, EvaluatePlaces, ChainBegins, <1>1 DEF ChainInv
<1>3. CASE EvaluateStep /\ Call
  BY <1>3, CallPlaces, ChainCalling, <1>1 DEF ChainInv
<1>4. CASE EvaluateStep /\ Return
  BY <1>4, ReturnPlaces, ChainReturning, <1>1 DEF ChainInv
<1>5. CASE Control \/ UNCHANGED vars
  <2>1. UNCHANGED stack
    BY <1>5, ControlKeepsEvaluation DEF evalVars, fcVars, vars
  <2> QED
    BY <1>1, <2>1 DEF ChainInv, CallChain, FnAt
<1> QED
  BY <1>2, <1>3, <1>4, <1>5, NextSplit DEF EvaluateStep

LEMMA ChainInit == Init => ChainInv
<1>1. Init => Len(stack) = 0
  BY DEF Init, FunctionInit
<1> QED
  BY <1>1, EvalInit DEF ChainInv, CallChain

-----------------------------------------------------------------------------
(* What is older than this heartbeat, cached or under evaluation, has an     *)
(* early root below it.                                                      *)
StaleInv ==
  /\ Fresh => /\ \A f \in Functions : cached[f] /\ resultAge[f] > 0 => BelowEarlyRoot(f)
              /\ \A i \in 1..Len(stack) : stack[i].age > 0 => BelowEarlyRoot(FnAt(i))
  /\ phase = "heartbeat" =>
       /\ \A i \in 1..Len(todo) : todo[i] \in EvaluatedBy(pos - 1)
       /\ \A i \in 1..Len(stack) : FnAt(i) \in EvaluatedBy(pos - 1)

StaleAll == FreshInv /\ CallChain /\ StaleInv

LEMMA CallerIsBelow ==
  ASSUME NEW f \in Functions, NEW g \in Calls[f], BelowEarlyRoot(g)
  PROVE  BelowEarlyRoot(f)
BY CalledUsesLess DEF BelowEarlyRoot

(* In a heartbeat only an engine behind the first updates evaluates.         *)
LEMMA EvaluatesLate ==
  ASSUME FreshInv, Evaluate \/ EvaluateStep, phase = "heartbeat"
  PROVE  Fresh /\ pos - 1 \in Engines
<1>1. stack # <<>> \/ todo # <<>>
  BY DEF Evaluate, EvaluateStep, Call, Return, Evaluating
<1>2. ~(pos <= Collection + 1) /\ pos \in 1..(NumEngines + 1)
  BY <1>1 DEF FreshInv, EvalInv, TypeOK
<1>3. NumEngines \in Nat \ {0} /\ Engines = 1..NumEngines /\ Collection \in Engines
  BY ContainerAssumption
<1> QED
  BY <1>2, <1>3 DEF Fresh

LEMMA NewFrameBelow ==
  ASSUME FreshInv, Fresh, NEW f \in Functions, AgeRead(f) > 0,
         phase = "heartbeat" => pos - 1 \in Engines /\ f \in EvaluatedBy(pos - 1)
  PROVE  BelowEarlyRoot(f)
<1>1. AgesUpTo(1)
  BY DEF FreshInv, UpTo
<1>2. PICK e \in Reads[f] : age[e] = AgeRead(f)
  BY <1>1, AgeReadBound
<1>3. e \in Engines /\ age[e] > 0
  BY <1>2, FunctionAssumption
<1>4. phase = "heartbeat"
  BY <1>3 DEF Fresh, FreshInv, Updated, AgesUpTo
<1>5. ~(e < pos) /\ pos \in Nat /\ e \in Nat
  <2>1. InPass
    BY <1>4 DEF InPass
  <2>2. pos \in 1..(NumEngines + 1) /\ NumEngines \in Nat /\ Engines = 1..NumEngines
    BY ContainerAssumption DEF FreshInv, EvalInv, TypeOK
  <2> QED
    BY <1>3, <2>1, <2>2 DEF FreshInv
<1>6. e > pos - 1 /\ f \in Uses(f) \cap EvaluatedBy(pos - 1)
  BY <1>4, <1>5, UsesItself
<1> QED
  BY <1>2, <1>4, <1>6 DEF BelowEarlyRoot

LEMMA StaleBegins ==
  ASSUME StaleAll, Evaluate
  PROVE  StaleInv'
<1> DEFINE f == Head(todo)
<1>1. Begins(f) /\ todo' = Tail(todo) /\ todo \in Seq(Functions) /\ todo # <<>>
      /\ UNCHANGED <<age, phase, pos>>
  BY EvaluatePlaces DEF StaleAll, FreshInv, Evaluate, EvalInv, TypeOK
<1>2. /\ f = todo[1] /\ 1 \in 1..Len(todo) /\ Len(todo') = Len(todo) - 1
      /\ Len(todo) \in Nat
      /\ \A i \in 1..Len(todo') : todo'[i] = todo[i + 1] /\ i + 1 \in 1..Len(todo)
  BY <1>1, HeadTailProperties
<1> HIDE DEF f
<1>3. phase = "heartbeat" => /\ Fresh /\ pos - 1 \in Engines /\ f \in EvaluatedBy(pos - 1)
                            /\ \A i \in 1..Len(todo') : todo'[i] \in EvaluatedBy(pos - 1)
  BY <1>2, EvaluatesLate DEF StaleAll, StaleInv
<1>4. CASE stack' = <<>>
  BY <1>1, <1>3, <1>4 DEF Begins, StaleAll, StaleInv, Fresh, FnAt
<1>5. CASE /\ Len(stack') = 1
           /\ stack'[1] = [fn |-> f, left |-> Calls[f], age |-> AgeRead(f)]
  <2>1. \A i \in 1..Len(stack') : FnAt(i)' = f /\ stack'[i].age = AgeRead(f)
    BY <1>5 DEF FnAt
  <2>2. Fresh /\ AgeRead(f) > 0 => BelowEarlyRoot(f)
    BY <1>1, <1>3, NewFrameBelow DEF StaleAll, Begins
  <2> QED
    BY <1>1, <1>3, <2>1, <2>2 DEF Begins, StaleAll, StaleInv, Fresh
<1> QED
  BY <1>1, <1>4, <1>5 DEF Begins

LEMMA StaleCalling ==
  ASSUME StaleAll, EvaluateStep, NEW g \in Functions, Calling(g)
  PROVE  StaleInv'
<1>0. /\ stack # <<>> /\ stack \in Seq(Frames) /\ Len(stack) \in Nat \ {0}
      /\ 1 \in 1..Len(stack) /\ UNCHANGED <<cached, resultAge, phase, pos, todo>>
  BY DEF StaleAll, FreshInv, EvalInv, TypeOK, FunctionTypeOK, Calling, passVars
<1>1. PICK callers \in Seq(Frames), m \in Ages :
        /\ Len(callers) = Len(stack)
        /\ callers[1].fn = FnAt(1) /\ callers[1].age = Older(stack[1].age, m)
        /\ m > 0 => cached[g] /\ resultAge[g] = m
        /\ \A i \in 2..Len(stack) : callers[i] = stack[i]
        /\ EnterCases(g, callers)
  BY DEF Calling
<1>2. g \in Calls[FnAt(1)] /\ FnAt(1) \in Functions
  BY <1>0 DEF Calling, StaleAll, CallChain
<1>3. phase = "heartbeat" => /\ Fresh /\ pos - 1 \in Engines /\ g \in EvaluatedBy(pos - 1)
  <2>1. phase = "heartbeat" => FnAt(1) \in EvaluatedBy(pos - 1) /\ pos - 1 \in Engines /\ Fresh
    BY <1>0, EvaluatesLate DEF StaleAll, StaleInv
  <2> QED
    BY <1>2, <2>1, EvaluatedCalls
<1>4. Fresh /\ callers[1].age > 0 => BelowEarlyRoot(FnAt(1))
  <2>1. stack[1].age \in 0..2 /\ m \in 0..2
    <3>1. stack[1] \in Frames
      BY <1>0
    <3> QED
      BY <1>1, <3>1 DEF Frames, Ages
  <2>2. callers[1].age > 0 => stack[1].age > 0 \/ m > 0
    BY <1>1, <2>1 DEF Older
  <2>3. Fresh /\ m > 0 => BelowEarlyRoot(g)
    BY <1>1 DEF StaleAll, StaleInv
  <2> QED
    BY <1>0, <1>2, <2>2, <2>3, CallerIsBelow DEF StaleAll, StaleInv
<1>5. \A i \in 1..Len(callers) :
        /\ callers[i].fn = FnAt(i)
        /\ Fresh /\ callers[i].age > 0 => BelowEarlyRoot(FnAt(i))
  BY <1>0, <1>1, <1>4 DEF StaleAll, StaleInv, FnAt
<1>6. \A i \in 1..Len(stack') :
        /\ Fresh /\ stack'[i].age > 0 => BelowEarlyRoot(FnAt(i)')
        /\ phase = "heartbeat" => FnAt(i)' \in EvaluatedBy(pos - 1)
  <2>1. CASE stack' = callers
    BY <1>0, <1>1, <1>5, <2>1 DEF StaleAll, StaleInv, FnAt
  <2>2. CASE /\ Len(stack') = Len(callers) + 1
             /\ stack'[1] = [fn |-> g, left |-> Calls[g], age |-> AgeRead(g)]
             /\ \A i \in 1..Len(callers) : stack'[i + 1] = callers[i]
    <3> SUFFICES ASSUME NEW i \in 1..Len(stack')
                 PROVE  /\ Fresh /\ stack'[i].age > 0 => BelowEarlyRoot(FnAt(i)')
                        /\ phase = "heartbeat" => FnAt(i)' \in EvaluatedBy(pos - 1)
      OBVIOUS
    <3>1. CASE i = 1
      <4>1. FnAt(i)' = g /\ stack'[i].age = AgeRead(g)
        BY <2>2, <3>1 DEF FnAt
      <4>2. Fresh /\ AgeRead(g) > 0 => BelowEarlyRoot(g)
        BY <1>3, NewFrameBelow DEF StaleAll
      <4> QED
        BY <1>3, <4>1, <4>2
    <3>2. CASE i # 1
      <4>1. PICK j \in 1..Len(stack) : i = j + 1
        <5>1. i - 1 \in 1..Len(stack) /\ i = (i - 1) + 1
          BY <1>0, <1>1, <2>2, <3>2
        <5> QED
          BY <5>1
      <4>2. stack'[i] = callers[j] /\ FnAt(i)' = FnAt(j)
        BY <1>1, <1>5, <2>2, <4>1 DEF FnAt
      <4> QED
        BY <1>1, <1>5, <4>1, <4>2 DEF StaleAll, StaleInv
    <3> QED
      BY <3>1, <3>2
  <2> QED
    BY <1>1, <2>1, <2>2 DEF EnterCases
<1> QED
  BY <1>0, <1>6 DEF StaleAll, StaleInv, Fresh

LEMMA StaleReturning ==
  ASSUME StaleAll, Returning
  PROVE  StaleInv'
<1>0. /\ Len(stack) \in Nat \ {0} /\ Len(stack') = Len(stack) - 1
      /\ stack \in Seq(Frames) /\ 1 \in 1..Len(stack)
      /\ cached \in [Functions -> BOOLEAN] /\ resultAge \in [Functions -> Ages]
      /\ UNCHANGED <<phase, pos, todo>>
  BY DEF StaleAll, FreshInv, EvalInv, TypeOK, FunctionTypeOK, Returning, passVars
<1>1. FnAt(1) \in Functions /\ (Fresh /\ stack[1].age > 0 => BelowEarlyRoot(FnAt(1)))
  BY <1>0 DEF StaleAll, StaleInv, CallChain
<1>2. Fresh => \A f \in Functions : cached'[f] /\ resultAge'[f] > 0 => BelowEarlyRoot(f)
  BY <1>0, <1>1 DEF Returning, StaleAll, StaleInv
<1>3. \A i \in 1..Len(stack') : FnAt(i)' = FnAt(i + 1) /\ i + 1 \in 1..Len(stack)
  BY <1>0 DEF Returning, FnAt
<1>4. ASSUME Fresh, NEW i \in 1..Len(stack'), stack'[i].age > 0
      PROVE  BelowEarlyRoot(FnAt(i + 1))
  <2>1. CASE i = 1
    <3>1. 2 \in 1..Len(stack) /\ stack'[1].age = Older(stack[2].age, stack[1].age)
      BY <1>0, <2>1 DEF Returning
    <3>2. stack[1].age \in 0..2 /\ stack[2].age \in 0..2
      <4>1. stack[1] \in Frames /\ stack[2] \in Frames
        BY <1>0, <3>1
      <4> QED
        BY <4>1 DEF Frames, Ages
    <3>3. stack[1].age > 0 \/ stack[2].age > 0
      BY <1>4, <2>1, <3>1, <3>2 DEF Older
    <3>4. FnAt(1) \in Calls[FnAt(2)] /\ FnAt(2) \in Functions
      BY <1>0, <3>1 DEF StaleAll, CallChain
    <3>5. BelowEarlyRoot(FnAt(2))
      BY <1>1, <1>4, <3>1, <3>3, <3>4, CallerIsBelow DEF StaleAll, StaleInv
    <3> QED
      BY <2>1, <3>5
  <2>2. CASE i # 1
    <3>1. stack'[i] = stack[i + 1] /\ i + 1 \in 1..Len(stack)
      BY <1>0, <2>2 DEF Returning
    <3> QED
      BY <1>4, <3>1 DEF StaleAll, StaleInv
  <2> QED
    BY <2>1, <2>2
<1>5. Fresh' => \A i \in 1..Len(stack') : stack'[i].age > 0 => BelowEarlyRoot(FnAt(i)')
  BY <1>0, <1>3, <1>4 DEF Fresh
<1> QED
  BY <1>0, <1>2, <1>3, <1>5 DEF StaleAll, StaleInv, Fresh

LEMMA StaleControl ==
  ASSUME StaleAll, Control
  PROVE  StaleInv'
<1>0. /\ NumEngines \in Nat \ {0} /\ Engines = 1..NumEngines /\ Collection \in Engines
      /\ pos \in 1..(NumEngines + 1) /\ events \subseteq Events
  BY ContainerAssumption DEF StaleAll, FreshInv, EvalInv, TypeOK
<1>1. stack' = stack /\ (stack = <<>> => Len(stack) = 0)
  BY ControlKeepsEvaluation DEF evalVars
<1>2. ASSUME NEW kind \in {"connection", "heartbeat"}, NewPass(kind)
      PROVE  StaleInv'
  <2>1. pos' = 1 /\ stack = <<>> /\ todo' = <<>> /\ phase' = kind
    BY <1>2 DEF NewPass, Rest, Evaluating
  <2>2. Len(todo') = 0 /\ Len(stack') = 0 /\ ~Fresh'
    BY <1>0, <1>1, <1>2, <2>1 DEF Fresh
  <2> QED
    BY <2>2 DEF StaleInv
<1>3. CASE Connect \/ StartHeartbeat
  BY <1>2, <1>3 DEF Connect, StartHeartbeat
<1>4. CASE UpdateEngine
  <2>1. /\ pos \in Engines /\ pos' = pos + 1 /\ phase' = phase /\ InPass
        /\ Len(stack') = 0 /\ todo' = RootsNow(pos)
    BY <1>0, <1>1, <1>4 DEF UpdateEngine, Evaluating
  <2>2. phase = "heartbeat" => \A i \in 1..Len(todo') : todo'[i] \in EvaluatedBy(pos' - 1)
    <3>1. pos' - 1 = pos
      BY <1>0, <2>1
    <3> QED
      BY <1>0, <2>1, <3>1, RootsOfHeartbeat
  <2>3. Fresh' => \A f \in Functions : cached'[f] /\ resultAge'[f] > 0 => BelowEarlyRoot(f)
    <3>1. CASE pos = Collection
      BY <1>4, <3>1 DEF UpdateEngine, ClearCache
    <3>2. CASE pos # Collection
      <4>1. UNCHANGED cacheVars /\ (Fresh' => Fresh)
        BY <1>0, <1>4, <2>1, <3>2 DEF UpdateEngine, Fresh, InPass
      <4> QED
        BY <4>1 DEF StaleAll, StaleInv, cacheVars
    <3> QED
      BY <3>1, <3>2
  <2> QED
    BY <2>1, <2>2, <2>3 DEF StaleInv
<1>5. CASE PassDone \/ Decided \/ Acts
  <2>1. /\ stack = <<>> /\ UNCHANGED <<cached, resultAge>> /\ phase' # "heartbeat"
        /\ Fresh' => Fresh
    BY <1>0, <1>5 DEF PassDone, Decided, Acts, Rest, Evaluating, Fresh, fcVars, cacheVars, InPass
  <2> QED
    BY <1>1, <2>1 DEF StaleAll, StaleInv
<1>6. CASE Disconnect
  BY <1>6 DEF Disconnect, StaleAll, StaleInv, Fresh, FnAt, fcVars, evalVars, cacheVars
<1> QED
  BY <1>3, <1>4, <1>5, <1>6 DEF Control

LEMMA StaleStep == StaleAll /\ [Next]_vars => StaleAll'
<1> SUFFICES ASSUME StaleAll, [Next]_vars PROVE StaleAll'
  OBVIOUS
<1>1. FreshInv'
  BY NextSplit, FreshEvaluation, FreshControl, FreshStutter DEF StaleAll
<1>2. CallChain'
  BY ChainStep DEF StaleAll, FreshInv, ChainInv
<1>3. CASE Evaluate
  BY <1>1, <1>2, <1>3, StaleBegins DEF StaleAll
<1>4. CASE EvaluateStep /\ Call
  BY <1>1, <1>2, <1>4, CallPlaces, StaleCalling DEF StaleAll, FreshInv
<1>5. CASE EvaluateStep /\ Return
  BY <1>1, <1>2, <1>5, ReturnPlaces, StaleReturning DEF StaleAll, FreshInv
<1>6. CASE Control
  BY <1>1, <1>2, <1>6, StaleControl DEF StaleAll
<1>7. CASE UNCHANGED vars
  BY <1>1, <1>2, <1>7 DEF StaleAll, StaleInv, Fresh, FnAt, vars, fcVars, evalVars,
     cacheVars, passVars
<1> QED
  BY <1>3, <1>4, <1>5, <1>6, <1>7, NextSplit DEF EvaluateStep

LEMMA StaleInit == Init => StaleAll
BY FreshInit, ChainInit DEF StaleAll, StaleInv, ChainInv, Init, Fresh

(* For every bot: only a function that an engine asked for too early, or one *)
(* that uses such a function, gives a decision something older than the      *)
(* heartbeat it belongs to.                                                  *)
THEOREM StaleOnlyFromEarlyRoots == Spec => []StaleOnlyBelowEarlyRoots
<1>1. StaleAll => StaleOnlyBelowEarlyRoots
  BY DEF StaleAll, StaleInv, Fresh, StaleOnlyBelowEarlyRoots
<1> QED
  BY <1>1, StaleInit, StaleStep, PTL DEF Spec

-----------------------------------------------------------------------------
(* What engines evaluate in a heartbeat, and everything below it.            *)
Early == UNION {EvaluatedBy(e) : e \in Engines}

LEMMA EarlyCalls == ASSUME NEW f \in Early PROVE f \in Functions /\ Calls[f] \subseteq Early
BY EvaluatedCalls DEF Early

(* The functions of the activations after a call and after a return.         *)
LEMMA CallingFns ==
  ASSUME ChainInv, NEW g \in Functions, Calling(g)
  PROVE  /\ Len(stack) \in Nat \ {0} /\ g \in Calls[FnAt(1)]
         /\ \/ /\ Len(stack') = Len(stack)
               /\ \A i \in 1..Len(stack) : FnAt(i)' = FnAt(i)
            \/ /\ Len(stack') = Len(stack) + 1 /\ ~cached[g] /\ FnAt(1)' = g
               /\ \A i \in 1..Len(stack) : FnAt(i + 1)' = FnAt(i)
         /\ recursion_depth < MaxDepth => aborted' = aborted
         /\ UNCHANGED <<cached, ran, phase, pos, todo, events>>
<1>0. stack # <<>> /\ stack \in Seq(Frames) /\ Len(stack) \in Nat \ {0}
  BY DEF ChainInv, EvalInv, TypeOK, FunctionTypeOK, Calling
<1>1. PICK callers \in Seq(Frames) :
        /\ Len(callers) = Len(stack) /\ callers[1].fn = FnAt(1)
        /\ \A i \in 2..Len(stack) : callers[i] = stack[i]
        /\ EnterCases(g, callers)
  BY DEF Calling
<1>2. \A i \in 1..Len(stack) : callers[i].fn = FnAt(i)
  BY <1>0, <1>1 DEF FnAt
<1>3. g \in Calls[FnAt(1)]
  BY <1>0 DEF Calling, ChainInv, CallChain
<1>4. CASE stack' = callers
  BY <1>0, <1>1, <1>2, <1>3, <1>4 DEF Calling, passVars, FnAt
<1>5. CASE /\ ~cached[g] /\ Len(stack') = Len(callers) + 1
           /\ stack'[1] = [fn |-> g, left |-> Calls[g], age |-> AgeRead(g)]
           /\ \A i \in 1..Len(callers) : stack'[i + 1] = callers[i]
  <2>1. FnAt(1)' = g /\ \A i \in 1..Len(stack) : FnAt(i + 1)' = FnAt(i)
    BY <1>1, <1>2, <1>5 DEF FnAt
  <2> QED
    BY <1>0, <1>1, <1>3, <1>5, <2>1 DEF Calling, passVars
<1> QED
  BY <1>1, <1>4, <1>5 DEF EnterCases

LEMMA ReturningFns ==
  ASSUME ChainInv, Returning
  PROVE  /\ Len(stack) \in Nat \ {0} /\ Len(stack') = Len(stack) - 1
         /\ FnAt(1) \in Functions
         /\ \A i \in 1..Len(stack') : FnAt(i)' = FnAt(i + 1) /\ i + 1 \in 1..Len(stack)
         /\ cached' = [cached EXCEPT ![FnAt(1)] = TRUE]
         /\ ran' = [ran EXCEPT ![FnAt(1)] = IF @ < 2 THEN @ + 1 ELSE @]
         /\ UNCHANGED <<aborted, phase, pos, todo, events>>
<1>1. Len(stack) \in Nat \ {0} /\ Len(stack') = Len(stack) - 1
  BY DEF Returning, ChainInv, EvalInv, TypeOK, FunctionTypeOK
<1>2. \A i \in 1..Len(stack') : FnAt(i)' = FnAt(i + 1) /\ i + 1 \in 1..Len(stack)
  BY <1>1 DEF Returning, FnAt
<1>3. FnAt(1) \in Functions
  BY <1>1 DEF ChainInv, CallChain
<1> QED
  BY <1>1, <1>2, <1>3 DEF Returning, passVars

(* An early function does not run below itself, so it runs once between two  *)
(* clears of the caches: rank decreases from the outermost one inwards.      *)
OnceInv(rank) ==
  /\ \A f \in Early : ran[f] = IF cached[f] THEN 1 ELSE 0
  /\ \A i \in 1..Len(stack) : FnAt(i) \in Early => ~cached[FnAt(i)]
  /\ \A j \in 1..Len(stack) : \A i \in 1..Len(stack) :
       i < j /\ FnAt(j) \in Early =>
         FnAt(i) \in Early /\ rank[FnAt(i)] < rank[FnAt(j)]

LEMMA OnceEvaluation ==
  ASSUME NEW rank \in [Functions -> Nat], RootsNestWithin(rank),
         ChainInv, OnceInv(rank), Evaluate \/ EvaluateStep
  PROVE  OnceInv(rank)'
<1>0. \A f \in Early : \A g \in Calls[f] : g \in Early /\ rank[g] < rank[f]
  BY EarlyCalls DEF Early, RootsNestWithin
<1>1. CASE Evaluate
  <2> DEFINE f == Head(todo)
  <2>1. Begins(f) /\ UNCHANGED <<cached, ran>>
    BY <1>1, EvaluatePlaces DEF ChainInv, Begins
  <2> HIDE DEF f
  <2>2. CASE stack' = <<>>
    BY <2>1, <2>2 DEF OnceInv
  <2>3. CASE ~cached[f] /\ Len(stack') = 1 /\ stack'[1].fn = f
    BY <2>1, <2>3 DEF OnceInv, FnAt
  <2> QED
    BY <2>1, <2>2, <2>3 DEF Begins
<1>2. CASE EvaluateStep /\ Call
  <2>1. PICK g \in Functions : Calling(g)
    BY <1>2, CallPlaces DEF ChainInv
  <2>2. /\ Len(stack) \in Nat \ {0} /\ g \in Calls[FnAt(1)]
        /\ \/ /\ Len(stack') = Len(stack)
              /\ \A i \in 1..Len(stack) : FnAt(i)' = FnAt(i)
           \/ /\ Len(stack') = Len(stack) + 1 /\ ~cached[g] /\ FnAt(1)' = g
              /\ \A i \in 1..Len(stack) : FnAt(i + 1)' = FnAt(i)
        /\ UNCHANGED <<cached, ran>>
    BY <2>1, CallingFns
  <2>3. CASE /\ Len(stack') = Len(stack)
             /\ \A i \in 1..Len(stack) : FnAt(i)' = FnAt(i)
    BY <2>2, <2>3 DEF OnceInv
  <2>4. CASE /\ Len(stack') = Len(stack) + 1 /\ ~cached[g] /\ FnAt(1)' = g
             /\ \A i \in 1..Len(stack) : FnAt(i + 1)' = FnAt(i)
    <3>1. ASSUME NEW i \in 1..Len(stack'), i # 1
          PROVE  i - 1 \in 1..Len(stack) /\ FnAt(i)' = FnAt(i - 1)
      <4>1. i - 1 \in 1..Len(stack) /\ (i - 1) + 1 = i
        BY <2>2, <2>4, <3>1
      <4> QED
        BY <2>4, <4>1
    <3>2. \A i \in 1..Len(stack') : FnAt(i)' \in Early => ~cached'[FnAt(i)']
      BY <2>2, <2>4, <3>1 DEF OnceInv
    <3>3. ASSUME NEW j \in 1..Len(stack'), NEW i \in 1..Len(stack'), i < j, FnAt(j)' \in Early
          PROVE  FnAt(i)' \in Early /\ rank[FnAt(i)'] < rank[FnAt(j)']
      <4>1. j # 1 /\ j - 1 \in 1..Len(stack) /\ FnAt(j)' = FnAt(j - 1)
        BY <3>1, <3>3
      <4>2. CASE i # 1
        <5>1. i - 1 \in 1..Len(stack) /\ i - 1 < j - 1 /\ FnAt(i)' = FnAt(i - 1)
          BY <3>1, <3>3, <4>2
        <5> QED
          BY <3>3, <4>1, <5>1 DEF OnceInv
      <4>3. CASE i = 1
        <5>0. FnAt(i)' = g /\ 1 \in 1..Len(stack)
          BY <2>2, <2>4, <4>3
        <5>1. FnAt(1) \in Early /\ (j - 1 = 1 \/ rank[FnAt(1)] < rank[FnAt(j - 1)])
          BY <2>2, <3>3, <4>1 DEF OnceInv
        <5>2. g \in Early /\ rank[g] < rank[FnAt(1)]
          BY <1>0, <2>2, <5>1
        <5>3. /\ rank[g] \in Nat /\ rank[FnAt(1)] \in Nat
              /\ FnAt(j - 1) \in Early /\ rank[FnAt(j - 1)] \in Nat
          BY <3>3, <4>1, <5>1, <5>2, EarlyCalls
        <5>4. rank[g] < rank[FnAt(j - 1)]
          <6>1. CASE j - 1 = 1
            BY <5>2, <6>1
          <6>2. CASE rank[FnAt(1)] < rank[FnAt(j - 1)]
            BY <5>2, <5>3, <6>2
          <6> QED
            BY <5>1, <6>1, <6>2
        <5> QED
          BY <4>1, <5>0, <5>2, <5>4
      <4> QED
        BY <4>2, <4>3
    <3> QED
      BY <2>2, <3>2, <3>3 DEF OnceInv
  <2> QED
    BY <2>2, <2>3, <2>4
<1>3. CASE EvaluateStep /\ Return
  <2> DEFINE f == FnAt(1)
  <2>1. /\ Len(stack) \in Nat \ {0} /\ Len(stack') = Len(stack) - 1 /\ f \in Functions
        /\ \A i \in 1..Len(stack') : FnAt(i)' = FnAt(i + 1) /\ i + 1 \in 1..Len(stack)
        /\ cached' = [cached EXCEPT ![f] = TRUE]
        /\ ran' = [ran EXCEPT ![f] = IF @ < 2 THEN @ + 1 ELSE @]
    BY <1>3, ReturnPlaces, ReturningFns DEF ChainInv
  <2>2. cached \in [Functions -> BOOLEAN] /\ ran \in [Functions -> 0..2] /\ 1 \in 1..Len(stack)
    BY <2>1 DEF ChainInv, EvalInv, TypeOK, FunctionTypeOK
  <2>3. f \in Early => ~cached[f] /\ ran[f] = 0
    BY <2>2 DEF OnceInv
  <2>4. \A g \in Early : ran'[g] = IF cached'[g] THEN 1 ELSE 0
    <3> SUFFICES ASSUME NEW g \in Early PROVE ran'[g] = IF cached'[g] THEN 1 ELSE 0
      OBVIOUS
    <3>1. g \in Functions
      BY EarlyCalls
    <3>2. CASE g = f
      BY <2>1, <2>2, <2>3, <3>1, <3>2
    <3>3. CASE g # f
      BY <2>1, <2>2, <3>1, <3>3 DEF OnceInv
    <3> QED
      BY <3>2, <3>3
  <2>5. ASSUME NEW i \in 1..Len(stack'), FnAt(i)' \in Early PROVE ~cached'[FnAt(i)']
    <3>1. /\ FnAt(i)' = FnAt(i + 1) /\ i + 1 \in 1..Len(stack) /\ 1 < i + 1
          /\ FnAt(i + 1) \in Early
      BY <2>1, <2>5
    <3>2. rank[f] < rank[FnAt(i + 1)] /\ ~cached[FnAt(i + 1)]
      BY <2>2, <3>1 DEF OnceInv
    <3>3. FnAt(i + 1) \in Functions /\ rank[f] \in Nat
      BY <2>1, <3>1, EarlyCalls
    <3>4. f # FnAt(i + 1)
      BY <3>2, <3>3
    <3> QED
      BY <2>1, <2>2, <3>1, <3>2, <3>3, <3>4
  <2>6. ASSUME NEW j \in 1..Len(stack'), NEW i \in 1..Len(stack'), i < j, FnAt(j)' \in Early
        PROVE  FnAt(i)' \in Early /\ rank[FnAt(i)'] < rank[FnAt(j)']
    <3>1. /\ FnAt(i)' = FnAt(i + 1) /\ i + 1 \in 1..Len(stack)
          /\ FnAt(j)' = FnAt(j + 1) /\ j + 1 \in 1..Len(stack) /\ i + 1 < j + 1
      BY <2>1, <2>6
    <3> QED
      BY <2>6, <3>1 DEF OnceInv
  <2> QED
    BY <2>4, <2>5, <2>6 DEF OnceInv
<1> QED
  BY <1>1, <1>2, <1>3 DEF EvaluateStep

LEMMA OnceControl ==
  ASSUME NEW rank, ChainInv, OnceInv(rank), Control
  PROVE  OnceInv(rank)'
<1>1. stack' = stack
  BY ControlKeepsEvaluation DEF evalVars
<1>2. \/ UNCHANGED <<cached, ran>>
      \/ /\ stack = <<>>
         /\ cached' = [f \in Functions |-> FALSE] /\ ran' = [f \in Functions |-> 0]
  BY DEF Control, Connect, Disconnect, StartHeartbeat, NewPass, UpdateEngine, PassDone,
         Decided, Acts, fcVars, cacheVars, ClearCache, Evaluating
<1>3. CASE UNCHANGED <<cached, ran>>
  BY <1>1, <1>3 DEF OnceInv, FnAt
<1>4. CASE /\ stack = <<>>
           /\ cached' = [f \in Functions |-> FALSE] /\ ran' = [f \in Functions |-> 0]
  <2>1. \A f \in Early : ran'[f] = 0 /\ ~cached'[f]
    BY <1>4, EarlyCalls
  <2>2. Len(stack') = 0
    BY <1>1, <1>4
  <2> QED
    BY <2>1, <2>2 DEF OnceInv
<1> QED
  BY <1>2, <1>3, <1>4

(* There is room for every activation that an engine's evaluation can still  *)
(* need: nothing is refused in a heartbeat.                                  *)
Room(rank) ==
  phase = "heartbeat" =>
    /\ aborted < MaxAborts
    /\ \A i \in 1..Len(stack) :
         rank[FnAt(i)] + (Len(stack) - i) + 2 * MaxAborts <= MaxDepth + 1

(* Functions an engine has asked for and not got an answer to yet.           *)
Pending(f) == \/ \E k \in 1..Len(todo) : todo[k] = f
              \/ stack # <<>> /\ FnAt(Len(stack)) = f

(* What this pass triggered has been computed, or is still to be.            *)
RootsDone ==
  \A e \in Engines : \A h \in events : \A i \in 1..Len(Roots[e][h]) :
    /\ phase = "heartbeat" /\ e < pos =>
         cached[Roots[e][h][i]] \/ Pending(Roots[e][h][i])
    /\ phase \in {"decision", "decided"} => cached[Roots[e][h][i]]

RoomAll(rank) == StaleAll /\ Room(rank)

LEMMA RankedRoots ==
  ASSUME NEW rank \in [Functions -> Nat], RootsNestWithin(rank),
         NEW e \in Engines, NEW f \in EvaluatedBy(e)
  PROVE  /\ f \in Functions /\ rank[f] \in Nat
         /\ rank[f] + 2 * MaxAborts <= MaxDepth + 1
         /\ \A g \in Calls[f] : /\ g \in EvaluatedBy(e)
                                /\ rank[g] \in Nat /\ rank[g] < rank[f]
<1>1. f \in Functions /\ Calls[f] \subseteq EvaluatedBy(e)
  BY EvaluatedCalls
<1>2. \A g \in Calls[f] : g \in Functions
  BY <1>1, FunctionAssumption
<1> QED
  BY <1>1, <1>2 DEF RootsNestWithin

(* No evaluation of a heartbeat comes to the recursion limit.                *)
LEMMA NothingRefused ==
  ASSUME NEW rank \in [Functions -> Nat], RootsNestWithin(rank), RoomAll(rank),
         Evaluate \/ (EvaluateStep /\ Call), phase = "heartbeat"
  PROVE  recursion_depth < MaxDepth
<1>0. /\ MaxAborts \in Nat /\ MaxDepth \in Nat /\ recursion_depth \in Nat
      /\ aborted \in Nat /\ Len(stack) \in Nat /\ aborted < MaxAborts
      /\ recursion_depth = Len(stack) + 2 * aborted
      /\ stack \in Seq(Frames) /\ todo \in Seq(Functions)
  BY ContainerAssumption, FunctionAssumption
     DEF RoomAll, Room, StaleAll, FreshInv, EvalInv, TypeOK, FunctionTypeOK,
         DepthCountsRefusals
<1>1. pos - 1 \in Engines
  BY EvaluatesLate DEF RoomAll, StaleAll, EvaluateStep
<1>2. CASE Evaluate
  <2>1. stack = <<>> /\ 1 \in 1..Len(todo)
    BY <1>0, <1>2 DEF Evaluate, Ask, Evaluating
  <2>2. todo[1] \in EvaluatedBy(pos - 1)
    BY <2>1 DEF RoomAll, StaleAll, StaleInv
  <2>3. rank[todo[1]] \in Nat /\ rank[todo[1]] + 2 * MaxAborts <= MaxDepth + 1
    BY <1>1, <2>2, RankedRoots
  <2>4. Len(stack) = 0
    BY <2>1
  <2> QED
    BY <1>0, <2>3, <2>4
<1>3. CASE EvaluateStep /\ Call
  <2>1. PICK g \in Functions : Calling(g)
    BY <1>3, CallPlaces DEF RoomAll, StaleAll, FreshInv
  <2>2. Len(stack) \in Nat \ {0} /\ g \in Calls[FnAt(1)] /\ 1 \in 1..Len(stack)
    BY <1>0, <2>1, CallingFns DEF ChainInv, RoomAll, StaleAll, FreshInv
  <2>3. FnAt(1) \in EvaluatedBy(pos - 1)
    BY <2>2 DEF RoomAll, StaleAll, StaleInv
  <2>4. rank[FnAt(1)] \in Nat /\ rank[g] \in Nat /\ rank[g] < rank[FnAt(1)]
    BY <1>1, <2>2, <2>3, RankedRoots
  <2>5. rank[FnAt(1)] + (Len(stack) - 1) + 2 * MaxAborts <= MaxDepth + 1
    BY <2>2 DEF RoomAll, Room
  <2> QED
    BY <1>0, <2>4, <2>5
<1> QED
  BY <1>2, <1>3

LEMMA RoomStep ==
  ASSUME NEW rank \in [Functions -> Nat], RootsNestWithin(rank), RoomAll(rank), [Next]_vars
  PROVE  Room(rank)'
<1>0. /\ MaxAborts \in Nat /\ MaxDepth \in Nat /\ aborted \in Nat
      /\ Len(stack) \in Nat /\ stack \in Seq(Frames) /\ todo \in Seq(Functions)
      /\ ChainInv
  BY ContainerAssumption, FunctionAssumption
     DEF RoomAll, StaleAll, FreshInv, EvalInv, TypeOK, FunctionTypeOK, ChainInv
<1>1. CASE Evaluate
  <2> DEFINE f == Head(todo)
  <2>1. Begins(f) /\ phase' = phase /\ f = todo[1] /\ 1 \in 1..Len(todo)
    BY <1>0, <1>1, EvaluatePlaces DEF ChainInv, Evaluate
  <2> HIDE DEF f
  <2> SUFFICES ASSUME phase = "heartbeat" PROVE Room(rank)'
    BY <2>1 DEF Room
  <2>2. aborted' = aborted /\ aborted < MaxAborts
    BY <1>1, <2>1, NothingRefused DEF Begins, RoomAll, Room
  <2>3. f \in EvaluatedBy(pos - 1) /\ pos - 1 \in Engines
    BY <1>1, <2>1, EvaluatesLate DEF RoomAll, StaleAll, StaleInv
  <2>4. rank[f] \in Nat /\ rank[f] + 2 * MaxAborts <= MaxDepth + 1
    BY <2>3, RankedRoots
  <2>5. CASE stack' = <<>>
    BY <2>2, <2>5 DEF Room
  <2>6. CASE Len(stack') = 1 /\ stack'[1].fn = f
    BY <1>0, <2>2, <2>4, <2>6 DEF Room, FnAt
  <2> QED
    BY <2>1, <2>5, <2>6 DEF Begins
<1>2. CASE EvaluateStep /\ Call
  <2>1. PICK g \in Functions : Calling(g)
    BY <1>0, <1>2, CallPlaces DEF ChainInv
  <2>2. /\ Len(stack) \in Nat \ {0} /\ g \in Calls[FnAt(1)]
        /\ \/ /\ Len(stack') = Len(stack)
              /\ \A i \in 1..Len(stack) : FnAt(i)' = FnAt(i)
           \/ /\ Len(stack') = Len(stack) + 1 /\ FnAt(1)' = g
              /\ \A i \in 1..Len(stack) : FnAt(i + 1)' = FnAt(i)
        /\ recursion_depth < MaxDepth => aborted' = aborted
        /\ phase' = phase
    BY <1>0, <2>1, CallingFns
  <2> SUFFICES ASSUME phase = "heartbeat" PROVE Room(rank)'
    BY <2>2 DEF Room
  <2>3. aborted' = aborted /\ aborted < MaxAborts
    BY <1>2, <2>2, NothingRefused DEF RoomAll, Room
  <2>4. \A i \in 1..Len(stack) :
          rank[FnAt(i)] + (Len(stack) - i) + 2 * MaxAborts <= MaxDepth + 1
    BY DEF RoomAll, Room
  <2>5. CASE /\ Len(stack') = Len(stack)
             /\ \A i \in 1..Len(stack) : FnAt(i)' = FnAt(i)
    BY <2>3, <2>4, <2>5 DEF Room
  <2>6. CASE /\ Len(stack') = Len(stack) + 1 /\ FnAt(1)' = g
             /\ \A i \in 1..Len(stack) : FnAt(i + 1)' = FnAt(i)
    <3>1. FnAt(1) \in EvaluatedBy(pos - 1) /\ pos - 1 \in Engines
      BY <1>2, <2>2, EvaluatesLate DEF RoomAll, StaleAll, StaleInv
    <3>2. rank[FnAt(1)] \in Nat /\ rank[g] \in Nat /\ rank[g] < rank[FnAt(1)]
      BY <2>2, <3>1, RankedRoots
    <3>3. rank[FnAt(1)] + (Len(stack) - 1) + 2 * MaxAborts <= MaxDepth + 1
      BY <2>2, <2>4
    <3> SUFFICES ASSUME NEW i \in 1..Len(stack')
                 PROVE  rank[FnAt(i)'] + (Len(stack') - i) + 2 * MaxAborts <= MaxDepth + 1
      BY <2>3 DEF Room
    <3>4. CASE i = 1
      <4>1. FnAt(i)' = g /\ Len(stack') - i = Len(stack)
        BY <2>2, <2>6, <3>4
      <4> QED
        BY <1>0, <3>2, <3>3, <4>1
    <3>5. CASE i # 1
      <4>1. i - 1 \in 1..Len(stack) /\ (i - 1) + 1 = i /\ Len(stack') - i = Len(stack) - (i - 1)
        BY <2>2, <2>6, <3>5
      <4>2. FnAt(i)' = FnAt(i - 1)
        BY <2>6, <4>1
      <4> QED
        BY <2>4, <4>1, <4>2
    <3> QED
      BY <3>4, <3>5
  <2> QED
    BY <2>2, <2>5, <2>6
<1>3. CASE EvaluateStep /\ Return
  <2>1. /\ Len(stack) \in Nat \ {0} /\ Len(stack') = Len(stack) - 1
        /\ \A i \in 1..Len(stack') : FnAt(i)' = FnAt(i + 1) /\ i + 1 \in 1..Len(stack)
        /\ UNCHANGED <<aborted, phase>>
    BY <1>0, <1>3, ReturnPlaces, ReturningFns DEF ChainInv
  <2>2. \A i \in 1..Len(stack') : Len(stack') - i = Len(stack) - (i + 1)
    BY <2>1
  <2> QED
    BY <2>1, <2>2 DEF RoomAll, Room
<1>4. CASE Control
  <2>1. UNCHANGED <<stack, aborted>>
    BY <1>4, ControlKeepsEvaluation DEF evalVars
  <2>2. CASE phase' = "heartbeat" /\ phase = "heartbeat"
    BY <2>1, <2>2 DEF RoomAll, Room, FnAt
  <2>3. CASE phase' = "heartbeat" /\ phase # "heartbeat"
    <3>1. stack = <<>> /\ aborted < MaxAborts
      BY <1>4, <2>3 DEF Control, Connect, Disconnect, StartHeartbeat, NewPass, Rest,
         Evaluating, UpdateEngine, PassDone, Decided, Acts
    <3>2. Len(stack') = 0
      BY <2>1, <3>1
    <3> QED
      BY <2>1, <3>1, <3>2 DEF Room
  <2> QED
    BY <2>2, <2>3 DEF Room
<1>5. CASE UNCHANGED vars
  BY <1>5 DEF RoomAll, Room, FnAt, vars, fcVars, evalVars, passVars
<1> QED
  BY <1>1, <1>2, <1>3, <1>4, <1>5, NextSplit DEF EvaluateStep

LEMMA DoneEvaluation ==
  ASSUME NEW rank \in [Functions -> Nat], RootsNestWithin(rank), RoomAll(rank), RootsDone,
         Evaluate \/ EvaluateStep
  PROVE  RootsDone'
<1>0. /\ Len(stack) \in Nat /\ stack \in Seq(Frames) /\ todo \in Seq(Functions)
      /\ cached \in [Functions -> BOOLEAN] /\ ChainInv
  BY DEF RoomAll, StaleAll, FreshInv, EvalInv, TypeOK, FunctionTypeOK, ChainInv
<1>1. CASE Evaluate
  <2>0. PICK f : f = Head(todo)
    OBVIOUS
  <2>1. /\ Begins(f) /\ UNCHANGED <<phase, pos, events, cached>> /\ f = todo[1]
        /\ todo # <<>> /\ todo' = Tail(todo)
    BY <1>0, <1>1, <2>0, EvaluatePlaces DEF ChainInv, Evaluate, Begins
  <2>2. \A k \in 1..Len(todo) : k = 1 \/ \E j \in 1..Len(todo') : todo'[j] = todo[k]
    <3> SUFFICES ASSUME NEW k \in 1..Len(todo), k # 1
                 PROVE  \E j \in 1..Len(todo') : todo'[j] = todo[k]
      OBVIOUS
    <3>1. /\ Len(todo') = Len(todo) - 1
          /\ \A j \in 1..Len(todo') : todo'[j] = todo[j + 1]
      BY <1>0, <2>1, HeadTailProperties
    <3>2. k - 1 \in 1..Len(todo') /\ (k - 1) + 1 = k
      BY <1>0, <3>1
    <3> QED
      BY <3>1, <3>2
  <2>3. phase = "heartbeat" => cached[f] \/ Pending(f)'
    <3> SUFFICES ASSUME phase = "heartbeat", ~cached[f] PROVE Pending(f)'
      OBVIOUS
    <3>1. recursion_depth < MaxDepth
      BY <1>1, NothingRefused
    <3>2. Len(stack') = 1 /\ stack'[1].fn = f /\ stack' # <<>>
      BY <2>1, <3>1 DEF Begins
    <3> QED
      BY <3>2 DEF Pending, FnAt
  <2>4. phase = "heartbeat" => \A g : Pending(g) => cached[g] \/ Pending(g)'
    <3> SUFFICES ASSUME phase = "heartbeat", NEW g, Pending(g)
                 PROVE  cached[g] \/ Pending(g)'
      OBVIOUS
    <3>1. PICK k \in 1..Len(todo) : todo[k] = g
      BY <2>1 DEF Pending, Begins
    <3>2. CASE k = 1
      BY <2>1, <2>3, <3>1, <3>2
    <3>3. CASE k # 1
      BY <2>2, <3>1, <3>3 DEF Pending
    <3> QED
      BY <3>2, <3>3
  <2> QED
    BY <2>1, <2>4 DEF RootsDone
<1>2. CASE EvaluateStep /\ Call
  <2>1. PICK g \in Functions : Calling(g)
    BY <1>0, <1>2, CallPlaces DEF ChainInv
  <2>2. /\ Len(stack) \in Nat \ {0}
        /\ \/ /\ Len(stack') = Len(stack)
              /\ \A i \in 1..Len(stack) : FnAt(i)' = FnAt(i)
           \/ /\ Len(stack') = Len(stack) + 1
              /\ \A i \in 1..Len(stack) : FnAt(i + 1)' = FnAt(i)
        /\ UNCHANGED <<cached, phase, pos, todo, events>>
    BY <1>0, <2>1, CallingFns
  <2>3. stack' # <<>> /\ stack'[Len(stack')].fn = FnAt(Len(stack))
    <3>1. Len(stack') > 0 /\ Len(stack) \in 1..Len(stack)
      BY <2>2
    <3>2. \A i \in 1..Len(stack) : \/ Len(stack') = Len(stack) /\ stack'[i].fn = FnAt(i)
                                   \/ Len(stack') = Len(stack) + 1 /\ stack'[i + 1].fn = FnAt(i)
      BY <2>2 DEF FnAt
    <3> QED
      BY <3>1, <3>2
  <2>4. ASSUME NEW f, Pending(f) PROVE Pending(f)'
    BY <2>2, <2>3, <2>4 DEF Pending, FnAt
  <2> QED
    BY <2>2, <2>4 DEF RootsDone
<1>3. CASE EvaluateStep /\ Return
  <2>1. /\ Len(stack) \in Nat \ {0} /\ Len(stack') = Len(stack) - 1 /\ FnAt(1) \in Functions
        /\ \A i \in 1..Len(stack') : FnAt(i)' = FnAt(i + 1) /\ i + 1 \in 1..Len(stack)
        /\ cached' = [cached EXCEPT ![FnAt(1)] = TRUE]
        /\ UNCHANGED <<phase, pos, todo, events>>
    BY <1>0, <1>3, ReturnPlaces, ReturningFns DEF ChainInv
  <2>2. cached'[FnAt(1)] /\ \A f \in Functions : cached[f] => cached'[f]
    BY <1>0, <2>1
  <2>3. \A f : Pending(f) => cached'[f] \/ Pending(f)'
    <3>1. CASE Len(stack) = 1
      BY <2>1, <2>2, <3>1 DEF Pending
    <3>2. CASE Len(stack) > 1
      <4>1. Len(stack') \in 1..Len(stack') /\ Len(stack') + 1 = Len(stack) /\ stack' # <<>>
        BY <2>1, <3>2
      <4>2. stack'[Len(stack')].fn = FnAt(Len(stack))
        <5>1. \A i \in 1..Len(stack') : stack'[i].fn = FnAt(i + 1)
          BY <2>1 DEF FnAt
        <5> QED
          BY <4>1, <5>1
      <4> QED
        BY <2>1, <4>1, <4>2 DEF Pending, FnAt
    <3> QED
      BY <2>1, <3>1, <3>2
  <2>4. \A e \in Engines : \A h \in events : \A i \in 1..Len(Roots[e][h]) :
          Roots[e][h][i] \in Functions
    <3>1. events \subseteq Events
      BY DEF RoomAll, StaleAll, FreshInv, EvalInv, TypeOK
    <3> QED
      BY <3>1, EvaluatedRoots, EvaluatedCalls
  <2> QED
    BY <2>1, <2>2, <2>3, <2>4 DEF RootsDone
<1> QED
  BY <1>1, <1>2, <1>3 DEF EvaluateStep

LEMMA DoneControl ==
  ASSUME FreshInv, RootsDone, Control
  PROVE  RootsDone'
<1>0. /\ NumEngines \in Nat \ {0} /\ Engines = 1..NumEngines /\ Collection \in Engines
      /\ pos \in 1..(NumEngines + 1) /\ events \subseteq Events
      /\ Events \subseteq Hooks
  BY ContainerAssumption DEF FreshInv, EvalInv, TypeOK, Hooks
<1>1. CASE Connect \/ StartHeartbeat
  <2>1. pos' = 1 /\ phase' \in {"connection", "heartbeat"}
    BY <1>1 DEF Connect, StartHeartbeat, NewPass
  <2> QED
    BY <1>0, <2>1 DEF RootsDone
<1>2. CASE UpdateEngine
  <2>1. /\ stack = <<>> /\ todo = <<>> /\ pos \in Engines /\ pos' = pos + 1
        /\ todo' = RootsNow(pos) /\ InPass /\ UNCHANGED <<phase, events>>
    BY <1>0, <1>2 DEF UpdateEngine, Evaluating
  <2> SUFFICES ASSUME NEW e \in Engines, NEW h \in events, NEW i \in 1..Len(Roots[e][h]),
                      phase = "heartbeat", e < pos'
               PROVE  cached'[Roots[e][h][i]] \/ Pending(Roots[e][h][i])'
    BY <2>1 DEF RootsDone, InPass
  <2>2. CASE e = pos
    <3>1. \E k \in 1..Len(todo') : todo'[k] = Roots[e][h][i]
      BY <1>0, <2>1, <2>2, RootsOfHeartbeat
    <3> QED
      BY <3>1 DEF Pending
  <2>3. CASE e # pos /\ pos = Collection
    <3>1. e <= Collection /\ h \in Hooks
      BY <1>0, <2>1, <2>3
    <3>2. Len(Roots[e][h]) = 0
      BY <3>1, RootsAfterCollection
    <3> QED
      BY <3>2
  <2>4. CASE e # pos /\ pos # Collection
    <3>1. e < pos /\ cached' = cached
      BY <1>0, <1>2, <2>1, <2>4 DEF UpdateEngine, cacheVars
    <3>2. ~Pending(Roots[e][h][i])
      BY <2>1 DEF Pending
    <3> QED
      BY <3>1, <3>2 DEF RootsDone
  <2> QED
    BY <2>2, <2>3, <2>4
<1>3. CASE PassDone
  <2>1. /\ stack = <<>> /\ todo = <<>> /\ pos = NumEngines + 1
        /\ UNCHANGED <<cached, events>>
        /\ phase' = IF phase = "heartbeat" THEN "decision" ELSE "idle"
    BY <1>3 DEF PassDone, Evaluating, fcVars, cacheVars
  <2>2. \A f : ~Pending(f)
    BY <2>1 DEF Pending
  <2>3. \A e \in Engines : e < pos
    BY <1>0, <2>1
  <2> QED
    BY <2>1, <2>2, <2>3 DEF RootsDone
<1>4. CASE Disconnect \/ Decided \/ Acts
  <2>1. /\ UNCHANGED <<cached, events>> /\ phase' # "heartbeat"
        /\ phase' \in {"decision", "decided"} => phase \in {"decision", "decided"}
    BY <1>4 DEF Disconnect, Decided, Acts, Rest, fcVars, cacheVars
  <2> QED
    BY <2>1 DEF RootsDone
<1> QED
  BY <1>1, <1>2, <1>3, <1>4 DEF Control

OnceAll(rank) == RoomAll(rank) /\ OnceInv(rank) /\ RootsDone

LEMMA OnceInit ==
  ASSUME NEW rank, Init
  PROVE  OnceAll(rank)
<1>1. StaleAll
  BY StaleInit
<1>2. Len(stack) = 0 /\ phase = "idle"
  BY DEF Init, FunctionInit
<1>3. \A f \in Early : ran[f] = 0 /\ ~cached[f]
  BY EarlyCalls DEF Init, FunctionInit
<1> QED
  BY <1>1, <1>2, <1>3 DEF OnceAll, RoomAll, Room, OnceInv, RootsDone

LEMMA OnceStep ==
  ASSUME NEW rank \in [Functions -> Nat], RootsNestWithin(rank), OnceAll(rank), [Next]_vars
  PROVE  OnceAll(rank)'
<1>0. StaleAll /\ RoomAll(rank) /\ ChainInv /\ FreshInv /\ OnceInv(rank) /\ RootsDone
  BY DEF OnceAll, RoomAll, StaleAll, ChainInv, FreshInv
<1>1. RoomAll(rank)'
  BY <1>0, StaleStep, RoomStep DEF RoomAll
<1>2. CASE Evaluate \/ EvaluateStep
  BY <1>0, <1>1, <1>2, OnceEvaluation, DoneEvaluation DEF OnceAll
<1>3. CASE Control
  BY <1>0, <1>1, <1>3, OnceControl, DoneControl DEF OnceAll
<1>4. CASE UNCHANGED vars
  <2>1. UNCHANGED <<stack, todo, cached, ran, phase, pos, events>>
    BY <1>4 DEF vars, fcVars, evalVars, cacheVars, passVars
  <2>2. OnceInv(rank)'
    BY <1>0, <2>1 DEF OnceInv, FnAt
  <2>3. RootsDone'
    BY <1>0, <2>1 DEF RootsDone, Pending, FnAt
  <2> QED
    BY <1>1, <2>2, <2>3 DEF OnceAll
<1> QED
  BY <1>2, <1>3, <1>4, NextSplit

(* For every bot whose functions below the roots of the pass nest within the *)
(* recursion limit: what a new hand, a new round or the user's turn triggers *)
(* has run exactly once when a decision is made, though what it uses may be  *)
(* shared with earlier roots, and the decision itself may recurse endlessly. *)
THEOREM EventFunctionsRun ==
  ASSUME NEW CONSTANT rank \in [Functions -> Nat], RootsNestWithin(rank)
  PROVE  Spec => []EventFunctionsRanOnce
<1>1. Init => OnceAll(rank)
  BY OnceInit
<1>2. OnceAll(rank) /\ [Next]_vars => OnceAll(rank)'
  BY OnceStep
<1>3. OnceAll(rank) => EventFunctionsRanOnce
  <2> SUFFICES ASSUME OnceAll(rank), phase \in {"decision", "decided"},
                      NEW e \in Engines, NEW h \in events, NEW i \in 1..Len(Roots[e][h])
               PROVE  ran[Roots[e][h][i]] = 1
    BY DEF EventFunctionsRanOnce
  <2>1. h \in Events
    BY DEF OnceAll, RoomAll, StaleAll, FreshInv, EvalInv, TypeOK
  <2>2. Roots[e][h][i] \in Early
    BY <2>1, EvaluatedRoots DEF Early
  <2>3. cached[Roots[e][h][i]]
    BY DEF OnceAll, RootsDone
  <2> QED
    BY <2>2, <2>3 DEF OnceAll, OnceInv
<1> QED
  BY <1>1, <1>2, <1>3, PTL DEF Spec

(* What an engine evaluates in a heartbeat is never cut off: the limit of    *)
(* recursion_depth, worn down by refusals in earlier decisions, still holds  *)
(* every activation below it.                                                *)
THEOREM HeartbeatNeverRefused ==
  ASSUME NEW CONSTANT rank \in [Functions -> Nat], RootsNestWithin(rank)
  PROVE  Spec => NoRefusalInHeartbeat
<1>1. Init => OnceAll(rank)
  BY OnceInit
<1>2. OnceAll(rank) /\ [Next]_vars => OnceAll(rank)'
  BY OnceStep
<1>3. OnceAll(rank) /\ [Next]_vars => [phase = "heartbeat" => aborted' = aborted]_vars
  <2> SUFFICES ASSUME OnceAll(rank), Next, phase = "heartbeat"
               PROVE  aborted' = aborted
    OBVIOUS
  <2>1. RoomAll(rank) /\ EvalInv /\ ChainInv
    BY DEF OnceAll, RoomAll, StaleAll, FreshInv, ChainInv
  <2>2. CASE Evaluate
    BY <2>1, <2>2, NothingRefused, EvaluatePlaces DEF Begins
  <2>3. CASE EvaluateStep /\ Call
    BY <2>1, <2>3, NothingRefused, CallPlaces DEF Calling
  <2>4. CASE EvaluateStep /\ Return
    BY <2>4 DEF Return
  <2>5. CASE Control
    BY <2>5, ControlKeepsEvaluation DEF evalVars
  <2> QED
    BY <2>2, <2>3, <2>4, <2>5, NextSplit DEF EvaluateStep
<1> QED
  BY <1>1, <1>2, <1>3, PTL DEF Spec, NoRefusalInHeartbeat

-----------------------------------------------------------------------------
(* A call enters a function that the innermost activation mentions.          *)
LEMMA CallEnters ==
  ASSUME EvalInv, EvaluateStep /\ Call
  PROVE  \E g \in Functions, callers \in Seq(Frames) :
           /\ stack # <<>> /\ g \in stack[1].left /\ Enter(g, callers)
           /\ Len(callers) = Len(stack)
           /\ \A i \in 1..Len(stack) : callers[i].fn = FnAt(i)
           /\ callers[1].left = stack[1].left \ {g}
           /\ \A i \in 2..Len(stack) : callers[i] = stack[i]
<1>0. stack \in Seq(Frames) /\ stack # <<>>
  BY DEF EvalInv, TypeOK, FunctionTypeOK, Call, EvaluateStep, Evaluating
<1>1. PICK g \in Head(stack).left :
        Enter(g, AfterCall(g, IF cached[g] /\ recursion_depth < MaxDepth
                                THEN resultAge[g] ELSE 0))
  BY DEF Call
<1>2. 1 \in 1..Len(stack) /\ Head(stack) = stack[1] /\ stack[1] \in Frames
  BY <1>0
<1>3. g \in Functions
  BY <1>1, <1>2 DEF Frames
<1> DEFINE m == IF cached[g] /\ recursion_depth < MaxDepth THEN resultAge[g] ELSE 0
<1>4. m \in 0..2
  BY <1>3, FramesAreUpToTwo DEF EvalInv, TypeOK, FunctionTypeOK
<1>5. Enter(g, AfterCall(g, m))
  BY <1>1
<1> HIDE DEF m
<1>6. AfterCall(g, m) \in Seq(Frames) /\ Len(AfterCall(g, m)) = Len(stack)
  BY <1>0, <1>4, FramesAreUpToTwo, AfterCallType DEF Evaluating
<1>7. /\ \A i \in 1..Len(stack) : AfterCall(g, m)[i].fn = FnAt(i)
      /\ AfterCall(g, m)[1].left = stack[1].left \ {g}
      /\ \A i \in 2..Len(stack) : AfterCall(g, m)[i] = stack[i]
  BY <1>0, <1>2 DEF AfterCall, FnAt
<1> QED
  BY <1>0, <1>1, <1>2, <1>3, <1>5, <1>6, <1>7

(* However far refusals have moved the counter: it never lets activations    *)
(* nest deeper than kMaxRecursionDepth, which protects the native stack.     *)
NestingIsBounded == Len(stack) <= MaxDepth

LEMMA NestingStep ==
  ASSUME EvalInv, NestingIsBounded, [Next]_vars
  PROVE  NestingIsBounded'
<1>0. /\ stack \in Seq(Frames) /\ Len(stack) \in Nat /\ recursion_depth \in Nat
      /\ aborted \in Nat /\ MaxDepth \in Nat /\ Len(stack) <= recursion_depth
  BY FunctionAssumption DEF EvalInv, TypeOK, FunctionTypeOK, DepthCountsRefusals
<1>1. ASSUME NEW f \in Functions, NEW callers \in Seq(Frames), Enter(f, callers),
             Len(callers) = Len(stack)
      PROVE  NestingIsBounded'
  <2>1. EnterCases(f, callers)
    BY <1>0, <1>1, EnterPlaces
  <2>2. CASE stack' = callers
    BY <1>1, <2>2 DEF NestingIsBounded
  <2>3. CASE stack' # callers
    <3>1. recursion_depth < MaxDepth /\ Len(stack') = Len(stack) + 1
      BY <1>1, <2>1, <2>3 DEF EnterCases, Enter, EnterCached, EnterBody, EnterTooDeep
    <3> QED
      BY <1>0, <3>1, FunctionAssumption DEF NestingIsBounded
  <2> QED
    BY <2>2, <2>3
<1>2. CASE Evaluate
  <2>1. Enter(Head(todo), <<>>) /\ stack = <<>> /\ Head(todo) \in Functions
    BY <1>2 DEF Evaluate, Ask, Evaluating, EvalInv, TypeOK
  <2>2. <<>> \in Seq(Frames)
    OBVIOUS
  <2> QED
    BY <1>1, <2>1, <2>2
<1>3. CASE EvaluateStep /\ Call
  <2> QED
    BY <1>1, <1>3, CallEnters
<1>4. CASE EvaluateStep /\ Return
  <2>1. Len(stack') = Len(stack) - 1
    BY <1>4, ReturnPlaces DEF Returning
  <2> QED
    BY <1>0, <2>1 DEF NestingIsBounded
<1>5. CASE Control \/ UNCHANGED vars
  <2>1. stack' = stack
    BY <1>5, ControlKeepsEvaluation DEF evalVars, fcVars, vars
  <2> QED
    BY <2>1 DEF NestingIsBounded
<1> QED
  BY <1>2, <1>3, <1>4, <1>5, NextSplit DEF EvaluateStep

LEMMA NestingInit == Init => NestingIsBounded
<1> SUFFICES ASSUME Init PROVE NestingIsBounded
  OBVIOUS
<1>1. Len(stack) = 0 /\ MaxDepth \in Nat
  BY FunctionAssumption DEF Init, FunctionInit
<1> QED
  BY <1>1 DEF NestingIsBounded

(* For every bot, endless recursion included, CFunction::Evaluate is active  *)
(* at most kMaxRecursionDepth times at once.                                 *)
THEOREM NestingBounded == Spec => []NestingIsBounded
<1>1. EvalInv /\ NestingIsBounded /\ [Next]_vars => NestingIsBounded'
  BY NestingStep
<1> QED
  BY <1>1, NestingInit, EvalInvariant, PTL DEF Spec

(* So many evaluations were refused that the counter at rest is at its limit.*)
Exhausted == 2 * aborted >= MaxDepth

(* Whatever is asked for is then refused, cached results included, and       *)
(* nothing but the bodies already under way will still be computed.          *)
OnlyRefuses ==
  Exhausted => /\ Exhausted'
               /\ Evaluate => aborted' = aborted + 1 /\ stack' = <<>>
               /\ EvaluateStep /\ Call => aborted' = aborted + 1
               /\ Len(stack') <= Len(stack)

LEMMA ExhaustedEnter ==
  ASSUME EvalInv, Exhausted, NEW f, NEW callers, Enter(f, callers)
  PROVE  aborted' = aborted + 1 /\ stack' = callers
<1>1. recursion_depth >= MaxDepth /\ recursion_depth \in Nat /\ MaxDepth \in Nat
  BY FunctionAssumption
     DEF EvalInv, TypeOK, FunctionTypeOK, DepthCountsRefusals, Exhausted
<1> QED
  BY <1>1 DEF Enter, EnterCached, EnterBody, EnterTooDeep

LEMMA ExhaustedStep == EvalInv /\ [Next]_vars => [OnlyRefuses]_vars
<1> SUFFICES ASSUME EvalInv, Next, Exhausted PROVE OnlyRefuses
  BY DEF OnlyRefuses
<1>0. /\ stack \in Seq(Frames) /\ Len(stack) \in Nat /\ aborted \in Nat
      /\ MaxDepth \in Nat
  BY FunctionAssumption DEF EvalInv, TypeOK, FunctionTypeOK
<1>1. CASE Evaluate
  <2>1. aborted' = aborted + 1 /\ stack' = <<>> /\ stack = <<>>
    BY <1>1, ExhaustedEnter DEF Evaluate, Ask, Evaluating
  <2>2. ~(EvaluateStep /\ Call)
    BY <2>1 DEF Call, Evaluating
  <2> QED
    BY <1>0, <2>1, <2>2 DEF OnlyRefuses, Exhausted
<1>2. CASE EvaluateStep /\ Call
  <2>1. PICK g \in Functions, callers \in Seq(Frames) :
          Enter(g, callers) /\ Len(callers) = Len(stack)
    BY <1>2, CallEnters
  <2>2. aborted' = aborted + 1 /\ Len(stack') = Len(stack)
    BY <2>1, ExhaustedEnter
  <2>3. ~Evaluate
    BY <1>2 DEF Evaluate, Ask, Call
  <2> QED
    BY <1>0, <2>2, <2>3 DEF OnlyRefuses, Exhausted
<1>3. CASE EvaluateStep /\ Return
  <2>1. aborted' = aborted /\ stack # <<>>
    BY <1>3 DEF Return, Evaluating
  <2>2. Len(stack') <= Len(stack)
    BY <1>0, <1>3, <2>1 DEF Return
  <2>3. ~Evaluate
    BY <1>3 DEF Evaluate, Ask, Return
  <2>4. ~(EvaluateStep /\ Call)
    BY <1>0, <2>1, CallEnters, ExhaustedEnter
  <2> QED
    BY <1>0, <2>1, <2>2, <2>3, <2>4 DEF OnlyRefuses, Exhausted
<1>4. CASE Control
  <2>1. aborted' = aborted /\ stack' = stack
    BY <1>4, ControlKeepsEvaluation DEF evalVars
  <2>2. ~Evaluate /\ ~(EvaluateStep /\ Call)
    <3>1. ASSUME Evaluate PROVE FALSE
      BY <1>0, <2>1, <3>1, ExhaustedEnter DEF Evaluate, Ask
    <3>2. ASSUME EvaluateStep /\ Call PROVE FALSE
      BY <1>0, <2>1, <3>2, CallEnters, ExhaustedEnter
    <3> QED
      BY <3>1, <3>2
  <2> QED
    BY <1>0, <2>1, <2>2 DEF OnlyRefuses, Exhausted
<1> QED
  BY <1>1, <1>2, <1>3, <1>4, NextSplit DEF EvaluateStep

(* After kMaxRecursionDepth / 2 refusals, which a single endless recursion   *)
(* that branches supplies, the engine has no functions any more until the    *)
(* process ends: CFunction.cpp:95 counts each refusal twice and for good.    *)
THEOREM RefusalsAreForGood == Spec => [][OnlyRefuses]_vars
BY EvalInvariant, ExhaustedStep, PTL DEF Spec

-----------------------------------------------------------------------------
(* The record of the function under evaluation, by which the parse trees     *)
(* name it in error messages: the innermost one, and none in between.  Each  *)
(* function has one place to save the record in; so this holds for bots      *)
(* without recursion, and fails for others.                                  *)
CurrentIsInnermost ==
  currently = IF Evaluating THEN Head(stack).fn ELSE DummyFunction

(* No function uses itself: rank counts how deep its calls nest.             *)
CallsNest(rank) == \A f \in Functions : \A g \in Calls[f] : rank[g] < rank[f]

SavedInv(rank) ==
  /\ currently = IF stack = <<>> THEN DummyFunction ELSE FnAt(1)
  /\ \A i \in 1..Len(stack) :
       previously[FnAt(i)] = IF i = Len(stack) THEN DummyFunction ELSE FnAt(i + 1)
  /\ \A j \in 1..Len(stack) : \A i \in 1..Len(stack) :
       i < j => rank[FnAt(i)] < rank[FnAt(j)]

(* What entering f leaves in the record, when f is below all its callers.    *)
LEMMA SavedEnter ==
  ASSUME NEW rank \in [Functions -> Nat], ChainInv, SavedInv(rank),
         NEW f \in Functions, NEW callers \in Seq(Frames), Enter(f, callers),
         Len(callers) = Len(stack),
         \A i \in 1..Len(stack) : callers[i].fn = FnAt(i) /\ rank[f] < rank[FnAt(i)]
  PROVE  SavedInv(rank)'
<1>0. /\ Len(stack) \in Nat /\ stack \in Seq(Frames) /\ recursion_depth \in Nat
      /\ previously \in [Functions -> Functions \cup {DummyFunction}]
      /\ \A i \in 1..Len(stack) : FnAt(i) \in Functions
  BY DEF ChainInv, EvalInv, TypeOK, FunctionTypeOK, CallChain
<1>1. \A i \in 1..Len(stack) : FnAt(i) # f
  BY <1>0
<1>2. CASE EnterCached(f, callers) \/ EnterTooDeep(f, callers)
  <2>1. /\ stack' = callers /\ currently' = currently
        /\ \A i \in 1..Len(stack) : previously'[FnAt(i)] = previously[FnAt(i)]
    BY <1>0, <1>1, <1>2 DEF EnterCached, EnterTooDeep
  <2>2. /\ Len(stack') = Len(stack) /\ (stack' = <<>> <=> stack = <<>>)
        /\ \A i \in 1..Len(stack) : FnAt(i)' = FnAt(i)
    BY <1>0, <2>1 DEF FnAt
  <2>3. stack # <<>> => FnAt(1)' = FnAt(1)
    BY <1>0, <2>2
  <2>4. \A i \in 1..Len(stack) : i # Len(stack) => FnAt(i + 1)' = FnAt(i + 1)
    BY <1>0, <2>2
  <2> QED
    BY <2>1, <2>2, <2>3, <2>4 DEF SavedInv
<1>3. CASE EnterBody(f, callers)
  <2>1. /\ currently' = f /\ previously' = [previously EXCEPT ![f] = currently]
        /\ EnterCases(f, callers) /\ Len(stack') = Len(callers) + 1
    BY <1>0, <1>3, EnterPlaces DEF EnterBody
  <2>2. /\ stack' # <<>> /\ FnAt(1)' = f /\ Len(stack') = Len(stack) + 1
        /\ \A i \in 1..Len(stack) : FnAt(i + 1)' = FnAt(i)
    <3>1. stack' # callers /\ stack' # <<>>
      BY <1>0, <2>1
    <3>2. /\ stack'[1].fn = f
          /\ \A i \in 1..Len(callers) : stack'[i + 1] = callers[i]
      BY <2>1, <3>1 DEF EnterCases
    <3>3. \A i \in 1..Len(stack) : stack'[i + 1].fn = FnAt(i)
      BY <3>2
    <3> QED
      BY <2>1, <3>1, <3>2, <3>3 DEF FnAt
  <2>3. ASSUME NEW i \in 1..Len(stack'), i # 1
        PROVE  i - 1 \in 1..Len(stack) /\ (i - 1) + 1 = i /\ FnAt(i)' = FnAt(i - 1)
    <3>1. i - 1 \in 1..Len(stack) /\ (i - 1) + 1 = i
      BY <1>0, <2>2, <2>3
    <3> QED
      BY <2>2, <3>1
  <2>4. ASSUME NEW i \in 1..Len(stack')
        PROVE  previously'[FnAt(i)'] =
                 IF i = Len(stack') THEN DummyFunction ELSE FnAt(i + 1)'
    <3>1. CASE i = 1
      <4>1. previously'[f] = currently
        BY <1>0, <2>1
      <4>2. CASE Len(stack) = 0
        BY <2>2, <3>1, <4>1, <4>2 DEF SavedInv
      <4>3. CASE Len(stack) # 0
        <5>1. stack # <<>> /\ 1 \in 1..Len(stack) /\ i # Len(stack')
          BY <1>0, <2>2, <3>1, <4>3
        <5>2. FnAt(i + 1)' = FnAt(1)
          BY <2>2, <3>1, <5>1
        <5> QED
          BY <2>2, <3>1, <4>1, <5>1, <5>2 DEF SavedInv
      <4> QED
        BY <4>2, <4>3
    <3>2. CASE i # 1
      <4>1. i - 1 \in 1..Len(stack) /\ (i - 1) + 1 = i /\ FnAt(i)' = FnAt(i - 1)
        BY <2>3, <3>2
      <4>2. previously'[FnAt(i - 1)] = previously[FnAt(i - 1)]
        BY <1>0, <1>1, <2>1, <4>1
      <4>3. i = Len(stack') <=> i - 1 = Len(stack)
        BY <1>0, <2>2
      <4>4. i # Len(stack') => FnAt(i + 1)' = FnAt(i)
        BY <1>0, <2>2
      <4> QED
        BY <4>1, <4>2, <4>3, <4>4 DEF SavedInv
    <3> QED
      BY <3>1, <3>2
  <2>5. ASSUME NEW j \in 1..Len(stack'), NEW i \in 1..Len(stack'), i < j
        PROVE  rank[FnAt(i)'] < rank[FnAt(j)']
    <3>1. j # 1 /\ j - 1 \in 1..Len(stack) /\ FnAt(j)' = FnAt(j - 1)
      BY <2>3, <2>5
    <3>2. CASE i = 1
      BY <2>2, <3>1, <3>2
    <3>3. CASE i # 1
      <4>1. i - 1 \in 1..Len(stack) /\ FnAt(i)' = FnAt(i - 1) /\ i - 1 < j - 1
        BY <2>3, <2>5, <3>3
      <4> QED
        BY <3>1, <4>1 DEF SavedInv
    <3> QED
      BY <3>2, <3>3
  <2> QED
    BY <2>1, <2>2, <2>4, <2>5 DEF SavedInv
<1> QED
  BY <1>2, <1>3 DEF Enter

LEMMA SavedStep ==
  ASSUME NEW rank \in [Functions -> Nat], CallsNest(rank), ChainInv, SavedInv(rank),
         [Next]_vars
  PROVE  SavedInv(rank)'
<1>0. /\ Len(stack) \in Nat /\ stack \in Seq(Frames) /\ EvalInv
      /\ \A i \in 1..Len(stack) : FnAt(i) \in Functions
      /\ stack # <<>> => 1 \in 1..Len(stack)
  BY DEF ChainInv, EvalInv, TypeOK, FunctionTypeOK, CallChain
<1>1. CASE Evaluate
  <2>1. Enter(Head(todo), <<>>) /\ stack = <<>> /\ Head(todo) \in Functions
    BY <1>0, <1>1 DEF Evaluate, Ask, Evaluating, EvalInv, TypeOK
  <2>2. <<>> \in Seq(Frames) /\ Len(stack) = 0 /\ Len(<<>>) = Len(stack)
    BY <2>1
  <2>3. \A i \in 1..Len(stack) :
          <<>>[i].fn = FnAt(i) /\ rank[Head(todo)] < rank[FnAt(i)]
    BY <2>2
  <2> QED
    BY <2>1, <2>2, <2>3, SavedEnter
<1>2. CASE EvaluateStep /\ Call
  <2>1. PICK g \in Functions, callers \in Seq(Frames) :
           /\ stack # <<>> /\ g \in stack[1].left /\ Enter(g, callers)
           /\ Len(callers) = Len(stack)
           /\ \A i \in 1..Len(stack) : callers[i].fn = FnAt(i)
    BY <1>0, <1>2, CallEnters
  <2>2. g \in Calls[FnAt(1)] /\ FnAt(1) \in Functions
    BY <1>0, <2>1 DEF ChainInv, CallChain
  <2>3. ASSUME NEW i \in 1..Len(stack) PROVE rank[g] < rank[FnAt(i)]
    <3>1. rank[g] < rank[FnAt(1)]
      BY <2>2 DEF CallsNest
    <3>2. i # 1 => rank[FnAt(1)] < rank[FnAt(i)]
      BY <1>0, <2>1 DEF SavedInv
    <3>3. rank[g] \in Nat /\ rank[FnAt(1)] \in Nat /\ rank[FnAt(i)] \in Nat
      BY <1>0, <2>2
    <3> QED
      BY <3>1, <3>2, <3>3
  <2> QED
    BY <2>1, <2>3, SavedEnter
<1>3. CASE EvaluateStep /\ Return
  <2>1. /\ Len(stack) \in Nat \ {0} /\ Len(stack') = Len(stack) - 1
        /\ \A i \in 1..Len(stack') : FnAt(i)' = FnAt(i + 1) /\ i + 1 \in 1..Len(stack)
    BY <1>0, <1>3, ReturnPlaces, ReturningFns DEF ChainInv
  <2>2. currently' = previously[FnAt(1)] /\ previously' = previously
    <3>1. Head(stack) = stack[1]
      BY <1>0, <2>1
    <3> QED
      BY <1>3, <3>1 DEF Return, FnAt
  <2>3. previously[FnAt(1)] = IF Len(stack) = 1 THEN DummyFunction ELSE FnAt(2)
    BY <2>1 DEF SavedInv
  <2>4. currently' = IF stack' = <<>> THEN DummyFunction ELSE FnAt(1)'
    <3>1. CASE Len(stack) = 1
      <4>1. Len(stack') = 0 /\ stack' \in Seq(Frames)
        BY <1>0, <1>3, <2>1, <3>1, EvalStepInv DEF EvalInv, TypeOK, FunctionTypeOK
      <4> QED
        BY <2>2, <2>3, <3>1, <4>1
    <3>2. CASE Len(stack) # 1
      <4>1. stack' # <<>> /\ 1 \in 1..Len(stack')
        BY <2>1, <3>2
      <4>2. FnAt(1)' = FnAt(2)
        BY <2>1, <4>1
      <4> QED
        BY <2>2, <2>3, <3>2, <4>1, <4>2
    <3> QED
      BY <3>1, <3>2
  <2>5. ASSUME NEW i \in 1..Len(stack')
        PROVE  previously'[FnAt(i)'] =
                 IF i = Len(stack') THEN DummyFunction ELSE FnAt(i + 1)'
    <3>1. /\ FnAt(i)' = FnAt(i + 1) /\ i + 1 \in 1..Len(stack)
          /\ i = Len(stack') <=> i + 1 = Len(stack)
      BY <2>1
    <3>2. i # Len(stack') => FnAt(i + 1)' = FnAt((i + 1) + 1)
      <4>1. i # Len(stack') => i + 1 \in 1..Len(stack')
        BY <2>1
      <4> QED
        BY <2>1, <4>1
    <3> QED
      BY <2>2, <3>1, <3>2 DEF SavedInv
  <2>6. ASSUME NEW j \in 1..Len(stack'), NEW i \in 1..Len(stack'), i < j
        PROVE  rank[FnAt(i)'] < rank[FnAt(j)']
    <3>1. /\ FnAt(i)' = FnAt(i + 1) /\ i + 1 \in 1..Len(stack)
          /\ FnAt(j)' = FnAt(j + 1) /\ j + 1 \in 1..Len(stack) /\ i + 1 < j + 1
      BY <2>1, <2>6
    <3> QED
      BY <3>1 DEF SavedInv
  <2> QED
    BY <2>4, <2>5, <2>6 DEF SavedInv
<1>4. CASE Control \/ UNCHANGED vars
  <2>1. UNCHANGED <<stack, currently, previously>>
    BY <1>4, ControlKeepsEvaluation DEF evalVars, fcVars, vars
  <2> QED
    BY <2>1 DEF SavedInv, FnAt
<1> QED
  BY <1>1, <1>2, <1>3, <1>4, NextSplit DEF EvaluateStep

(* For every bot without recursion: while functions are evaluated the record *)
(* names the innermost one, and it is back at none when the evaluation ends, *)
(* answers from the cache included.                                          *)
THEOREM CurrentCorrect ==
  ASSUME NEW CONSTANT rank \in [Functions -> Nat], CallsNest(rank)
  PROVE  Spec => []CurrentIsInnermost
<1>1. Init => SavedInv(rank)
  <2> SUFFICES ASSUME Init PROVE SavedInv(rank)
    OBVIOUS
  <2>1. stack = <<>> /\ Len(stack) = 0 /\ currently = DummyFunction
    BY DEF Init, FunctionInit
  <2> QED
    BY <2>1 DEF SavedInv
<1>2. ChainInv /\ SavedInv(rank) /\ [Next]_vars => SavedInv(rank)'
  BY SavedStep
<1>3. ChainInv /\ SavedInv(rank) => CurrentIsInnermost
  <2>1. ASSUME ChainInv, stack # <<>> PROVE Head(stack).fn = FnAt(1)
    BY <2>1 DEF ChainInv, EvalInv, TypeOK, FunctionTypeOK, FnAt
  <2> QED
    BY <2>1 DEF SavedInv, CurrentIsInnermost, Evaluating
<1> QED
  BY <1>1, <1>2, <1>3, ChainInit, ChainStep, PTL DEF Spec

-----------------------------------------------------------------------------
(* Why every pass comes to an end, endless recursion in the bot included:    *)
(* each step lowers a variant that is bounded below.  Of the calls an        *)
(* activation can still make, those of the outermost count most; there are   *)
(* MaxDepth places for activations at most.                                  *)
CallsLeft(k) ==
  IF k <= Len(stack) THEN 1 + Cardinality(stack[Len(stack) + 1 - k].left) ELSE 0

EvaluationAdvances ==
  \E k \in 1..MaxDepth :
    /\ CallsLeft(k)' \in Nat /\ CallsLeft(k) \in Nat /\ CallsLeft(k)' < CallsLeft(k)
    /\ \A j \in 1..(k - 1) : CallsLeft(j)' = CallsLeft(j)

Stage(p) == CASE p \in {"connection", "heartbeat"} -> 2 [] p = "decision" -> 1 [] OTHER -> 0

(* The pass or the decision goes on to its next stage, to the next engine,   *)
(* to the next function, or the evaluation advances.                         *)
Advances ==
  \/ Stage(phase') < Stage(phase)
  \/ UNCHANGED phase /\ pos' > pos /\ pos' <= NumEngines + 1
  \/ UNCHANGED <<phase, pos>> /\ Len(todo') < Len(todo)
  \/ UNCHANGED <<phase, pos, todo>> /\ EvaluationAdvances

LEMMA LeftIsFinite ==
  ASSUME IsFiniteSet(Functions), stack \in Seq(Frames), NEW i \in 1..Len(stack)
  PROVE  IsFiniteSet(stack[i].left) /\ Cardinality(stack[i].left) \in Nat
<1>1. stack[i].left \subseteq Functions
  <2>1. stack[i] \in Frames
    OBVIOUS
  <2> QED
    BY <2>1 DEF Frames
<1> QED
  BY <1>1, FS_Subset, FS_CardinalityType

LEMMA EvaluationStepAdvances ==
  ASSUME IsFiniteSet(Functions), EvalInv, NestingIsBounded, EvaluateStep
  PROVE  EvaluationAdvances
<1>0. /\ stack \in Seq(Frames) /\ Len(stack) \in Nat /\ MaxDepth \in Nat
      /\ Len(stack) <= MaxDepth /\ recursion_depth \in Nat
  BY FunctionAssumption DEF EvalInv, TypeOK, FunctionTypeOK, NestingIsBounded
<1>1. stack # <<>>
  BY DEF EvaluateStep, Call, Return, Evaluating
<1> DEFINE k == Len(stack)
<1>2. k \in 1..MaxDepth /\ 1 \in 1..Len(stack)
  BY <1>0, <1>1
<1>3. Cardinality(stack[1].left) \in Nat /\ CallsLeft(k) = 1 + Cardinality(stack[1].left)
  <2>1. Len(stack) + 1 - k = 1
    BY <1>0
  <2> QED
    BY <1>0, <1>2, <2>1, LeftIsFinite DEF CallsLeft
<1>4. \A j \in 1..(k - 1) : /\ Len(stack) + 1 - j \in 2..Len(stack)
                            /\ CallsLeft(j) = 1 + Cardinality(stack[Len(stack) + 1 - j].left)
  BY <1>0 DEF CallsLeft
<1>5. PICK n \in 1..MaxDepth : n = k
  BY <1>2
<1> HIDE DEF k
<1>6. CASE Call
  <2>1. PICK g \in Functions, callers \in Seq(Frames) :
          /\ g \in stack[1].left /\ Enter(g, callers) /\ Len(callers) = Len(stack)
          /\ callers[1].left = stack[1].left \ {g}
          /\ \A i \in 2..Len(stack) : callers[i] = stack[i]
    BY <1>6, CallEnters
  <2>2. /\ Cardinality(callers[1].left) \in Nat
        /\ Cardinality(callers[1].left) < Cardinality(stack[1].left)
    <3>1. IsFiniteSet(stack[1].left)
      BY <1>0, <1>2, LeftIsFinite
    <3>2. /\ IsFiniteSet(stack[1].left \ {g})
          /\ Cardinality(stack[1].left \ {g}) = Cardinality(stack[1].left) - 1
      BY <2>1, <3>1, FS_RemoveElement
    <3>3. Cardinality(callers[1].left) \in Nat
      BY <2>1, <3>2, FS_CardinalityType
    <3> QED
      BY <1>3, <2>1, <3>2, <3>3
  <2>3. EnterCases(g, callers)
    BY <1>0, <2>1, EnterPlaces
  <2>4. /\ Len(stack') \in Nat /\ Len(stack') >= Len(stack)
        /\ \A i \in 1..Len(stack) :
             stack'[(Len(stack') - Len(stack)) + i] = callers[i]
    <3>1. CASE stack' = callers
      BY <1>0, <2>1, <3>1
    <3>2. CASE /\ Len(stack') = Len(callers) + 1
               /\ \A i \in 1..Len(callers) : stack'[i + 1] = callers[i]
      <4>1. \A i \in 1..Len(stack) : (Len(stack') - Len(stack)) + i = i + 1
        BY <1>0, <2>1, <3>2
      <4> QED
        BY <1>0, <2>1, <3>2, <4>1
    <3> QED
      BY <2>3, <3>1, <3>2 DEF EnterCases
  <2>5. \A j \in 1..n : CallsLeft(j)' = 1 + Cardinality(callers[Len(stack) + 1 - j].left)
    <3> SUFFICES ASSUME NEW j \in 1..n
                 PROVE  CallsLeft(j)' = 1 + Cardinality(callers[Len(stack) + 1 - j].left)
      OBVIOUS
    <3>1. /\ j <= Len(stack') /\ Len(stack) + 1 - j \in 1..Len(stack)
          /\ Len(stack') + 1 - j = (Len(stack') - Len(stack)) + (Len(stack) + 1 - j)
      BY <1>0, <1>5, <2>4 DEF k
    <3> QED
      BY <2>4, <3>1 DEF CallsLeft
  <2>6. CallsLeft(n)' = 1 + Cardinality(callers[1].left)
    <3>1. Len(stack) + 1 - n = 1 /\ n \in 1..n
      BY <1>0, <1>2, <1>5 DEF k
    <3> QED
      BY <2>5, <3>1
  <2>7. \A j \in 1..(n - 1) : CallsLeft(j)' = CallsLeft(j)
    <3> SUFFICES ASSUME NEW j \in 1..(n - 1) PROVE CallsLeft(j)' = CallsLeft(j)
      OBVIOUS
    <3>1. j \in 1..n /\ j \in 1..(k - 1)
      BY <1>5
    <3> QED
      BY <1>4, <2>1, <2>5, <3>1
  <2> QED
    BY <1>3, <1>5, <2>2, <2>6, <2>7 DEF EvaluationAdvances
<1>7. CASE Return
  <2>1. /\ Len(stack') = Len(stack) - 1
        /\ \A i \in 1..Len(stack') : stack'[i].left = stack[i + 1].left
    <3>1. Returning
      BY <1>7, ReturnPlaces
    <3> QED
      BY <1>0, <3>1 DEF Returning
  <2>2. CallsLeft(n)' = 0
    BY <1>0, <1>5, <2>1 DEF CallsLeft, k
  <2>3. \A j \in 1..(n - 1) : CallsLeft(j)' = CallsLeft(j)
    <3> SUFFICES ASSUME NEW j \in 1..(n - 1) PROVE CallsLeft(j)' = CallsLeft(j)
      OBVIOUS
    <3>1. /\ j <= Len(stack') /\ Len(stack') + 1 - j \in 1..Len(stack')
          /\ (Len(stack') + 1 - j) + 1 = Len(stack) + 1 - j /\ j \in 1..(k - 1)
      BY <1>0, <1>5, <2>1 DEF k
    <3> QED
      BY <1>4, <2>1, <3>1 DEF CallsLeft
  <2> QED
    BY <1>3, <1>5, <2>2, <2>3 DEF EvaluationAdvances
<1> QED
  BY <1>6, <1>7 DEF EvaluateStep

(* Once begun, a heartbeat or a connection with all its evaluations cannot   *)
(* go on for ever: this is what PassEnds needs besides the fairness of Work. *)
THEOREM PassAdvances ==
  ASSUME IsFiniteSet(Functions)
  PROVE  Spec => [][~Rest => Advances]_vars
<1>2. EvalInv /\ NestingIsBounded /\ [Next]_vars => NestingIsBounded'
  BY NestingStep
<1>3. EvalInv /\ NestingIsBounded /\ [Next]_vars => [~Rest => Advances]_vars
  <2> SUFFICES ASSUME EvalInv, NestingIsBounded, Next, ~Rest
               PROVE  Advances
    OBVIOUS
  <2>1. todo \in Seq(Functions) /\ pos \in 1..(NumEngines + 1) /\ NumEngines \in Nat
    BY ContainerAssumption DEF EvalInv, TypeOK
  <2>2. CASE Evaluate
    <3>1. Len(Tail(todo)) = Len(todo) - 1 /\ Len(todo) \in Nat
      BY <2>1, <2>2, HeadTailProperties DEF Evaluate
    <3>2. todo' = Tail(todo) /\ UNCHANGED <<phase, pos>>
      BY <2>2 DEF Evaluate
    <3>3. Len(todo') < Len(todo)
      BY <3>1, <3>2
    <3> QED
      BY <3>2, <3>3 DEF Advances
  <2>3. CASE EvaluateStep
    BY <2>3, EvaluationStepAdvances DEF EvaluateStep, passVars, Advances
  <2>4. CASE UpdateEngine
    BY <2>1, <2>4 DEF UpdateEngine, Advances
  <2>5. CASE PassDone
    BY <2>5 DEF PassDone, InPass, Stage, Advances
  <2>6. CASE Decided
    BY <2>6 DEF Decided, Stage, Advances
  <2>7. CASE Connect \/ Disconnect \/ StartHeartbeat \/ Acts
    BY <2>7 DEF Connect, Disconnect, StartHeartbeat, Acts, NewPass
  <2> QED
    BY <2>2, <2>3, <2>4, <2>5, <2>6, <2>7 DEF Next, Work
<1> QED
  BY <1>2, <1>3, NestingInit, EvalInvariant, PTL DEF Spec
=============================================================================
