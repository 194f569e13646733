---------------------------- MODULE DaemonProofs ----------------------------
(* What holds of the daemon for every table, bound and network.             *)
EXTENDS Daemon, FiniteSetTheorems, TLAPS

(* In a dry run main() never reaches the places that send a POST.           *)
DryInv ==
  dry => /\ pc \notin {"sit", "act", "leave"}
         /\ cur # Idle => pc = "view"
         /\ cur \in {Idle, ViewReq} /\ late = {}
         /\ tSeat = NoSeat /\ endings = <<>>

LEMMA DryInit == Init => DryInv
BY DEF Init, DryInv

LEMMA IdleIsNoView == Idle # ViewReq /\ Idle.kind = "none" /\ ViewReq.kind = "view"
BY DEF Idle, ViewReq

LEMMA DryStep == DryInv /\ [Next]_vars => DryInv'
<1>0. ASSUME [Next]_vars PROVE dry' = dry
  BY <1>0 DEF Next, vars, otherVars, Server, Process, Replies, OthersPlay,
     ClockRunsOut, StoodUp, LateArrives, LateLost, Main, LoopTest, SitAnswered,
     ViewAnswered, ActAnswered, LeaveAnswered, RequestFails, Restart, Signal, Kill
<1> SUFFICES ASSUME DryInv, [Next]_vars, dry
             PROVE  /\ pc' \notin {"sit", "act", "leave"}
                    /\ cur' # Idle => pc' = "view"
                    /\ cur' \in {Idle, ViewReq} /\ late' = {}
                    /\ tSeat' = NoSeat /\ endings' = <<>>
  BY <1>0 DEF DryInv
<1> USE IdleIsNoView DEF DryInv
<1>1. CASE OthersPlay
  BY <1>1 DEF OthersPlay, daemonVars, otherVars
<1>2. CASE ClockRunsOut
  BY <1>2 DEF ClockRunsOut, OurTurn
<1>3. CASE StoodUp
  BY <1>3 DEF StoodUp
<1>4. CASE LateArrives \/ LateLost
  BY <1>4 DEF LateArrives, LateLost
<1>5. CASE Main
  BY <1>5 DEF Main, AfterMain, tableVars
<1>6. CASE LoopTest
  BY <1>6 DEF LoopTest, NextRound, tableVars
<1>7. CASE Replies
  BY <1>7 DEF Replies, SitAnswered, ViewAnswered, ActAnswered, LeaveAnswered, tableVars
<1>8. CASE RequestFails
  BY <1>8 DEF RequestFails, tableVars
<1>9. CASE Restart
  BY <1>9 DEF Restart, tableVars
<1>10. CASE Signal
  BY <1>10 DEF Signal, tableVars
<1>11. CASE Kill
  BY <1>11 DEF Kill, tableVars
<1>12. CASE UNCHANGED vars
  BY <1>12 DEF vars, daemonVars, tableVars
<1> QED
  BY <1>1, <1>2, <1>3, <1>4, <1>5, <1>6, <1>7, <1>8, <1>9, <1>10, <1>11, <1>12
     DEF Next, Server, Process

(* HISS_DRYRUN=1 never posts anything and never changes the table, for     *)
(* every table, every network and every number of kills.                   *)
THEOREM DryRunNeverTouchesTheTable == Spec => []DryRunOnlyWatches
<1>1. DryInv => DryRunOnlyWatches
  BY DEF DryInv, DryRunOnlyWatches
<1> QED
  BY <1>1, DryInit, DryStep, PTL DEF Spec
-----------------------------------------------------------------------------
(* Type correctness.  It needs three facts beside the types: which request  *)
(* is outstanding where, that abandoned requests stay finitely many, and    *)
(* that a decision point of ours is open only below the bound.              *)

Outstanding ==
  /\ pc = "sit"   => cur = SitReq
  /\ pc = "view"  => cur = ViewReq
  /\ pc = "act"   => cur \in Posts /\ cur.kind = "act"
  /\ pc = "leave" => cur = LeaveReq
  /\ pc \notin {"sit", "view", "act", "leave"} => cur = Idle

TableType ==
  /\ tSeat \in SeatOrNone /\ toAct \in SeatOrNone /\ offer \in Offers
  /\ endings \in Seq(Endings) /\ Len(endings) <= MaxTurns
  /\ accepted \in [decided : TurnNo, applied : TurnNo]
  /\ OurTurn => Len(endings) < MaxTurns

LateType == late \subseteq Posts /\ IsFiniteSet(late) /\ Cardinality(late) <= MaxLate

OwnType ==
  /\ dry \in BOOLEAN /\ pc \in PCs /\ g_run \in BOOLEAN /\ mySeat \in SeatOrNone
  /\ cur \in Posts \cup {ViewReq, Idle}
  /\ gaveUp \in BOOLEAN /\ leaveRefused \in BOOLEAN /\ kills \in 0..MaxKills

TypeInv == TableType /\ LateType /\ OwnType /\ Outstanding

LEMMA Requests ==
  /\ SitReq \in Posts /\ SitReq.kind = "sit"
  /\ LeaveReq \in Posts /\ LeaveReq.kind = "leave"
  /\ \A post \in Posts : post # Idle /\ post # ViewReq
  /\ \A post \in Posts : post.kind \in {"sit", "leave", "act"} /\ post.turn \in TurnNo
<1>1. 0 \in TurnNo
  BY DaemonAssumption DEF TurnNo
<1>2. \A post \in Posts : post.kind \in {"sit", "leave", "act"} /\ post.turn \in TurnNo
  BY DEF Posts
<1>3. Idle.kind = "none" /\ ViewReq.kind = "view"
  BY DEF Idle, ViewReq
<1> QED
  BY <1>1, <1>2, <1>3 DEF Posts, SitReq, LeaveReq

LEMMA TurnIsTurnNo == TableType => Turn \in TurnNo
BY DaemonAssumption DEF TableType, Turn, TurnNo

LEMMA TakesType ==
  ASSUME TableType, NEW post \in Posts, NEW isLate \in BOOLEAN, Takes(post, isLate)
  PROVE  TableType'
<1>1. CASE post.kind = "sit"
  BY <1>1 DEF Takes, TableType, SeatOrNone, OurTurn
<1>2. CASE post.kind = "leave"
  <2>1. tSeat' = NoSeat /\ accepted' = accepted
    BY <1>2 DEF Takes, LosesSeat
  <2>2. CASE OurTurn
    <3>1. endings' = Append(endings, "left") /\ TurnPasses(NoSeat)
      BY <1>2, <2>2 DEF Takes, LosesSeat
    <3> QED
      BY <2>1, <2>2, <3>1, DaemonAssumption
         DEF TableType, TurnPasses, OurTurn, SeatOrNone, Endings, Offers
  <2>3. CASE ~OurTurn
    BY <1>2, <2>1, <2>3 DEF Takes, LosesSeat, TableType, OurTurn, SeatOrNone
  <2> QED
    BY <2>2, <2>3
<1>3. CASE post.kind = "act"
  <2>1. tSeat' = tSeat
    BY <1>3 DEF Takes
  <2>2. CASE OurTurn /\ post.action \in Legal(offer)
    <3>1. /\ endings' = Append(endings, IF isLate THEN "lateAct" ELSE "act")
          /\ accepted' = IF isLate THEN accepted
                         ELSE [decided |-> post.turn, applied |-> Turn]
          /\ TurnPasses(tSeat)
      BY <1>3, <2>2 DEF Takes
    <3>2. accepted' \in [decided : TurnNo, applied : TurnNo]
      BY <3>1, TurnIsTurnNo, Requests DEF TableType
    <3> QED
      BY <2>1, <2>2, <3>1, <3>2, DaemonAssumption
         DEF TableType, TurnPasses, OurTurn, SeatOrNone, Endings, Offers
  <2>3. CASE ~(OurTurn /\ post.action \in Legal(offer))
    BY <1>3, <2>1, <2>3 DEF Takes, TableType, OurTurn
  <2> QED
    BY <2>2, <2>3
<1> QED
  BY <1>1, <1>2, <1>3, Requests

LEMMA AbandonType ==
  ASSUME TableType, LateType, NEW post \in Posts, Abandon(post)
  PROVE  TableType' /\ LateType'
<1>1. CASE UNCHANGED <<late, tableVars>>
  BY <1>1 DEF tableVars, TableType, LateType, OurTurn
<1>2. CASE /\ Cardinality(late \cup {post}) <= MaxLate
           /\ late' = late \cup {post} /\ UNCHANGED tableVars
  BY <1>2, FS_AddElement DEF tableVars, TableType, LateType, OurTurn
<1>3. CASE Takes(post, FALSE) /\ UNCHANGED late
  BY <1>3, TakesType DEF LateType
<1> QED
  BY <1>1, <1>2, <1>3 DEF Abandon

LEMMA FewerLate ==
  ASSUME LateType, NEW post \in late, late' = late \ {post}
  PROVE  LateType'
<1>1. IsFiniteSet(late) /\ Cardinality(late) \in Nat
  BY FS_CardinalityType DEF LateType
<1>2. IsFiniteSet(late \ {post}) /\ Cardinality(late \ {post}) = Cardinality(late) - 1
  BY <1>1, FS_RemoveElement
<1> QED
  BY <1>1, <1>2, DaemonAssumption DEF LateType

LEMMA DecideType == \A o : Decide(o) \in {"check", "call", "fold"}
BY DEF Decide

LEMMA TypeInit == Init => TypeInv
<1> SUFFICES ASSUME Init PROVE TypeInv
  OBVIOUS
<1>1. TableType
  BY DaemonAssumption DEF Init, TableType, SeatOrNone, Offers, TurnNo, OurTurn
<1>2. LateType
  BY DaemonAssumption, FS_EmptySet DEF Init, LateType
<1>3. Outstanding
  BY DEF Init, Outstanding
<1>4. cur \in Posts \cup {ViewReq, Idle} /\ mySeat \in SeatOrNone /\ kills \in 0..MaxKills
  BY DaemonAssumption DEF Init, SeatOrNone
<1>5. OwnType
  BY <1>4 DEF Init, OwnType, PCs
<1> QED
  BY <1>1, <1>2, <1>3, <1>5 DEF TypeInv

LEMMA TypeStep == TypeInv /\ [Next]_vars => TypeInv'
<1> SUFFICES ASSUME TypeInv, [Next]_vars PROVE TypeInv'
  OBVIOUS
<1>0. TableType /\ LateType /\ OwnType /\ Outstanding
  BY DEF TypeInv
<1>a. ASSUME UNCHANGED tableVars PROVE TableType'
  BY <1>0, <1>a DEF tableVars, TableType, OurTurn
<1>b. ASSUME UNCHANGED late PROVE LateType'
  BY <1>0, <1>b DEF LateType
<1>c. ASSUME UNCHANGED <<daemonVars, cur, otherVars>> PROVE OwnType' /\ Outstanding'
  BY <1>0, <1>c DEF daemonVars, otherVars, OwnType, Outstanding
<1>1. CASE OthersPlay
  <2>1. TableType'
    BY <1>0, <1>1, DaemonAssumption DEF OthersPlay, TurnPasses, TableType, OurTurn, SeatOrNone, Offers
  <2> QED
    BY <2>1, <1>b, <1>c, <1>1 DEF OthersPlay, TypeInv
<1>2. CASE ClockRunsOut
  <2>1. TableType'
    BY <1>0, <1>2, DaemonAssumption
       DEF ClockRunsOut, TurnPasses, TableType, OurTurn, SeatOrNone, Offers, Endings
  <2> QED
    BY <2>1, <1>b, <1>c, <1>2 DEF ClockRunsOut, TypeInv
<1>3. CASE StoodUp
  <2>1. Takes(LeaveReq, FALSE)
    BY <1>3, Requests DEF StoodUp, Takes
  <2>2. TableType'
    BY <1>0, <2>1, TakesType, Requests
  <2> QED
    BY <2>2, <1>b, <1>c, <1>3 DEF StoodUp, TypeInv
<1>4. CASE LateArrives
  <2>1. PICK post \in late : late' = late \ {post} /\ Takes(post, TRUE)
    BY <1>4 DEF LateArrives
  <2>2. TableType'
    BY <1>0, <2>1, TakesType DEF LateType
  <2> QED
    BY <1>0, <2>1, <2>2, FewerLate, <1>c, <1>4 DEF LateArrives, TypeInv
<1>5. CASE LateLost
  <2>1. PICK post \in late : late' = late \ {post}
    BY <1>5 DEF LateLost
  <2> QED
    BY <1>0, <2>1, FewerLate, <1>a, <1>c, <1>5 DEF LateLost, TypeInv
<1>6. CASE Main \/ LoopTest \/ Restart \/ Signal
  <2>1. TableType' /\ LateType'
    BY <1>a, <1>b, <1>6 DEF Main, LoopTest, Restart, Signal
  <2>2. OwnType'
    BY <1>0, <1>6, Requests
       DEF Main, AfterMain, LoopTest, NextRound, Restart, Signal, OwnType, otherVars,
           PCs, SeatOrNone
  <2>3. Outstanding'
    BY <1>0, <1>6
       DEF Main, AfterMain, LoopTest, NextRound, Restart, Signal, Outstanding
  <2> QED
    BY <2>1, <2>2, <2>3 DEF TypeInv
<1>7. CASE ViewAnswered
  <2>1. TableType' /\ LateType'
    BY <1>a, <1>b, <1>7 DEF ViewAnswered
  <2>2. mySeat' \in SeatOrNone
    BY <1>0, <1>7 DEF ViewAnswered, TableType, OwnType, SeatOrNone
  <2>3. [kind |-> "act", action |-> Decide(offer), turn |-> Turn] \in Posts
    BY <1>0, DecideType, TurnIsTurnNo DEF Posts
  <2>4. OwnType' /\ Outstanding'
    BY <1>0, <1>7, <2>2, <2>3 DEF ViewAnswered, OwnType, Outstanding, otherVars, PCs
  <2> QED
    BY <2>1, <2>4 DEF TypeInv
<1>8. CASE SitAnswered \/ ActAnswered \/ LeaveAnswered
  <2>1. cur \in Posts /\ (Takes(cur, FALSE) \/ Refuses) /\ UNCHANGED late
    BY <1>0, <1>8, Requests DEF SitAnswered, ActAnswered, LeaveAnswered, Outstanding
  <2>2. TableType' /\ LateType'
    BY <1>0, <1>a, <1>b, <2>1, TakesType DEF Refuses
  <2>3. OwnType' /\ Outstanding'
    BY <1>0, <1>8
       DEF SitAnswered, ActAnswered, LeaveAnswered, OwnType, Outstanding, otherVars, PCs
  <2> QED
    BY <2>2, <2>3 DEF TypeInv
<1>9. CASE RequestFails
  <2>1. cur \in Posts \/ cur = ViewReq
    BY <1>0, <1>9 DEF RequestFails, OwnType
  <2>2. TableType' /\ LateType'
    <3>1. CASE cur = ViewReq
      BY <1>a, <1>b, <1>9, <3>1 DEF RequestFails
    <3>2. CASE cur # ViewReq
      BY <1>0, <1>9, <2>1, <3>2, AbandonType DEF RequestFails
    <3> QED
      BY <3>1, <3>2
  <2>3. pc \in {"sit", "view", "act", "leave"} /\ gaveUp' \in BOOLEAN
    BY <1>0, <1>9 DEF RequestFails, Outstanding, OwnType
  <2>4. OwnType' /\ Outstanding'
    BY <1>0, <1>9, <2>3 DEF RequestFails, OwnType, Outstanding, PCs
  <2> QED
    BY <2>2, <2>4 DEF TypeInv
<1>10. CASE Kill
  <2>1. TableType' /\ LateType'
    <3>1. CASE cur \in {Idle, ViewReq}
      BY <1>a, <1>b, <1>10, <3>1 DEF Kill
    <3>2. CASE cur \notin {Idle, ViewReq}
      BY <1>0, <1>10, <3>2, AbandonType DEF Kill, OwnType
    <3> QED
      BY <3>1, <3>2
  <2>2. gaveUp' \in BOOLEAN /\ kills' \in 0..MaxKills
    BY <1>0, <1>10, DaemonAssumption DEF Kill, OwnType
  <2>3. OwnType' /\ Outstanding'
    BY <1>0, <1>10, <2>2 DEF Kill, OwnType, Outstanding, PCs
  <2> QED
    BY <2>1, <2>3 DEF TypeInv
<1>11. CASE UNCHANGED vars
  BY <1>a, <1>b, <1>c, <1>11 DEF vars, TypeInv
<1> QED
  BY <1>1, <1>2, <1>3, <1>4, <1>5, <1>6, <1>7, <1>8, <1>9, <1>10, <1>11
     DEF Next, Server, Process, Replies

(* The type invariant, for every table, network and bound.                  *)
THEOREM TypeCorrect == Spec => []TypeOK
<1>1. TypeInv => TypeOK
  BY DEF TypeInv, TableType, LateType, OwnType, TypeOK
<1> QED
  BY <1>1, TypeInit, TypeStep, PTL DEF Spec

-----------------------------------------------------------------------------
(* What becomes of a decision.  While an act is outstanding, the decision   *)
(* point it was made for is still open or was ended by something else; and  *)
(* a decision made at none was made without a seat, and only a sit that was *)
(* given up on can have given us one since.                                 *)

LateSits == \A post \in late : post.kind = "sit" => gaveUp

InFlight ==
  pc = "act" =>
    \/ OurTurn /\ cur.turn = Turn
    \/ cur.turn \in 1..Len(endings) /\ endings[cur.turn] # "act"
    \/ cur.turn = 0 /\ (tSeat = NoSeat \/ gaveUp)

Met ==
  accepted.applied # 0 =>
    \/ accepted.decided = accepted.applied
    \/ accepted.decided = 0 /\ gaveUp
    \/ accepted.decided \in 1..Len(endings) /\ endings[accepted.decided] # "act"

DecisionInv == LateSits /\ InFlight /\ Met

LEMMA DecisionInit == Init => DecisionInv
BY DEF Init, DecisionInv, LateSits, InFlight, Met

(* Ended decision points stay ended the way they did.                       *)
LEMMA MetStays ==
  ASSUME TypeInv, Met, UNCHANGED accepted, gaveUp => gaveUp',
         \/ UNCHANGED endings
         \/ \E e \in Endings : endings' = Append(endings, e)
  PROVE  Met'
BY DEF TypeInv, TableType, Met, TurnNo

(* Whatever the server does but with our acts: an open point stays open or  *)
(* is closed by something that is no act of ours.                           *)
LEMMA InFlightStays ==
  ASSUME TypeInv, TypeInv', InFlight, UNCHANGED <<pc, cur>>, gaveUp => gaveUp',
         \/ UNCHANGED <<endings, tSeat, toAct>>
         \/ UNCHANGED <<endings, tSeat>> /\ ~OurTurn
         \/ UNCHANGED endings /\ tSeat = NoSeat /\ gaveUp
         \/ UNCHANGED endings /\ tSeat' = NoSeat /\ ~OurTurn
         \/ /\ OurTurn
            /\ \E e \in Endings \ {"act"} : endings' = Append(endings, e)
            /\ tSeat' \in {tSeat, NoSeat}
  PROVE  InFlight'
<1> SUFFICES ASSUME pc = "act"
             PROVE  \/ OurTurn' /\ cur.turn = Turn'
                    \/ cur.turn \in 1..Len(endings') /\ endings'[cur.turn] # "act"
                    \/ cur.turn = 0 /\ (tSeat' = NoSeat \/ gaveUp')
  BY DEF InFlight
<1>0. endings \in Seq(Endings) /\ cur.turn \in TurnNo
  BY Requests DEF TypeInv, TableType, OwnType, Outstanding
<1>1. CASE OurTurn /\ cur.turn = Turn
  BY <1>0, <1>1 DEF OurTurn, Turn
<1>2. CASE cur.turn \in 1..Len(endings) /\ endings[cur.turn] # "act"
  BY <1>0, <1>2
<1>3. CASE cur.turn = 0 /\ (tSeat = NoSeat \/ gaveUp)
  BY <1>0, <1>3 DEF OurTurn
<1> QED
  BY <1>1, <1>2, <1>3 DEF InFlight

(* An act in time, answered or given up on.                                 *)
LEMMA ActMeets ==
  ASSUME TypeInv, InFlight, Met, pc = "act", Takes(cur, FALSE), gaveUp => gaveUp'
  PROVE  Met'
<1>0. endings \in Seq(Endings) /\ cur \in Posts /\ cur.kind = "act" /\ cur.turn \in TurnNo
  BY Requests DEF TypeInv, TableType, OwnType, Outstanding
<1>1. CASE UNCHANGED <<accepted, endings>>
  BY <1>1, MetStays
<1>2. CASE OurTurn /\ accepted' = [decided |-> cur.turn, applied |-> Turn]
                   /\ endings' = Append(endings, "act")
  <2>1. CASE cur.turn = Turn
    BY <1>2, <2>1 DEF Met
  <2>2. CASE cur.turn \in 1..Len(endings) /\ endings[cur.turn] # "act"
    BY <1>0, <1>2, <2>2 DEF Met
  <2>3. CASE cur.turn = 0 /\ (tSeat = NoSeat \/ gaveUp)
    BY <1>2, <2>3 DEF Met, OurTurn
  <2> QED
    BY <2>1, <2>2, <2>3 DEF InFlight
<1> QED
  BY <1>0, <1>1, <1>2 DEF Takes

(* What a POST other than an act in time can do to the ghosts.              *)
LEMMA TakesEndings ==
  ASSUME NEW post \in Posts, NEW isLate \in BOOLEAN, Takes(post, isLate),
         post.kind # "act" \/ isLate
  PROVE  /\ UNCHANGED accepted
         /\ \/ UNCHANGED <<endings, tSeat, toAct>>
            \/ post.kind = "sit" /\ UNCHANGED endings /\ tSeat = NoSeat
            \/ UNCHANGED endings /\ tSeat' = NoSeat /\ ~OurTurn
            \/ /\ OurTurn
               /\ \E e \in Endings \ {"act"} : endings' = Append(endings, e)
               /\ tSeat' \in {tSeat, NoSeat}
<1>1. CASE post.kind = "sit"
  BY <1>1 DEF Takes
<1>2. CASE post.kind = "leave"
  <2>1. tSeat' = NoSeat /\ accepted' = accepted
    BY <1>2 DEF Takes, LosesSeat
  <2>2. OurTurn => endings' = Append(endings, "left")
    BY <1>2 DEF Takes, LosesSeat
  <2>3. ~OurTurn => endings' = endings
    BY <1>2 DEF Takes, LosesSeat
  <2> QED
    BY <2>1, <2>2, <2>3 DEF Endings
<1>3. CASE post.kind = "act"
  <2>1. isLate = TRUE
    BY <1>3
  <2>2. tSeat' = tSeat /\ accepted' = accepted
    BY <1>3, <2>1 DEF Takes
  <2>3. \/ OurTurn /\ endings' = Append(endings, "lateAct")
        \/ UNCHANGED <<toAct, endings>>
    BY <1>3, <2>1 DEF Takes
  <2> QED
    BY <2>2, <2>3 DEF Endings
<1> QED
  BY <1>1, <1>2, <1>3, Requests

(* Giving up on a request that is not an act.                               *)
LEMMA AbandonLate ==
  ASSUME LateSits, NEW post \in Posts, Abandon(post),
         gaveUp' = (gaveUp \/ post.kind \in {"sit", "leave"})
  PROVE  LateSits'
<1>1. late' \subseteq late \cup {post}
  BY DEF Abandon
<1> QED
  BY <1>1 DEF LateSits

LEMMA AbandonMeets ==
  ASSUME TypeInv, InFlight, Met, cur \in Posts, Abandon(cur),
         gaveUp' = (gaveUp \/ cur.kind \in {"sit", "leave"})
  PROVE  Met'
<1>0. gaveUp => gaveUp'
  OBVIOUS
<1>1. CASE UNCHANGED tableVars
  BY <1>0, <1>1, MetStays DEF tableVars
<1>2. CASE Takes(cur, FALSE) /\ cur.kind = "act"
  <2>1. pc = "act"
    BY <1>2, Requests DEF TypeInv, OwnType, Outstanding
  <2> QED
    BY <1>0, <1>2, <2>1, ActMeets
<1>3. CASE Takes(cur, FALSE) /\ cur.kind # "act"
  BY <1>0, <1>3, TakesEndings, MetStays
<1> QED
  BY <1>1, <1>2, <1>3 DEF Abandon

LEMMA DecisionStep == TypeInv /\ TypeInv' /\ DecisionInv /\ [Next]_vars => DecisionInv'
<1> SUFFICES ASSUME TypeInv, TypeInv', DecisionInv, [Next]_vars PROVE DecisionInv'
  OBVIOUS
<1>0. LateSits /\ InFlight /\ Met
  BY DEF DecisionInv
<1>1. CASE OthersPlay
  <2>1. LateSits'
    BY <1>0, <1>1 DEF OthersPlay, LateSits, otherVars
  <2>2. InFlight'
    BY <1>0, <1>1, InFlightStays DEF OthersPlay, daemonVars, otherVars
  <2>3. Met'
    BY <1>0, <1>1, MetStays DEF OthersPlay, otherVars
  <2> QED
    BY <2>1, <2>2, <2>3 DEF DecisionInv
<1>2. CASE ClockRunsOut
  <2>0. OurTurn /\ endings' = Append(endings, "clock") /\ "clock" \in Endings \ {"act"}
    BY <1>2 DEF ClockRunsOut, Endings
  <2>1. LateSits'
    BY <1>0, <1>2 DEF ClockRunsOut, LateSits, otherVars
  <2>2. InFlight'
    BY <1>0, <1>2, <2>0, InFlightStays DEF ClockRunsOut, daemonVars, otherVars
  <2>3. Met'
    BY <1>0, <1>2, <2>0, MetStays DEF ClockRunsOut, otherVars
  <2> QED
    BY <2>1, <2>2, <2>3 DEF DecisionInv
<1>3. CASE StoodUp
  <2>0. Takes(LeaveReq, FALSE)
    BY <1>3, Requests DEF StoodUp, Takes
  <2>1. LateSits'
    BY <1>0, <1>3 DEF StoodUp, LateSits, otherVars
  <2>2. InFlight' /\ Met'
    BY <1>0, <1>3, <2>0, Requests, TakesEndings, InFlightStays, MetStays
       DEF StoodUp, daemonVars, otherVars
  <2> QED
    BY <2>1, <2>2 DEF DecisionInv
<1>4. CASE LateArrives
  <2>0. PICK post \in late : late' = late \ {post} /\ Takes(post, TRUE)
    BY <1>4 DEF LateArrives
  <2>1. post \in Posts /\ (post.kind = "sit" => gaveUp)
    BY <1>0, <2>0 DEF TypeInv, LateType, LateSits
  <2>2. LateSits'
    BY <1>0, <1>4, <2>0 DEF LateArrives, LateSits, otherVars
  <2>3. InFlight' /\ Met'
    BY <1>0, <1>4, <2>0, <2>1, TakesEndings, InFlightStays, MetStays
       DEF LateArrives, daemonVars, otherVars
  <2> QED
    BY <2>2, <2>3 DEF DecisionInv
<1>5. CASE LateLost \/ Signal
  <2>1. LateSits'
    BY <1>0, <1>5 DEF LateLost, Signal, LateSits, otherVars
  <2>2. InFlight' /\ Met'
    BY <1>0, <1>5, InFlightStays, MetStays
       DEF LateLost, Signal, daemonVars, otherVars, tableVars
  <2> QED
    BY <2>1, <2>2 DEF DecisionInv
<1>6. CASE Main \/ LoopTest \/ Restart
  <2>1. LateSits' /\ pc' # "act"
    BY <1>0, <1>6 DEF Main, AfterMain, LoopTest, NextRound, Restart, LateSits, otherVars
  <2>2. Met'
    BY <1>0, <1>6, MetStays DEF Main, LoopTest, Restart, otherVars, tableVars
  <2> QED
    BY <2>1, <2>2 DEF DecisionInv, InFlight
<1>7. CASE ViewAnswered
  <2>1. LateSits'
    BY <1>0, <1>7 DEF ViewAnswered, LateSits, otherVars
  <2>2. Met'
    BY <1>0, <1>7, MetStays DEF ViewAnswered, otherVars, tableVars
  <2>3. ASSUME pc' = "act" PROVE cur'.turn = Turn /\ (OurTurn \/ tSeat = NoSeat)
    BY <1>7, <2>3 DEF ViewAnswered, OurTurn
  <2>4. pc' = "act" => IF OurTurn THEN OurTurn' /\ cur'.turn = Turn'
                                  ELSE cur'.turn = 0 /\ tSeat' = NoSeat
    BY <1>7, <2>3 DEF ViewAnswered, tableVars, OurTurn, Turn
  <2> QED
    BY <2>1, <2>2, <2>4 DEF DecisionInv, InFlight
<1>8. CASE SitAnswered \/ LeaveAnswered
  <2>0. cur \in Posts /\ cur.kind # "act" /\ (Takes(cur, FALSE) \/ Refuses)
    BY <1>8, Requests DEF SitAnswered, LeaveAnswered, TypeInv, Outstanding
  <2>a. UNCHANGED <<late, gaveUp>> /\ pc' # "act"
    <3>1. CASE SitAnswered
      BY <3>1 DEF SitAnswered, otherVars
    <3>2. CASE LeaveAnswered
      BY <3>2 DEF LeaveAnswered, otherVars
    <3> QED
      BY <1>8, <3>1, <3>2
  <2>1. LateSits' /\ pc' # "act"
    BY <1>0, <2>a DEF LateSits
  <2>2. Met'
    BY <1>0, <2>0, <2>a, TakesEndings, MetStays DEF Refuses, tableVars
  <2> QED
    BY <2>1, <2>2 DEF DecisionInv, InFlight
<1>9. CASE ActAnswered
  <2>1. LateSits' /\ pc' # "act"
    BY <1>0, <1>9 DEF ActAnswered, LateSits, otherVars
  <2>2. Met'
    BY <1>0, <1>9, ActMeets, MetStays DEF ActAnswered, Refuses, otherVars, tableVars
  <2> QED
    BY <2>1, <2>2 DEF DecisionInv, InFlight
<1>10. CASE RequestFails \/ Kill
  <2>1. pc' # "act" /\ gaveUp' = (gaveUp \/ cur.kind \in {"sit", "leave"})
    BY <1>10 DEF RequestFails, Kill, TypeInv, OwnType, Outstanding
  <2>2. CASE cur \in {Idle, ViewReq}
    <3>1. LateSits'
      BY <1>0, <1>10, <2>1, <2>2 DEF RequestFails, Kill, LateSits
    <3>2. Met'
      BY <1>0, <1>10, <2>1, <2>2, MetStays DEF RequestFails, Kill, tableVars
    <3> QED
      BY <2>1, <3>1, <3>2 DEF DecisionInv, InFlight
  <2>3. CASE cur \notin {Idle, ViewReq}
    <3>1. cur \in Posts /\ Abandon(cur)
      BY <1>10, <2>3 DEF RequestFails, Kill, TypeInv, OwnType
    <3> QED
      BY <1>0, <2>1, <3>1, AbandonLate, AbandonMeets DEF DecisionInv, InFlight
  <2> QED
    BY <2>2, <2>3
<1>11. CASE UNCHANGED vars
  BY <1>0, <1>11, InFlightStays, MetStays
     DEF vars, daemonVars, tableVars, otherVars, LateSits, DecisionInv
<1> QED
  BY <1>1, <1>2, <1>3, <1>4, <1>5, <1>6, <1>7, <1>8, <1>9, <1>10, <1>11
     DEF Next, Server, Process, Replies

(* An act answered in time was decided for the decision point it is applied *)
(* to, or that one was ended by something else before it arrived.           *)
THEOREM DecisionCorrect == Spec => []DecisionMeetsItsTurn
<1>1. TypeInv /\ DecisionInv => DecisionMeetsItsTurn
  BY DEF DecisionInv, Met, DecisionMeetsItsTurn
<1> QED
  BY <1>1, TypeInit, TypeStep, DecisionInit, DecisionStep, PTL DEF Spec

-----------------------------------------------------------------------------
(* Leaving.                                                                 *)

(* Out of the loop without a seat, unless a sit or a leave got no answer or  *)
(* the leave was refused.                                                    *)
LEMMA LeaveStep ==
  TypeInv /\ DryInv /\ LateSits /\ StoppedHasLeft /\ [Next]_vars => StoppedHasLeft'
<1> SUFFICES ASSUME TypeInv, DryInv, LateSits, StoppedHasLeft, [Next]_vars,
                    pc' = "done", ~gaveUp', ~leaveRefused'
             PROVE  tSeat' = NoSeat
  BY DEF StoppedHasLeft
<1>1. CASE OthersPlay \/ ClockRunsOut
  BY <1>1 DEF OthersPlay, ClockRunsOut, daemonVars, otherVars, StoppedHasLeft
<1>2. CASE StoodUp
  BY <1>2 DEF StoodUp, LosesSeat
<1>3. CASE LateArrives
  <2>1. PICK post \in late : Takes(post, TRUE) /\ post \in Posts /\ post.kind # "sit"
    BY <1>3 DEF LateArrives, LateSits, otherVars, TypeInv, LateType
  <2>2. tSeat' \in {tSeat, NoSeat}
    BY <2>1, TakesEndings DEF Takes, LosesSeat
  <2> QED
    BY <1>3, <2>2 DEF LateArrives, daemonVars, otherVars, StoppedHasLeft
<1>4. CASE LateLost \/ Signal \/ UNCHANGED vars
  BY <1>4 DEF LateLost, Signal, vars, daemonVars, otherVars, tableVars, StoppedHasLeft
<1>5. CASE LoopTest
  BY <1>5 DEF LoopTest, NextRound, DryInv, tableVars
<1>6. CASE LeaveAnswered
  <2>1. Takes(cur, FALSE) /\ cur = LeaveReq
    BY <1>6 DEF LeaveAnswered, TypeInv, Outstanding
  <2> QED
    BY <2>1, Requests DEF Takes, LosesSeat
<1>7. CASE RequestFails
  BY <1>7, Requests DEF RequestFails, TypeInv, Outstanding
<1>8. CASE Main \/ SitAnswered \/ ViewAnswered \/ ActAnswered \/ Restart \/ Kill
  BY <1>8 DEF Main, AfterMain, SitAnswered, ViewAnswered, ActAnswered, Restart, Kill
<1> QED
  BY <1>1, <1>2, <1>3, <1>4, <1>5, <1>6, <1>7, <1>8 DEF Next, Server, Process, Replies

(* A stopped daemon has left the table, for every network and number of     *)
(* kills, unless a sit or a leave was given up on or the leave refused.     *)
THEOREM LeavingCorrect == Spec => []StoppedHasLeft
<1>1. Init => StoppedHasLeft
  BY DEF Init, StoppedHasLeft
<1>2. DecisionInv => LateSits
  BY DEF DecisionInv
<1> QED
  BY <1>1, <1>2, TypeInit, TypeStep, DryInit, DryStep, DecisionInit, DecisionStep,
     LeaveStep, PTL DEF Spec

-----------------------------------------------------------------------------
(* Stopping.                                                                *)

(* How many steps main() can still make once the flag is cleared: at most   *)
(* the act that follows a view, one test of the loop, and the leave.        *)
StepsToStop(p) ==
  CASE p = "main" -> 6 [] p \in {"sit", "view"} -> 5 [] p = "act" -> 4
    [] p \in {"loop", "sleep"} -> 3 [] p = "leave" -> 2 [] OTHER -> 0

(* The flag stays cleared, and whatever moves main() brings it nearer to    *)
(* its end: no view is asked for and no process started any more.           *)
Stopping ==
  ~g_run => /\ ~g_run'
            /\ \/ UNCHANGED <<pc, cur>>
               \/ StepsToStop(pc') < StepsToStop(pc)
            /\ pc' = "view" => pc = "view"

LEMMA StoppingStep == TypeInv /\ [Next]_vars => [Stopping]_vars
<1> SUFFICES ASSUME TypeInv, Next, ~g_run PROVE Stopping
  BY DEF Stopping
<1>0. OwnType /\ Outstanding
  BY DEF TypeInv
<1> USE DEF Stopping, StepsToStop
<1>1. CASE Server
  BY <1>1 DEF Server, OthersPlay, ClockRunsOut, StoodUp, LateArrives, LateLost, daemonVars
<1>2. CASE Main
  BY <1>2 DEF Main, AfterMain
<1>3. CASE LoopTest
  BY <1>3 DEF LoopTest, NextRound
<1>4. CASE Replies
  <2>1. ~g_run'
    BY <1>4 DEF Replies, SitAnswered, ViewAnswered, ActAnswered, LeaveAnswered
  <2>2. CASE SitAnswered
    BY <2>1, <2>2 DEF SitAnswered
  <2>3. CASE ViewAnswered
    <3>1. pc = "view" /\ pc' \in {"act", "sleep"}
      BY <2>3 DEF ViewAnswered
    <3> QED
      BY <2>1, <3>1
  <2>4. CASE ActAnswered
    BY <2>1, <2>4 DEF ActAnswered
  <2>5. CASE LeaveAnswered
    BY <2>1, <2>5 DEF LeaveAnswered
  <2> QED
    BY <1>4, <2>2, <2>3, <2>4, <2>5 DEF Replies
<1>5. CASE RequestFails
  <2>1. pc \in {"sit", "view", "act", "leave"}
    BY <1>0, <1>5 DEF RequestFails, Outstanding
  <2> QED
    BY <1>5, <2>1 DEF RequestFails
<1>6. CASE Restart \/ Signal
  BY <1>6 DEF Restart, Signal
<1>7. CASE Kill
  <2>1. pc \in {"main", "sit", "loop", "view", "act", "sleep", "leave"} /\ pc' = "killed"
    BY <1>0, <1>7 DEF Kill, OwnType, PCs
  <2> QED
    BY <1>7, <2>1 DEF Kill
<1> QED
  BY <1>1, <1>2, <1>3, <1>4, <1>5, <1>6, <1>7 DEF Next, Process

(* After a signal the daemon can only go on to its end, whatever fails and   *)
(* whoever plays meanwhile: this is what SignalStops needs besides a process *)
(* that runs and requests that end.                                          *)
THEOREM SignalLeadsOut == Spec => [][Stopping]_vars
BY TypeInit, TypeStep, StoppingStep, PTL DEF Spec
=============================================================================
