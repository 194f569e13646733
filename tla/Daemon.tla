------------------------------- MODULE Daemon -------------------------------
(***************************************************************************)
(* The lean API daemon (src/src/main.cpp, with api.hpp, http.hpp and       *)
(* brain.hpp) against the table server it plays on.                        *)
(*                                                                         *)
(* The daemon is one thread: it has at most one HTTP request outstanding   *)
(* ("cur").  libcurl gives up after 20 s, and what it gave up on may still *)
(* be on its way: an abandoned POST waits in "late" until the server takes *)
(* it or it is lost.  Neither a view nor an act names the decision point   *)
(* it belongs to; the model labels both with its number, a ghost the       *)
(* program does not have.                                                  *)
(***************************************************************************)
EXTENDS Integers, Sequences, FiniteSets

CONSTANTS
  Seats,        \* the seat numbers of the table
  NoSeat,       \* what value("seat_no", -1) and value("to_act", -1) default to
  HasToken,     \* HISS_TOKEN is set
  TurnClock,    \* whether the server plays for a player who is too slow
  MaxTurns,     \* bound: decision points of ours that end
  MaxLate,      \* bound: abandoned POSTs under way at once
  MaxKills      \* bound: kills of the process from outside

ASSUME DaemonAssumption ==
  /\ Seats \subseteq Nat /\ NoSeat \notin Seats
  /\ HasToken \in BOOLEAN /\ TurnClock \in BOOLEAN
  /\ MaxTurns \in Nat /\ MaxLate \in Nat /\ MaxKills \in Nat

VARIABLES
  dry,          \* HISS_DRYRUN: observe and decide, never act
  pc,           \* where main() stands
  g_run,        \* cleared by the signal handler
  mySeat,       \* main()'s local: the last seat number a view has shown
  cur,          \* the outstanding request
  late,         \* POSTs given up on that the server has not seen yet
  tSeat,        \* server: the seat of the daemon's account
  toAct,        \* server: hand.to_act
  offer,        \* server: what hand.legal and hand.pot offer the player to act
  endings,      \* ghost: how our decision points ended, in order
  accepted,     \* ghost: the last act of ours the server accepted in time
  gaveUp,       \* ghost: a sit or a leave was given up on
  leaveRefused, \* ghost: the server answered a leave with a refusal
  kills         \* kills so far

daemonVars == <<pc, g_run, mySeat>>
tableVars  == <<tSeat, toAct, offer, endings, accepted>>
otherVars  == <<dry, gaveUp, leaveRefused, kills>>
vars       == <<daemonVars, cur, late, tableVars, otherVars>>

(* hand.legal with hand.pot, up to what decide() tells apart: a free       *)
(* check, a call of 0, a call at 4:1 or better, a worse one, one without a *)
(* fold beside it, and an empty legal object.                              *)
Offers == {"free", "freeCall", "cheap", "dear", "dearNoFold", "nothing"}

Legal(o) == CASE o = "free"       -> {"check", "fold"}
              [] o = "freeCall"   -> {"call"}
              [] o = "cheap"      -> {"call", "fold"}
              [] o = "dear"       -> {"call", "fold"}
              [] o = "dearNoFold" -> {"call"}
              [] o = "nothing"    -> {}

GoodOdds(o) == o \in {"freeCall", "cheap"}

(* Mutants of decide(): an action no view offers; no last resort when the  *)
(* odds are bad and nothing can be folded.                                 *)
DecideRaises(o) ==
  IF "check" \in Legal(o) THEN "check" ELSE IF GoodOdds(o) THEN "raise" ELSE "fold"

DecideNoLastResort(o) ==
  IF "check" \in Legal(o) THEN "check"
  ELSE IF "call" \in Legal(o) /\ GoodOdds(o) THEN "call"
  ELSE IF "fold" \in Legal(o) THEN "fold"
  ELSE "check"

(* Brain::decide on a view with a hand.                                    *)
Decide(o) ==
  IF "check" \in Legal(o) THEN "check"
  ELSE IF "call" \in Legal(o) /\ (GoodOdds(o) \/ "fold" \notin Legal(o)) THEN "call"
  ELSE IF "fold" \in Legal(o) THEN "fold"
  ELSE "check"

SeatOrNone == Seats \cup {NoSeat}
TurnNo     == 0..(MaxTurns + 1)     \* 0: no decision point of ours
Endings    == {"act", "lateAct", "clock", "left"}

Posts    == [kind : {"sit", "leave", "act"}, action : {"check", "call", "fold"},
             turn : TurnNo]
ViewReq  == [kind |-> "view"]
SitReq   == [kind |-> "sit", action |-> "fold", turn |-> 0]
LeaveReq == [kind |-> "leave", action |-> "fold", turn |-> 0]
Idle     == [kind |-> "none"]

PCs == {"main", "sit", "loop", "view", "act", "sleep", "leave",
        "done", "exit2", "killed"}

TypeOK ==
  /\ dry \in BOOLEAN
  /\ pc \in PCs
  /\ g_run \in BOOLEAN
  /\ mySeat \in SeatOrNone
  /\ cur \in Posts \cup {ViewReq, Idle}
  /\ late \in SUBSET Posts /\ Cardinality(late) <= MaxLate
  /\ tSeat \in SeatOrNone /\ toAct \in SeatOrNone /\ offer \in Offers
  /\ endings \in Seq(Endings) /\ Len(endings) <= MaxTurns
  /\ accepted \in [decided : TurnNo, applied : TurnNo]
  /\ gaveUp \in BOOLEAN /\ leaveRefused \in BOOLEAN
  /\ kills \in 0..MaxKills

(* The bot is to act; the number of that decision point.                   *)
OurTurn == tSeat # NoSeat /\ toAct = tSeat
Turn    == IF OurTurn THEN Len(endings) + 1 ELSE 0

Init ==
  /\ dry \in BOOLEAN
  /\ pc = "main" /\ g_run = TRUE /\ mySeat = NoSeat
  /\ cur = Idle /\ late = {}
  /\ tSeat = NoSeat /\ toAct = NoSeat /\ offer = "nothing"
  /\ endings = <<>>
  /\ accepted = [decided |-> 0, applied |-> 0]
  /\ gaveUp = FALSE /\ leaveRefused = FALSE /\ kills = 0

-----------------------------------------------------------------------------
(* The table server.                                                       *)

(* The turn passes to anybody who sits, us included (the next street or    *)
(* the next hand), or to nobody; past the bound it does not come back.     *)
TurnPasses(seat) ==
  /\ toAct' \in SeatOrNone
  /\ toAct' # NoSeat /\ toAct' = seat => Len(endings') < MaxTurns
  /\ IF toAct' = NoSeat THEN offer' = "nothing" ELSE offer' \in Offers \ {"nothing"}

OthersPlay ==
  /\ ~OurTurn
  /\ UNCHANGED <<daemonVars, cur, late, tSeat, endings, accepted, otherVars>>
  /\ TurnPasses(tSeat)

ClockRunsOut ==
  /\ TurnClock /\ OurTurn
  /\ endings' = Append(endings, "clock")
  /\ TurnPasses(tSeat)
  /\ UNCHANGED <<daemonVars, cur, late, tSeat, accepted, otherVars>>

(* The account loses its seat: by its own leave, or the server's doing.    *)
LosesSeat ==
  /\ tSeat' = NoSeat
  /\ IF OurTurn
       THEN endings' = Append(endings, "left") /\ TurnPasses(NoSeat)
       ELSE UNCHANGED <<endings, toAct, offer>>

StoodUp ==
  /\ tSeat # NoSeat
  /\ LosesSeat
  /\ UNCHANGED <<daemonVars, cur, late, accepted, otherVars>>

(* What a POST does that the server takes, in time or late.                *)
Takes(post, isLate) ==
  \/ /\ post.kind = "sit"
     /\ IF tSeat = NoSeat THEN tSeat' \in Seats \ {toAct} ELSE UNCHANGED tSeat
     /\ UNCHANGED <<toAct, offer, endings, accepted>>
  \/ /\ post.kind = "leave"
     /\ LosesSeat
     /\ UNCHANGED accepted
  \/ /\ post.kind = "act"
     /\ IF OurTurn /\ post.action \in Legal(offer)
          THEN /\ endings' = Append(endings, IF isLate THEN "lateAct" ELSE "act")
               /\ accepted' = IF isLate THEN accepted
                              ELSE [decided |-> post.turn, applied |-> Turn]
               /\ TurnPasses(tSeat)
          ELSE UNCHANGED <<toAct, offer, endings, accepted>>
     /\ UNCHANGED tSeat

(* Or the server refuses it: an HTTP status, which request() returns like  *)
(* any other and main() does no more than log.                             *)
Refuses == UNCHANGED tableVars

LateArrives ==
  /\ \E post \in late : late' = late \ {post} /\ Takes(post, TRUE)
  /\ UNCHANGED <<daemonVars, cur, otherVars>>

LateLost ==
  /\ \E post \in late : late' = late \ {post}
  /\ UNCHANGED <<daemonVars, cur, tableVars, otherVars>>

-----------------------------------------------------------------------------
(* The daemon.                                                             *)

AfterMain == IF dry THEN "loop" ELSE "sit"

(* main() up to the seat: without a token it returns 2; the probes log.    *)
Main ==
  /\ pc = "main"
  /\ IF HasToken
       THEN /\ pc' = AfterMain
            /\ cur' = IF dry THEN Idle ELSE SitReq
       ELSE pc' = "exit2" /\ UNCHANGED cur
  /\ UNCHANGED <<g_run, mySeat, late, tableVars, otherVars>>

(* Mutants: nothing to leave when no view has shown a seat; the loop goes on *)
(* while it knows a seat; a dry run leaves like any other.                 *)
NextRoundNoSeatNoLeave ==
  IF g_run THEN pc' = "view" /\ cur' = ViewReq
  ELSE IF dry \/ mySeat = NoSeat THEN pc' = "done" /\ cur' = Idle
  ELSE pc' = "leave" /\ cur' = LeaveReq

NextRoundPlaysOn ==
  IF g_run \/ mySeat # NoSeat THEN pc' = "view" /\ cur' = ViewReq
  ELSE IF dry THEN pc' = "done" /\ cur' = Idle
  ELSE pc' = "leave" /\ cur' = LeaveReq

NextRoundLeavesDry ==
  IF g_run THEN pc' = "view" /\ cur' = ViewReq
  ELSE pc' = "leave" /\ cur' = LeaveReq

(* Where a round of the loop goes: to another view, or out of the loop.    *)
NextRound ==
  IF g_run THEN pc' = "view" /\ cur' = ViewReq
  ELSE IF dry THEN pc' = "done" /\ cur' = Idle
  ELSE pc' = "leave" /\ cur' = LeaveReq

SitAnswered ==
  /\ pc = "sit" /\ cur # Idle
  /\ Takes(cur, FALSE) \/ Refuses
  /\ cur' = Idle /\ pc' = "loop"
  /\ UNCHANGED <<g_run, mySeat, late, otherVars>>

LoopTest ==
  /\ pc \in {"loop", "sleep"}
  /\ NextRound
  /\ UNCHANGED <<g_run, mySeat, late, tableVars, otherVars>>

(* The view arrives; a view without "you" leaves mySeat alone.  When it is *)
(* our turn in that view the decision is posted, in the same round.        *)
ViewAnswered ==
  /\ pc = "view"
  /\ LET you == IF dry THEN NoSeat ELSE tSeat
     IN  mySeat' = IF you # NoSeat THEN you ELSE mySeat
  /\ IF ~dry /\ mySeat' # NoSeat /\ toAct = mySeat'
       THEN /\ pc' = "act"
            /\ cur' = [kind |-> "act", action |-> Decide(offer), turn |-> Turn]
       ELSE pc' = "sleep" /\ cur' = Idle
  /\ UNCHANGED <<g_run, late, tableVars, otherVars>>

ActAnswered ==
  /\ pc = "act"
  /\ Takes(cur, FALSE) \/ Refuses
  /\ cur' = Idle /\ pc' = "sleep"
  /\ UNCHANGED <<g_run, mySeat, late, otherVars>>

(* The status of the answer is not looked at: main() returns 0 either way. *)
LeaveAnswered ==
  /\ pc = "leave"
  /\ \/ Takes(cur, FALSE) /\ UNCHANGED leaveRefused
     \/ Refuses /\ leaveRefused' = TRUE
  /\ cur' = Idle /\ pc' = "done"
  /\ UNCHANGED <<g_run, mySeat, late, dry, gaveUp, kills>>

(* A POST whose answer will not be seen: lost or refused, still under *)
(* way, or taken and only its reply lost.                                  *)
Abandon(post) ==
  \/ UNCHANGED <<late, tableVars>>
  \/ /\ Cardinality(late \cup {post}) <= MaxLate
     /\ late' = late \cup {post}
     /\ UNCHANGED tableVars
  \/ Takes(post, FALSE) /\ UNCHANGED late

(* Mutant: a failed request is sent again by itself, without a new view.   *)
RequestFailsAndRetries ==
  /\ cur # Idle
  /\ IF cur = ViewReq THEN UNCHANGED <<late, tableVars>> ELSE Abandon(cur)
  /\ gaveUp' = (gaveUp \/ cur.kind \in {"sit", "leave"})
  /\ UNCHANGED <<cur, pc, g_run, mySeat, dry, leaveRefused, kills>>

(* curl fails or times out: the exception is logged and the round is over.  *)
(* A view that is an error or no JSON object ends the round the same way.  *)
RequestFails ==
  /\ cur # Idle
  /\ IF cur = ViewReq THEN UNCHANGED <<late, tableVars>> ELSE Abandon(cur)
  /\ gaveUp' = (gaveUp \/ cur.kind \in {"sit", "leave"})
  /\ cur' = Idle
  /\ pc' = CASE pc = "sit" -> "loop" [] pc \in {"view", "act"} -> "sleep"
             [] pc = "leave" -> "done"
  /\ UNCHANGED <<g_run, mySeat, dry, leaveRefused, kills>>

Signal ==
  /\ g_run /\ pc \notin {"done", "exit2", "killed"}
  /\ g_run' = FALSE
  /\ UNCHANGED <<pc, mySeat, cur, late, tableVars, otherVars>>

(* The process dies of something it does not handle; Restart=on-failure    *)
(* starts it again, with nothing of its state, unless it was being stopped.*)
Kill ==
  /\ pc \notin {"done", "exit2", "killed"} /\ kills < MaxKills
  /\ kills' = kills + 1
  /\ IF cur \in {Idle, ViewReq} THEN UNCHANGED <<late, tableVars>> ELSE Abandon(cur)
  /\ gaveUp' = (gaveUp \/ cur.kind \in {"sit", "leave"})
  /\ pc' = "killed" /\ cur' = Idle
  /\ UNCHANGED <<g_run, mySeat, dry, leaveRefused>>

Restart ==
  /\ pc \in {"killed", "exit2"} /\ g_run
  /\ pc' = "main" /\ mySeat' = NoSeat
  /\ UNCHANGED <<g_run, cur, late, tableVars, otherVars>>

Server == OthersPlay \/ ClockRunsOut \/ StoodUp \/ LateArrives \/ LateLost
Replies == SitAnswered \/ ViewAnswered \/ ActAnswered \/ LeaveAnswered
Process == Main \/ LoopTest \/ Replies \/ RequestFails \/ Restart

Next == Server \/ Process \/ Signal \/ Kill

(* The process runs and curl's timeout ends every request.                 *)
Fairness == WF_vars(Process)
Spec == Init /\ [][Next]_vars /\ Fairness

(* A network that does not fail every time, and a server that does not     *)
(* refuse every act.                                                       *)
ActTaken == ActAnswered /\ Takes(cur, FALSE)

GoodNetSpec == Spec /\ SF_vars(ViewAnswered) /\ SF_vars(ActTaken)
-----------------------------------------------------------------------------
(* An act that is answered in time is applied to the decision point its    *)
(* view showed (main.cpp 112-119 name neither), or that one was over before*)
(* the act arrived: an earlier act given up on, the turn clock or the loss *)
(* of the seat came between.  The last case, a decision on somebody else's *)
(* turn under the seat number remembered from an earlier view, takes a sit *)
(* that was given up on and still arrived.                                 *)
DecisionMeetsItsTurn ==
  accepted.applied # 0 =>
    \/ accepted.decided = accepted.applied
    \/ accepted.decided = 0 /\ gaveUp
    \/ accepted.decided # 0 /\ endings[accepted.decided] # "act"

(* A daemon that was stopped has left the table, also when it never saw its *)
(* seat or its last acts arrive late, unless a sit or a leave got no answer *)
(* or the leave was refused: main.cpp 135 tries once, swallows the failure  *)
(* and does not look at the status, so that main() returns 0 with the seat  *)
(* still taken in these two cases.                                          *)
StoppedHasLeft == pc = "done" /\ ~gaveUp /\ ~leaveRefused => tSeat = NoSeat

(* HISS_DRYRUN never touches the table: no POST is ever sent, under way or *)
(* taken, whatever views, kills and signals do.                            *)
DryRunOnlyWatches ==
  dry => /\ cur \in {Idle, ViewReq} /\ late = {}
         /\ tSeat = NoSeat /\ endings = <<>>

(* SIGTERM ends the process, whatever the network does: every wait in the  *)
(* loop is bounded by curl's timeout and the flag is tested every round.   *)
SignalStops == ~g_run ~> pc \in {"done", "killed"}

(* With a network that works again and again, a turn of ours is played,    *)
(* unless the daemon is told to stop first: no view, no remembered seat and*)
(* no combination of legal actions leaves it watching its own turn.        *)
TurnsArePlayed ==
  \A t \in 1..MaxTurns :
    (OurTurn /\ Turn = t) ~> (Len(endings) >= t \/ ~g_run)
=============================================================================
