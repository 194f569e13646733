---------------------------- MODULE AutoConnector ----------------------------
(***************************************************************************)
(* Several instances of the bot share a desktop and divide its tables      *)
(* among themselves through a shared memory segment (CSharedMem.cpp), one  *)
(* slot per session id.  An instance takes the lowest free session id from *)
(* the operating system (CSessionCounter.cpp), connects to a table nobody  *)
(* serves while it holds the auto-connector mutex (CAutoConnector.cpp),    *)
(* and in every heartbeat (CHeartbeatThread.cpp) watches the others and    *)
(* frees the slots of the ones that crashed or froze (CWatchdog.cpp) --    *)
(* without that mutex.                                                     *)
(*                                                                         *)
(* A process is named by the order of its start, and its process id is     *)
(* never handed out again.  Time is counted in periods of                  *)
(* kSecondsToconsiderAProcessAsFrozen (15 s) up to MaxPeriod.              *)
(***************************************************************************)
EXTENDS Integers

CONSTANTS MaxProcesses, MaxSessions, Table, NoTable, MaxPeriod

ASSUME AutoConnectorAssumption ==
  /\ NoTable \notin Table
  /\ MaxProcesses \in Nat
  /\ MaxSessions \in Nat \ {0}
  /\ MaxPeriod \in Nat

VARIABLES
  reliable,   \* environment: kills succeed and no start overtakes a clean-up
  open,       \* windows that exist on the desktop
  now,        \* the clock
  mutex,      \* holder of the auto-connector mutex
  slot,       \* attached_poker_windows[]
  pid,        \* openholdem_PIDs[]
  stamp,      \* timestamps_openholdem_alive[]
  throttled,  \* last_failed_attempt_to_connect is less than a second ago
  pc,         \* where each process is
  sid,        \* CSessionCounter::_session_id
  hwnd,       \* CAutoConnector::_attached_hwnd
  pick,       \* g_tlist[SelectedItem]
  scan,       \* which loop of the watchdog runs
  aim,        \* the loop's index
  seen        \* current_time of WatchForFrozenProcesses

procVars   == <<pc, sid, hwnd, pick, scan, aim, seen>>
sharedVars == <<mutex, slot, pid, stamp, throttled>>
worldVars  == <<reliable, open, now>>
vars       == <<worldVars, sharedVars, procVars>>

Process   == 1 .. MaxProcesses
NoProcess == 0
SessionId == 0 .. MaxSessions - 1
NoSession == -1
LongAgo   == -2            \* kUndefinedZero: more than two periods ago

Location == {"unborn", "counted", "registered", "beat", "closeGone", "connect",
             "attach", "load", "closeTheme", "watch", "scan", "kill",
             "forget", "wipe", "gone"}

Running(p) == pc[p] \notin {"unborn", "gone"}

GoTo(p, l) == pc' = [pc EXCEPT ![p] = l]

\* CSharedMem::PokerWindowAttached
PokerWindowAttached(t) == \E i \in SessionId : slot[i] = t

\* The operating system releases what a dead process held.
Die(p) ==
  /\ pc'    = [pc EXCEPT ![p] = "gone"]
  /\ sid'   = [sid EXCEPT ![p] = NoSession]
  /\ hwnd'  = [hwnd EXCEPT ![p] = NoTable]
  /\ pick'  = [pick EXCEPT ![p] = NoTable]
  /\ scan'  = [scan EXCEPT ![p] = "crashed"]
  /\ aim'   = [aim EXCEPT ![p] = 0]
  /\ seen'  = [seen EXCEPT ![p] = 0]
  /\ mutex' = IF mutex = p THEN NoProcess ELSE mutex

-----------------------------------------------------------------------------
(* Starting *)

\* CSessionCounter, then the constructor of CWatchdog: the lowest id whose
\* named mutex does not exist yet, and a first sign of life.  With none left the
\* code asks itself to quit and goes on with the id -1, which writes before the
\* arrays: not modelled.
Start(p) ==
  LET free == SessionId \ {sid[q] : q \in Process} IN
  /\ pc[p] = "unborn"
  /\ \A q \in 1 .. p - 1 : pc[q] # "unborn"
  /\ \E i \in free :
       /\ \A j \in free : i <= j
       /\ sid'   = [sid EXCEPT ![p] = i]
       /\ stamp' = [stamp EXCEPT ![i] = now]
  /\ GoTo(p, "counted")
  /\ UNCHANGED <<worldVars, mutex, slot, pid, throttled, hwnd, pick, scan, aim, seen>>

\* CSharedMem::AquireOwnProcessID.
AquireOwnProcessID(p) ==
  /\ pc[p] = "counted"
  /\ reliable => \A w \in Process : pc[w] \in {"forget", "wipe"} => aim[w] # sid[p]
  /\ pid' = [pid EXCEPT ![sid[p]] = p]
  /\ GoTo(p, "registered")
  /\ UNCHANGED <<worldVars, mutex, slot, stamp, throttled, sid, hwnd, pick, scan, aim, seen>>

\* The constructor of CAutoConnector clears whatever a predecessor left.
CreateAutoConnector(p) ==
  /\ pc[p] = "registered"
  /\ slot' = [slot EXCEPT ![sid[p]] = NoTable]
  /\ GoTo(p, "beat")
  /\ UNCHANGED <<worldVars, mutex, pid, stamp, throttled, sid, hwnd, pick, scan, aim, seen>>

-----------------------------------------------------------------------------
(* The heartbeat: HeartbeatThreadFunction *)

\* How ScrapeEvaluateAct ends for the window it serves: on to the watchdog,
\* or the table points mismatch (TablepointsMismatchedTheLastNHeartbeats).  A
\* window that closed meanwhile is skipped and found gone in the next beat.
Served(t) == IF t \in open THEN {"watch", "closeTheme"} ELSE {"watch"}

\* IsConnectedToGoneWindow; not connected; or connected to a window.
Beat(p) ==
  /\ pc[p] = "beat"
  /\ \/ hwnd[p] \in open /\ \E l \in Served(hwnd[p]) : GoTo(p, l)
     \/ hwnd[p] \in Table \ open /\ GoTo(p, "closeGone")
     \/ hwnd[p] = NoTable /\ GoTo(p, "connect")
  /\ UNCHANGED <<worldVars, sharedVars, sid, hwnd, pick, scan, aim, seen>>

\* AutoConnect is blocked by a recent failure of any instance, or Connect
\* waits 500 ms for the mutex in vain.
ConnectRefused(p) ==
  /\ pc[p] = "connect"
  /\ throttled \/ mutex # NoProcess
  /\ GoTo(p, "watch")
  /\ UNCHANGED <<worldVars, sharedVars, sid, hwnd, pick, scan, aim, seen>>

\* Mutant: the timeout of the mutex is ignored.
ConnectWithoutWaiting(p) ==
  /\ pc[p] = "connect" /\ ~throttled
  /\ \E t \in {u \in open : ~PokerWindowAttached(u)} : pick' = [pick EXCEPT ![p] = t]
  /\ mutex' = p
  /\ GoTo(p, "attach")
  /\ UNCHANGED <<worldVars, slot, pid, stamp, throttled, sid, hwnd, scan, aim, seen>>

\* Connect: the candidates are the windows no slot names.  With none the
\* failure is remembered and the mutex released; else one is selected, the
\* mutex stays held and the slot is still to be written.
Connect(p) ==
  LET candidates == {t \in open : ~PokerWindowAttached(t)} IN
  /\ pc[p] = "connect"
  /\ ~throttled
  /\ mutex = NoProcess
  /\ \/ /\ candidates = {}
        /\ throttled' = TRUE
        /\ GoTo(p, "watch")
        /\ UNCHANGED <<mutex, pick>>
     \/ /\ \E t \in candidates : pick' = [pick EXCEPT ![p] = t]
        /\ mutex' = p
        /\ GoTo(p, "attach")
        /\ UNCHANGED throttled
  /\ UNCHANGED <<worldVars, slot, pid, stamp, sid, hwnd, scan, aim, seen>>

\* set_attached_hwnd(g_tlist[SelectedItem].hwnd)
Attach(p) ==
  /\ pc[p] = "attach"
  /\ hwnd' = [hwnd EXCEPT ![p] = pick[p]]
  /\ slot' = [slot EXCEPT ![sid[p]] = pick[p]]
  /\ pick' = [pick EXCEPT ![p] = NoTable]
  /\ GoTo(p, "load")
  /\ UNCHANGED <<worldVars, mutex, pid, stamp, throttled, sid, scan, aim, seen>>

\* The table map is loaded, everything reset, Connect unlocks, and the new
\* table is served in the same heartbeat.
FinishConnect(p) ==
  /\ pc[p] = "load"
  /\ mutex' = NoProcess
  /\ \E l \in Served(hwnd[p]) : GoTo(p, l)
  /\ UNCHANGED <<worldVars, slot, pid, stamp, throttled, sid, hwnd, pick, scan, aim, seen>>

\* Disconnect: Lock(INFINITE), the slot is cleared, Unlock.  The heartbeat
\* goes on to connect if the window was gone, and to the watchdog otherwise.
Disconnect(p) ==
  /\ pc[p] \in {"closeGone", "closeTheme"}
  /\ mutex = NoProcess
  /\ hwnd' = [hwnd EXCEPT ![p] = NoTable]
  /\ slot' = [slot EXCEPT ![sid[p]] = NoTable]
  /\ GoTo(p, IF pc[p] = "closeGone" THEN "connect" ELSE "watch")
  /\ UNCHANGED <<worldVars, mutex, pid, stamp, throttled, sid, pick, scan, aim, seen>>

-----------------------------------------------------------------------------
(* The watchdog: HandleCrashedAndFrozenProcesses *)

\* Off without a process id of its own; else a sign of life, and the first loop.
Watch(p) ==
  /\ pc[p] = "watch"
  /\ IF pid[sid[p]] = NoProcess
     THEN GoTo(p, "beat") /\ UNCHANGED <<stamp, scan, aim>>
     ELSE /\ stamp' = [stamp EXCEPT ![sid[p]] = now]
          /\ scan' = [scan EXCEPT ![p] = "crashed"]
          /\ aim' = [aim EXCEPT ![p] = 0]
          /\ GoTo(p, "scan")
  /\ UNCHANGED <<worldVars, mutex, slot, pid, throttled, sid, hwnd, pick, seen>>

IsDeadOpenHoldemProcess(i) == pid[i] \in Process /\ ~Running(pid[i])

\* On to the next index; after the last one to the second loop, whose first
\* act is time(&current_time), or to the next heartbeat.
Advance(p) ==
  IF aim[p] + 1 \in SessionId
  THEN aim' = [aim EXCEPT ![p] = @ + 1] /\ GoTo(p, "scan") /\ UNCHANGED <<scan, seen>>
  ELSE /\ aim' = [aim EXCEPT ![p] = 0]
       /\ IF scan[p] = "crashed"
          THEN /\ scan' = [scan EXCEPT ![p] = "frozen"]
               /\ seen' = [seen EXCEPT ![p] = now]
               /\ GoTo(p, "scan")
          ELSE /\ scan' = [scan EXCEPT ![p] = "crashed"]
               /\ seen' = [seen EXCEPT ![p] = 0]
               /\ GoTo(p, "beat")

\* Mutant: only the ids below the own one are watched.
ScanCrashedBelow(p) ==
  /\ pc[p] = "scan" /\ scan[p] = "crashed"
  /\ IF aim[p] < sid[p] /\ IsDeadOpenHoldemProcess(aim[p])
     THEN GoTo(p, "forget") /\ UNCHANGED <<scan, aim, seen>>
     ELSE Advance(p)
  /\ UNCHANGED <<worldVars, sharedVars, sid, hwnd, pick>>

\* WatchForCrashedProcesses, one index: a dead process is cleaned up after.
ScanCrashed(p) ==
  /\ pc[p] = "scan" /\ scan[p] = "crashed"
  /\ IF IsDeadOpenHoldemProcess(aim[p])
     THEN GoTo(p, "forget") /\ UNCHANGED <<scan, aim, seen>>
     ELSE Advance(p)
  /\ UNCHANGED <<worldVars, sharedVars, sid, hwnd, pick>>

\* OpenHoldemProcessID(i) writes the own id again when somebody has erased it.
Renewed(p) == aim[p] = sid[p] /\ pid[sid[p]] = NoProcess
OpenHoldemProcessID(p) == IF Renewed(p) THEN p ELSE pid[aim[p]]

\* WatchForFrozenProcesses, one index: frozen for one period is killed, for
\* longer is taken for stale data and granted more time.
ScanFrozen(p) ==
  LET elapsed == seen[p] - stamp[aim[p]]
      process == OpenHoldemProcessID(p) IN
  /\ pc[p] = "scan" /\ scan[p] = "frozen"
  /\ pid' = [pid EXCEPT ![aim[p]] = process]
  /\ IF process # NoProcess /\ elapsed = 1
     THEN GoTo(p, "kill") /\ UNCHANGED <<stamp, scan, aim, seen>>
     ELSE /\ stamp' = IF process # NoProcess /\ elapsed > 1
                      THEN [stamp EXCEPT ![aim[p]] = now] ELSE stamp
          /\ Advance(p)
  /\ UNCHANGED <<worldVars, mutex, slot, throttled, sid, hwnd, pick>>

\* KillProcess of whatever id the entry holds by now, which may be the
\* watcher itself.
Kill(p) ==
  /\ pc[p] = "kill"
  /\ OpenHoldemProcessID(p) = p
  /\ pid' = [pid EXCEPT ![aim[p]] = p]
  /\ Die(p)
  /\ UNCHANGED <<worldVars, slot, stamp, throttled>>

\* Mutant: debug mode skips the kill and not the clean-up.
KillOtherInDebugMode(p) ==
  /\ pc[p] = "kill"
  /\ OpenHoldemProcessID(p) # p
  /\ GoTo(p, "forget")
  /\ UNCHANGED <<worldVars, sharedVars, sid, hwnd, pick, scan, aim, seen>>

KillOther(p) ==
  LET target == OpenHoldemProcessID(p) IN
  /\ pc[p] = "kill"
  /\ target # p
  /\ IF target \in Process /\ Running(target)
     THEN /\ pc'   = [pc EXCEPT ![target] = "gone", ![p] = "forget"]
          /\ sid'  = [sid EXCEPT ![target] = NoSession]
          /\ hwnd' = [hwnd EXCEPT ![target] = NoTable]
          /\ pick' = [pick EXCEPT ![target] = NoTable]
          /\ mutex' = IF mutex = target THEN NoProcess ELSE mutex
     ELSE GoTo(p, "forget") /\ UNCHANGED <<sid, hwnd, pick, mutex>>
  /\ UNCHANGED <<worldVars, slot, pid, stamp, throttled, scan, aim, seen>>

\* OpenProcess or TerminateProcess fails; its result is ignored.
KillFails(p) ==
  /\ pc[p] = "kill"
  /\ ~reliable
  /\ pid' = [pid EXCEPT ![aim[p]] = OpenHoldemProcessID(p)]
  /\ GoTo(p, "forget")
  /\ UNCHANGED <<worldVars, mutex, slot, stamp, throttled, sid, hwnd, pick, scan, aim, seen>>

\* Mutant: the entry of the watcher itself is cleared.
ForgetOwn(p) ==
  /\ pc[p] = "forget"
  /\ stamp' = [stamp EXCEPT ![aim[p]] = LongAgo]
  /\ pid' = [pid EXCEPT ![sid[p]] = NoProcess]
  /\ GoTo(p, "wipe")
  /\ UNCHANGED <<worldVars, mutex, slot, throttled, sid, hwnd, pick, scan, aim, seen>>

\* MarkInstanceAsDead, then CleanUpProcessMemory clears the process id ...
Forget(p) ==
  /\ pc[p] = "forget"
  /\ stamp' = [stamp EXCEPT ![aim[p]] = LongAgo]
  /\ pid' = [pid EXCEPT ![aim[p]] = NoProcess]
  /\ GoTo(p, "wipe")
  /\ UNCHANGED <<worldVars, mutex, slot, throttled, sid, hwnd, pick, scan, aim, seen>>

\* ... and then the attached window; on with the loop.
Wipe(p) ==
  /\ pc[p] = "wipe"
  /\ slot' = [slot EXCEPT ![aim[p]] = NoTable]
  /\ Advance(p)
  /\ UNCHANGED <<worldVars, mutex, pid, stamp, throttled, sid, hwnd, pick>>

-----------------------------------------------------------------------------
(* Ending *)

\* A regular end stops the heartbeat at the top of its loop.  The destructor
\* of CAutoConnector clears the slot without the mutex, the ones of CWatchdog
\* and CSessionCounter follow; the process id stays in the shared memory.
Exit(p) ==
  /\ pc[p] = "beat"
  /\ slot' = [slot EXCEPT ![sid[p]] = NoTable]
  /\ stamp' = [stamp EXCEPT ![sid[p]] = LongAgo]
  /\ Die(p)
  /\ UNCHANGED <<worldVars, pid, throttled>>

Crash(p) ==
  /\ Running(p)
  /\ Die(p)
  /\ UNCHANGED <<worldVars, slot, pid, stamp, throttled>>

-----------------------------------------------------------------------------
(* The desktop and the clock *)

OpenWindow(t) ==
  /\ open' = open \cup {t}
  /\ UNCHANGED <<reliable, now, sharedVars, procVars>>

CloseWindow(t) ==
  /\ open' = open \ {t}
  /\ UNCHANGED <<reliable, now, sharedVars, procVars>>

\* A second passes since the last failure.
SecondPasses ==
  /\ throttled' = FALSE
  /\ UNCHANGED <<worldVars, mutex, slot, pid, stamp, procVars>>

PeriodPasses ==
  /\ now < MaxPeriod
  /\ now' = now + 1
  /\ UNCHANGED <<reliable, open, sharedVars, procVars>>

-----------------------------------------------------------------------------
Init ==
  /\ reliable \in BOOLEAN
  /\ open = {}
  /\ now = 0
  /\ mutex = NoProcess
  /\ slot = [i \in SessionId |-> NoTable]
  /\ pid = [i \in SessionId |-> NoProcess]
  /\ stamp = [i \in SessionId |-> LongAgo]
  /\ throttled = FALSE
  /\ pc = [p \in Process |-> "unborn"]
  /\ sid = [p \in Process |-> NoSession]
  /\ hwnd = [p \in Process |-> NoTable]
  /\ pick = [p \in Process |-> NoTable]
  /\ scan = [p \in Process |-> "crashed"]
  /\ aim = [p \in Process |-> 0]
  /\ seen = [p \in Process |-> 0]

StartUp(p) == Start(p) \/ AquireOwnProcessID(p) \/ CreateAutoConnector(p)

Heartbeat(p) ==
  \/ Beat(p) \/ ConnectRefused(p) \/ Connect(p)
  \/ Attach(p) \/ FinishConnect(p) \/ Disconnect(p)

Watchdog(p) ==
  \/ Watch(p) \/ ScanCrashed(p) \/ ScanFrozen(p)
  \/ Kill(p) \/ KillOther(p) \/ KillFails(p) \/ Forget(p) \/ Wipe(p)

Ending(p) == Exit(p) \/ Crash(p)

World == SecondPasses \/ PeriodPasses \/ \E t \in Table : OpenWindow(t) \/ CloseWindow(t)

Next ==
  \/ World
  \/ \E p \in Process : StartUp(p) \/ Heartbeat(p) \/ Watchdog(p) \/ Ending(p)

Spec == Init /\ [][Next]_vars

-----------------------------------------------------------------------------
(* Properties *)

TypeOK ==
  /\ reliable \in BOOLEAN
  /\ open \subseteq Table
  /\ now \in 0 .. MaxPeriod
  /\ mutex \in Process \cup {NoProcess}
  /\ slot \in [SessionId -> Table \cup {NoTable}]
  /\ pid \in [SessionId -> Process \cup {NoProcess}]
  /\ stamp \in [SessionId -> LongAgo .. MaxPeriod]
  /\ throttled \in BOOLEAN
  /\ pc \in [Process -> Location]
  /\ sid \in [Process -> SessionId \cup {NoSession}]
  /\ hwnd \in [Process -> Table \cup {NoTable}]
  /\ pick \in [Process -> Table \cup {NoTable}]
  /\ scan \in [Process -> {"crashed", "frozen"}]
  /\ aim \in [Process -> SessionId]
  /\ seen \in [Process -> 0 .. MaxPeriod]

(* No two slots of the shared memory name the same table, whatever crashes,
   kills and clean-ups come between the choice of a table and the write of
   its slot. *)
OneSlotPerTable ==
  \A i, j \in SessionId : i # j /\ slot[i] = slot[j] => slot[i] = NoTable

(* No two living bots serve the same table, as long as kills succeed and no
   start overtakes a clean-up of its session id. *)
OneBotPerTable ==
  reliable => \A p, q \in Process : p # q /\ hwnd[p] = hwnd[q] => hwnd[p] = NoTable

(* Under the same conditions the watchdogs never erase a living bot: its
   process id and its table stay in the shared memory until it clears them. *)
Registered(p) == pc[p] \notin {"unborn", "counted", "gone"}
Connecting(p) == Registered(p) /\ pc[p] # "registered"

LivingBotsAreOnRecord ==
  reliable => \A p \in Process :
                /\ Registered(p) => pid[sid[p]] = p
                /\ Connecting(p) => slot[sid[p]] = hwnd[p]

(* The slots implement the promise of TableAssignment. *)
Assignment == INSTANCE TableAssignment WITH holds <- slot

AssignsTables == Assignment!Spec

(* "so that another instance can connect to this table" (CWatchdog.cpp): the
   entry of a dead bot is cleaned up or taken over, unless no living bot is
   left whose watchdog is on. *)
OnWatch(p) == Connecting(p) /\ pid[sid[p]] # NoProcess

DeadBotsAreReleased ==
  \A i \in SessionId :
    IsDeadOpenHoldemProcess(i) ~>
      ~IsDeadOpenHoldemProcess(i) \/ ~\E p \in Process : OnWatch(p)

(* The operating system keeps scheduling every process that has started, and
   the mutex and the desktop do not owe anybody a turn. *)
FairSpec ==
  /\ Spec
  /\ \A p \in Process :
       WF_vars(AquireOwnProcessID(p) \/ CreateAutoConnector(p) \/ Heartbeat(p) \/ Watchdog(p))
=============================================================================
