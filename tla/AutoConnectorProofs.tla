------------------------- MODULE AutoConnectorProofs -------------------------
(***************************************************************************)
(* Proofs about AutoConnector, for any number of processes, sessions and   *)
(* tables.                                                                 *)
(***************************************************************************)
EXTENDS AutoConnector, TLAPS

(* What the constants are, without the arithmetic behind them. *)
LEMMA Domains ==
  /\ NoTable \notin Table
  /\ NoProcess \notin Process
  /\ NoSession \notin SessionId
  /\ 0 \in SessionId
  /\ LongAgo \in LongAgo .. MaxPeriod
  /\ \A n \in 0 .. MaxPeriod : n \in LongAgo .. MaxPeriod
  /\ 0 \in 0 .. MaxPeriod
BY AutoConnectorAssumption DEF AutoConnectorAssumption, NoProcess, Process, NoSession, SessionId, LongAgo

-----------------------------------------------------------------------------
(* The type invariant. *)

THEOREM SlotsTypeCorrect == Spec => []TypeOK
<1>1. Init => TypeOK
  <2>1. Init => reliable \in BOOLEAN /\ throttled \in BOOLEAN /\ open \subseteq Table
    BY DEF Init
  <2>2. Init => /\ now \in 0 .. MaxPeriod
                /\ mutex \in Process \cup {NoProcess}
                /\ slot \in [SessionId -> Table \cup {NoTable}]
                /\ pid \in [SessionId -> Process \cup {NoProcess}]
                /\ stamp \in [SessionId -> LongAgo .. MaxPeriod]
    BY Domains DEF Init
  <2>3. Init => /\ pc \in [Process -> Location]
                /\ sid \in [Process -> SessionId \cup {NoSession}]
                /\ hwnd \in [Process -> Table \cup {NoTable}]
                /\ pick \in [Process -> Table \cup {NoTable}]
                /\ scan \in [Process -> {"crashed", "frozen"}]
                /\ aim \in [Process -> SessionId]
                /\ seen \in [Process -> 0 .. MaxPeriod]
    BY Domains DEF Init, Location
  <2> QED BY <2>1, <2>2, <2>3 DEF TypeOK
<1>2. TypeOK /\ [Next]_vars => TypeOK'
  <2> SUFFICES ASSUME TypeOK, [Next]_vars PROVE TypeOK'
    OBVIOUS
  <2>1. CASE World
    <3>1. CASE SecondPasses
      BY <3>1 DEF TypeOK, SecondPasses, procVars, worldVars
    <3>2. CASE PeriodPasses
      <4>1. now' \in 0 .. MaxPeriod
        BY <3>2, AutoConnectorAssumption DEF TypeOK, PeriodPasses, AutoConnectorAssumption
      <4> QED BY <3>2, <4>1 DEF TypeOK, PeriodPasses, sharedVars, procVars
    <3>3. ASSUME NEW t \in Table, OpenWindow(t) \/ CloseWindow(t) PROVE TypeOK'
      BY <3>3 DEF TypeOK, OpenWindow, CloseWindow, sharedVars, procVars
    <3> QED BY <2>1, <3>1, <3>2, <3>3 DEF World
  <2>2. ASSUME NEW p \in Process, StartUp(p) PROVE TypeOK'
    <3>1. CASE Start(p)
      BY <3>1, Domains DEF TypeOK, Start, GoTo, Location, worldVars
    <3>2. CASE AquireOwnProcessID(p)
      BY <3>2, Domains DEF TypeOK, AquireOwnProcessID, GoTo, Location, worldVars
    <3>3. CASE CreateAutoConnector(p)
      BY <3>3, Domains DEF TypeOK, CreateAutoConnector, GoTo, Location, worldVars
    <3> QED BY <2>2, <3>1, <3>2, <3>3 DEF StartUp
  <2>3. ASSUME NEW p \in Process, Heartbeat(p) PROVE TypeOK'
    <3>1. CASE Beat(p)
      BY <3>1 DEF TypeOK, Beat, Served, GoTo, Location, worldVars, sharedVars
    <3>2. CASE ConnectRefused(p)
      BY <3>2 DEF TypeOK, ConnectRefused, GoTo, Location, worldVars, sharedVars
    <3>3. CASE Connect(p)
      BY <3>3 DEF TypeOK, Connect, GoTo, Location, worldVars
    <3>4. CASE Attach(p)
      BY <3>4 DEF TypeOK, Attach, GoTo, Location, worldVars
    <3>5. CASE FinishConnect(p)
      BY <3>5 DEF TypeOK, FinishConnect, Served, GoTo, Location, worldVars
    <3>6. CASE Disconnect(p)
      BY <3>6 DEF TypeOK, Disconnect, GoTo, Location, worldVars
    <3> QED BY <2>3, <3>1, <3>2, <3>3, <3>4, <3>5, <3>6 DEF Heartbeat
  <2>4. ASSUME NEW p \in Process, Watchdog(p) PROVE TypeOK'
    <3>1. CASE Watch(p)
      BY <3>1, Domains DEF TypeOK, Watch, GoTo, Location, worldVars
    <3>2. CASE ScanCrashed(p)
      BY <3>2, Domains DEF TypeOK, ScanCrashed, Advance, GoTo, Location, worldVars, sharedVars
    <3>3. CASE ScanFrozen(p)
      BY <3>3, Domains DEF TypeOK, ScanFrozen, OpenHoldemProcessID, Renewed, Advance, GoTo, Location, worldVars
    <3>4. CASE Kill(p)
      BY <3>4, Domains DEF TypeOK, Kill, OpenHoldemProcessID, Renewed, Die, Location, worldVars
    <3>5. CASE KillOther(p)
      BY <3>5, Domains DEF TypeOK, KillOther, OpenHoldemProcessID, Renewed, GoTo, Location, worldVars
    <3>6. CASE KillFails(p)
      BY <3>6 DEF TypeOK, KillFails, OpenHoldemProcessID, Renewed, GoTo, Location, worldVars, sharedVars
    <3>7. CASE Forget(p)
      BY <3>7, Domains DEF TypeOK, Forget, GoTo, Location, worldVars
    <3>8. CASE Wipe(p)
      BY <3>8, Domains DEF TypeOK, Wipe, Advance, GoTo, Location, worldVars
    <3> QED BY <2>4, <3>1, <3>2, <3>3, <3>4, <3>5, <3>6, <3>7, <3>8 DEF Watchdog
  <2>5. ASSUME NEW p \in Process, Ending(p) PROVE TypeOK'
    <3>1. CASE Exit(p)
      BY <3>1, Domains DEF TypeOK, Exit, Die, Location, worldVars
    <3>2. CASE Crash(p)
      BY <3>2, Domains DEF TypeOK, Crash, Die, Location, worldVars
    <3> QED BY <2>5, <3>1, <3>2 DEF Ending
  <2>6. CASE UNCHANGED vars
    BY <2>6 DEF TypeOK, vars, worldVars, sharedVars, procVars
  <2> QED BY <2>1, <2>2, <2>3, <2>4, <2>5, <2>6 DEF Next
<1> QED BY <1>1, <1>2, PTL DEF Spec

-----------------------------------------------------------------------------
(* The slots.  Running processes have session ids of their own, only the    *)
(* holder of the mutex is between choosing a table and having its slot      *)
(* written, what it chose is in no slot, and a slot in use names nothing    *)
(* but the table of its owner.                                              *)

OwnSession ==
  /\ \A p \in Process : Running(p) => sid[p] \in SessionId
  /\ \A p \in Process : ~Running(p) => sid[p] = NoSession
  /\ \A p, q \in Process : p # q /\ sid[p] = sid[q] => sid[p] = NoSession

HolderChooses ==
  \A p \in Process :
    /\ pc[p] \in {"attach", "load"} => mutex = p
    /\ pc[p] = "attach" => pick[p] \in Table /\ \A i \in SessionId : slot[i] # pick[p]

SlotOfOwner ==
  \A p \in Process :
    /\ ~Connecting(p) \/ pc[p] \in {"connect", "attach"} => hwnd[p] = NoTable
    /\ Connecting(p) => slot[sid[p]] \in {NoTable, hwnd[p]}

SlotInv == OwnSession /\ HolderChooses /\ SlotOfOwner /\ OneSlotPerTable

LEMMA SlotStep == TypeOK /\ SlotInv /\ [Next]_vars => SlotInv'
<1> SUFFICES ASSUME TypeOK, SlotInv, [Next]_vars PROVE SlotInv'
  OBVIOUS
<1> USE DEF SlotInv, OwnSession, HolderChooses, SlotOfOwner, OneSlotPerTable, Connecting, Registered, Running
<1>1. CASE World
  BY <1>1 DEF TypeOK, World, SecondPasses, PeriodPasses, OpenWindow, CloseWindow, sharedVars, procVars, worldVars
<1>2. ASSUME NEW p \in Process, StartUp(p) PROVE SlotInv'
  <2>1. CASE Start(p)
    BY <2>1, Domains DEF TypeOK, Start, GoTo, worldVars
  <2>2. CASE AquireOwnProcessID(p)
    BY <2>2, Domains DEF TypeOK, AquireOwnProcessID, GoTo, worldVars
  <2>3. CASE CreateAutoConnector(p)
    BY <2>3, Domains DEF TypeOK, CreateAutoConnector, GoTo, worldVars
  <2> QED BY <1>2, <2>1, <2>2, <2>3 DEF StartUp
<1>3. ASSUME NEW p \in Process, Heartbeat(p) PROVE SlotInv'
  <2>1. CASE Beat(p)
    BY <2>1, Domains DEF TypeOK, Beat, Served, GoTo, worldVars, sharedVars
  <2>2. CASE ConnectRefused(p)
    BY <2>2, Domains DEF TypeOK, ConnectRefused, GoTo, worldVars, sharedVars
  <2>3. CASE Connect(p)
    BY <2>3, Domains DEF TypeOK, Connect, PokerWindowAttached, GoTo, worldVars
  <2>4. CASE Attach(p)
    BY <2>4, Domains DEF TypeOK, Attach, GoTo, worldVars
  <2>5. CASE FinishConnect(p)
    BY <2>5, Domains DEF TypeOK, FinishConnect, Served, GoTo, worldVars
  <2>6. CASE Disconnect(p)
    BY <2>6, Domains DEF TypeOK, Disconnect, GoTo, worldVars
  <2> QED BY <1>3, <2>1, <2>2, <2>3, <2>4, <2>5, <2>6 DEF Heartbeat
<1>4. ASSUME NEW p \in Process, Watchdog(p) PROVE SlotInv'
  <2>1. CASE Watch(p)
    BY <2>1, Domains DEF TypeOK, Watch, GoTo, worldVars
  <2>2. CASE ScanCrashed(p)
    BY <2>2, Domains DEF TypeOK, ScanCrashed, Advance, GoTo, worldVars, sharedVars
  <2>3. CASE ScanFrozen(p)
    BY <2>3, Domains DEF TypeOK, ScanFrozen, OpenHoldemProcessID, Renewed, Advance, GoTo, worldVars
  <2>4. CASE Kill(p)
    BY <2>4, Domains DEF TypeOK, Kill, OpenHoldemProcessID, Renewed, Die, worldVars
  <2>5. CASE KillOther(p)
    BY <2>5, Domains DEF TypeOK, KillOther, OpenHoldemProcessID, Renewed, GoTo, worldVars
  <2>6. CASE KillFails(p)
    BY <2>6, Domains DEF TypeOK, KillFails, OpenHoldemProcessID, Renewed, GoTo, worldVars, sharedVars
  <2>7. CASE Forget(p)
    BY <2>7, Domains DEF TypeOK, Forget, GoTo, worldVars
  <2>8. CASE Wipe(p)
    BY <2>8, Domains DEF TypeOK, Wipe, Advance, GoTo, worldVars
  <2> QED BY <1>4, <2>1, <2>2, <2>3, <2>4, <2>5, <2>6, <2>7, <2>8 DEF Watchdog
<1>5. ASSUME NEW p \in Process, Ending(p) PROVE SlotInv'
  <2>1. CASE Exit(p)
    BY <2>1, Domains DEF TypeOK, Exit, Die, worldVars
  <2>2. CASE Crash(p)
    BY <2>2, Domains DEF TypeOK, Crash, Die, worldVars
  <2> QED BY <1>5, <2>1, <2>2 DEF Ending
<1>6. CASE UNCHANGED vars
  BY <1>6 DEF vars, worldVars, sharedVars, procVars
<1> QED BY <1>1, <1>2, <1>3, <1>4, <1>5, <1>6 DEF Next

LEMMA SlotInit == Init => SlotInv
BY Domains DEF Init, SlotInv, OwnSession, HolderChooses, SlotOfOwner, OneSlotPerTable, Connecting, Registered, Running

LEMMA SlotInvariant == Spec => [](TypeOK /\ SlotInv)
BY SlotInit, SlotStep, SlotsTypeCorrect, PTL DEF Spec

(* However the choice of a table and the write of its slot interleave with  *)
(* crashes, kills and clean-ups, no two slots name the same table           *)
(* (CAutoConnector::Connect, CSharedMem::MarkPokerWindowAsAttached).         *)
THEOREM SlotsDisjoint == Spec => []OneSlotPerTable
<1>1. SlotInv => OneSlotPerTable
  BY DEF SlotInv
<1> QED BY <1>1, SlotInvariant, PTL

-----------------------------------------------------------------------------
(* The living bots.  Under the conditions of reliable, a clean-up that is   *)
(* past its check never aims at the session of a process that has entered   *)
(* itself, so the entry and the slot of such a process stay what it wrote.  *)

NoAimAtTheLiving ==
  \A w, p \in Process : pc[w] \in {"forget", "wipe"} /\ Registered(p) => aim[w] # sid[p]

BotInv == reliable => NoAimAtTheLiving /\ LivingBotsAreOnRecord

LEMMA BotStep == TypeOK /\ SlotInv /\ BotInv /\ [Next]_vars => BotInv'
<1> SUFFICES ASSUME TypeOK, SlotInv, BotInv, [Next]_vars, reliable' PROVE NoAimAtTheLiving' /\ LivingBotsAreOnRecord'
  BY DEF BotInv
<1>0. reliable
  BY DEF Next, World, SecondPasses, PeriodPasses, OpenWindow, CloseWindow, StartUp, Heartbeat, Watchdog, Ending,
     Start, AquireOwnProcessID, CreateAutoConnector, Beat, ConnectRefused, Connect, Attach, FinishConnect, Disconnect,
     Watch, ScanCrashed, ScanFrozen, Kill, KillOther, KillFails, Forget, Wipe, Exit, Crash, vars, worldVars
<1> DEFINE Goal == NoAimAtTheLiving' /\ LivingBotsAreOnRecord'
<1> USE <1>0 DEF BotInv, NoAimAtTheLiving, LivingBotsAreOnRecord, SlotInv, OwnSession, SlotOfOwner, Connecting, Registered, Running
<1>1. CASE World
  BY <1>1 DEF TypeOK, World, SecondPasses, PeriodPasses, OpenWindow, CloseWindow, sharedVars, procVars, worldVars
<1>2. ASSUME NEW p \in Process, StartUp(p) PROVE Goal
  <2>1. CASE Start(p)
    BY <2>1, Domains DEF TypeOK, Start, GoTo, worldVars
  <2>2. CASE AquireOwnProcessID(p)
    BY <2>2, Domains DEF TypeOK, AquireOwnProcessID, GoTo, worldVars
  <2>3. CASE CreateAutoConnector(p)
    BY <2>3, Domains DEF TypeOK, CreateAutoConnector, GoTo, worldVars
  <2> QED BY <1>2, <2>1, <2>2, <2>3 DEF StartUp
<1>3. ASSUME NEW p \in Process, Heartbeat(p) PROVE Goal
  <2>1. CASE Beat(p)
    BY <2>1, Domains DEF TypeOK, Beat, Served, GoTo, worldVars, sharedVars
  <2>2. CASE ConnectRefused(p)
    BY <2>2, Domains DEF TypeOK, ConnectRefused, GoTo, worldVars, sharedVars
  <2>3. CASE Connect(p)
    BY <2>3, Domains DEF TypeOK, Connect, PokerWindowAttached, GoTo, worldVars
  <2>4. CASE Attach(p)
    BY <2>4, Domains DEF TypeOK, Attach, GoTo, worldVars
  <2>5. CASE FinishConnect(p)
    BY <2>5, Domains DEF TypeOK, FinishConnect, Served, GoTo, worldVars
  <2>6. CASE Disconnect(p)
    BY <2>6, Domains DEF TypeOK, Disconnect, GoTo, worldVars
  <2> QED BY <1>3, <2>1, <2>2, <2>3, <2>4, <2>5, <2>6 DEF Heartbeat
<1>4. ASSUME NEW p \in Process, Watchdog(p) PROVE Goal
  <2>1. CASE Watch(p)
    BY <2>1, Domains DEF TypeOK, Watch, GoTo, worldVars
  <2>2. CASE ScanCrashed(p)
    BY <2>2, Domains DEF TypeOK, ScanCrashed, IsDeadOpenHoldemProcess, Advance, GoTo, worldVars, sharedVars
  <2>3. CASE ScanFrozen(p)
    BY <2>3, Domains DEF TypeOK, ScanFrozen, OpenHoldemProcessID, Renewed, Advance, GoTo, worldVars
  <2>4. CASE Kill(p)
    BY <2>4, Domains DEF TypeOK, Kill, OpenHoldemProcessID, Renewed, Die, worldVars
  <2>5. CASE KillOther(p)
    BY <2>5, Domains DEF TypeOK, KillOther, OpenHoldemProcessID, Renewed, GoTo, worldVars
  <2>6. CASE KillFails(p)
    BY <2>6 DEF KillFails
  <2>7. CASE Forget(p)
    BY <2>7, Domains DEF TypeOK, Forget, GoTo, worldVars
  <2>8. CASE Wipe(p)
    BY <2>8, Domains DEF TypeOK, Wipe, Advance, GoTo, worldVars
  <2> QED BY <1>4, <2>1, <2>2, <2>3, <2>4, <2>5, <2>6, <2>7, <2>8 DEF Watchdog
<1>5. ASSUME NEW p \in Process, Ending(p) PROVE Goal
  <2>1. CASE Exit(p)
    BY <2>1, Domains DEF TypeOK, Exit, Die, worldVars
  <2>2. CASE Crash(p)
    BY <2>2, Domains DEF TypeOK, Crash, Die, worldVars
  <2> QED BY <1>5, <2>1, <2>2 DEF Ending
<1>6. CASE UNCHANGED vars
  BY <1>6 DEF vars, worldVars, sharedVars, procVars
<1> QED BY <1>1, <1>2, <1>3, <1>4, <1>5, <1>6 DEF Next

LEMMA BotInvariant == Spec => [](TypeOK /\ SlotInv /\ BotInv)
<1>1. Init => BotInv
  BY Domains DEF Init, BotInv, NoAimAtTheLiving, LivingBotsAreOnRecord, Connecting, Registered
<1> QED BY <1>1, BotStep, SlotInvariant, PTL DEF Spec

(* As long as kills succeed and no start overtakes a clean-up, the watchdogs *)
(* (CWatchdog.cpp) erase no living bot.                                      *)
THEOREM BotsOnRecord == Spec => []LivingBotsAreOnRecord
<1>1. BotInv => LivingBotsAreOnRecord
  BY DEF BotInv, LivingBotsAreOnRecord
<1> QED BY <1>1, BotInvariant, PTL

(* And under the same conditions no two living bots serve one table: each of *)
(* them has the table in its own slot, and the slots are disjoint.           *)
THEOREM BotsDisjoint == Spec => []OneBotPerTable
<1>1. TypeOK /\ SlotInv /\ BotInv => OneBotPerTable
  <2> SUFFICES ASSUME TypeOK, SlotInv, BotInv, reliable,
                      NEW p \in Process, NEW q \in Process, p # q, hwnd[p] = hwnd[q], hwnd[p] # NoTable
               PROVE FALSE
    BY DEF OneBotPerTable
  <2>1. Connecting(p) /\ Connecting(q)
    BY DEF SlotInv, SlotOfOwner
  <2>2. slot[sid[p]] = hwnd[p] /\ slot[sid[q]] = hwnd[q]
    BY <2>1 DEF BotInv, LivingBotsAreOnRecord
  <2>3. sid[p] \in SessionId /\ sid[q] \in SessionId /\ sid[p] # sid[q]
    BY <2>1, Domains DEF SlotInv, OwnSession, Running, Connecting, Registered
  <2> QED BY <2>2, <2>3 DEF SlotInv, OneSlotPerTable
<1> QED BY <1>1, BotInvariant, PTL

-----------------------------------------------------------------------------
(* The slots implement TableAssignment: only Attach writes a table into a    *)
(* slot, into an empty one, and every other step clears one slot or none.    *)

LEMMA AssignmentStep == TypeOK /\ SlotInv /\ [Next]_vars => [Assignment!Next]_slot
<1> SUFFICES ASSUME TypeOK, SlotInv, Next PROVE Assignment!Next \/ slot' = slot
  BY DEF vars, sharedVars
<1>1. ASSUME NEW p \in Process, Attach(p) PROVE Assignment!Next
  <2>1. sid[p] \in SessionId
    BY <1>1 DEF SlotInv, OwnSession, Running, Attach
  <2>2. slot[sid[p]] = NoTable
    BY <1>1 DEF SlotInv, SlotOfOwner, Connecting, Registered, Attach
  <2>3. pick[p] \in Table /\ \A i \in SessionId : slot[i] # pick[p]
    BY <1>1 DEF SlotInv, HolderChooses, Attach
  <2>4. Assignment!Claim(sid[p], pick[p])
    BY <1>1, <2>2, <2>3 DEF Assignment!Claim, Attach
  <2> QED BY <2>1, <2>3, <2>4 DEF Assignment!Next
<1>2. ASSUME NEW p \in Process, CreateAutoConnector(p) \/ Disconnect(p) \/ Exit(p) PROVE Assignment!Next
  <2>1. sid[p] \in SessionId
    BY <1>2 DEF SlotInv, OwnSession, Running, CreateAutoConnector, Disconnect, Exit
  <2>2. Assignment!Release(sid[p])
    BY <1>2 DEF Assignment!Release, CreateAutoConnector, Disconnect, Exit
  <2> QED BY <2>1, <2>2 DEF Assignment!Next
<1>3. ASSUME NEW p \in Process, Wipe(p) PROVE Assignment!Next
  <2>1. aim[p] \in SessionId /\ Assignment!Release(aim[p])
    BY <1>3 DEF TypeOK, Assignment!Release, Wipe
  <2> QED BY <2>1 DEF Assignment!Next
<1>4. CASE World
  BY <1>4 DEF World, SecondPasses, PeriodPasses, OpenWindow, CloseWindow, sharedVars
<1>5. ASSUME NEW p \in Process, StartUp(p), ~CreateAutoConnector(p) PROVE slot' = slot
  BY <1>5 DEF StartUp, Start, AquireOwnProcessID
<1>6. ASSUME NEW p \in Process, Heartbeat(p), ~Attach(p), ~Disconnect(p) PROVE slot' = slot
  BY <1>6 DEF Heartbeat, Beat, ConnectRefused, Connect, FinishConnect, sharedVars
<1>7. ASSUME NEW p \in Process, Watchdog(p), ~Wipe(p) PROVE slot' = slot
  BY <1>7 DEF Watchdog, Watch, ScanCrashed, ScanFrozen, Kill, KillOther, KillFails, Forget, sharedVars
<1>8. ASSUME NEW p \in Process, Ending(p), ~Exit(p) PROVE slot' = slot
  BY <1>8 DEF Ending, Crash
<1> QED BY <1>1, <1>2, <1>3, <1>4, <1>5, <1>6, <1>7, <1>8 DEF Next, StartUp, Heartbeat, Watchdog, Ending

(* A session claims a table only while it has none and nobody else has that  *)
(* table (CAutoConnector.cpp, "automatically connecting to unserved          *)
(* poker-tables").                                                           *)
THEOREM ImplementsAssignment == Spec => AssignsTables
<1>1. Init => Assignment!Init
  BY DEF Init, Assignment!Init
<1> QED BY <1>1, AssignmentStep, SlotInvariant, PTL DEF Spec, AssignsTables, Assignment!Spec
=============================================================================
