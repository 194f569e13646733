# Verification project for Hiss (Linux)

TLA+ models of the Hiss poker bot, the TLC runs that check them on small
instances, and TLAPS proofs of their most important properties for every value
of the constants.  `src/` below is this repository; its C++ sources are in
`src/src/` (what runs on Linux) and `src/engine/oh/` (the OpenHoldem engine that
was ported with it).

Contents: 1 the system, 2 the modules, 3 the runs, 4 the proofs, 5 where the
code does not do what it says, 6 what is not modelled, 7 the plan.

## 1. The system

Two programs are built.

* **The API daemon** (`main.cpp`, `api.hpp`, `http.hpp`, `brain.hpp`) is one
  thread that sits down at a table of a poker server, polls its view of the
  table, answers every turn of its own with an act, and leaves when a signal
  stops it.  systemd restarts it when it dies.
* **The decision service** (`engined.cpp`, `server.cpp`) is an HTTP server with
  one thread around the OpenHoldem engine.  A request fills the table state, the
  engine evaluates all its symbols once, and the answer is the action of the
  bot's formulas.

The engine was written for a Windows program in which many instances, one per
table, read the screen and click buttons.  Its parts for that (heartbeat thread,
autoplayer, auto-connector, shared memory, watchdog) are compiled into this tree
but not started by the service, and `compat/` replaces threads, events and
critical sections by stubs.  They carry most of the program's concurrency and
are modelled too, under the Win32 contract they are written for.

| Component | State it keeps | Operations | Talks to | What makes it hard | What makes it correct |
|---|---|---|---|---|---|
| API daemon | seat number, stop flag | probe, sit, view, decide, act, leave | table server over HTTP | requests time out, arrive late or are refused, and nobody looks at the status; no request names a hand; restarts lose the memory | an act meets the turn it was decided for; a stopped daemon has left; a dry run touches nothing; turns are played |
| Decision service | table state, everything the engine remembers | `/decide`, `/health` | engine | memory survives from request to request, nothing says that a new hand began | the hero is the requested one; the history is of this hand |
| Hand-reset detector | values of the last heartbeat, window of three, hands played | one call per heartbeat | symbol engines | evidence comes in pieces, late, and is throttled | no reset too soon, one reset per hand |
| Engine container | order of the engines, connected flag | update on connection, evaluate all, update after an action | all engines, function collection | functions are evaluated while the pass is under way | a decision does not use old symbols; event functions run once |
| Function collection | caches, recursion counter, current function | evaluate, clear caches | parse trees, engines | re-entrancy, endless recursion in the bot's formulas | evaluation ends; the counter is the depth |
| Autoplayer cadence | stable frames, popup index, unfinished action | one call per heartbeat | mutex of all instances, windows | the casino redraws late; three kinds of input compete | acts on a stable view; nobody is starved |
| Primary decision and action | autoplayer functions that are true | calculate, back up, execute | bet size entry, engine | every step may fail half-way | never more than decided, never a fold for free |
| Bet size entry | attempts, focus | slider, input box, confirmation | windows | other windows take the focus between any two inputs | exact when undisturbed, confirmed again only after a loss |
| Auto-connector, shared memory, watchdog | slot, process id and time stamp per session; mutex | connect, disconnect, watch for crashed and frozen processes | other instances | crash, freeze and restart between any two steps; clean-up without the mutex | one bot per table; dead bots are released |
| Heartbeat thread | stop events, delay | one turn of the loop, stop | everything above | shutdown while a heartbeat runs | no use of deleted objects |
| Starter | time of the last start, pop-up state | start, stop | other instances | all instances decide at once | exactly one starts, one stops |
| Iterator thread | counters of the simulation, tally, results | restart (our turn, RECALC), iterate, publish | engines (prwin), autoplayer, formulas | shares counters without a lock; the heartbeat thread polls it | decisions use the complete results for their cards; neither side blocks the other |
| Table limits, blind guessing, tournament detection | best guess, locks of the hand and of the session, first five guesses | calculate (twice per heartbeat), lock, reset | hand-reset detector, dealer chair, scraper | title, bets and dealer may all be unreadable; whether blinds may be locked is itself guessed from the blinds | limits stand once locked, belong to the hand, a tournament's never lock |
| Symbol engines, formula parser, bet size adjustment | symbols of one heartbeat or one hand | reset and update hooks | engine container | order of updates, arithmetic on amounts | see section 6 |
| Scraper, windows, pools, GUI, database, chat, evaluator tables | -- | -- | -- | input and output, third-party code | not modelled |

`PROJECT.json` lists every component with its files, and under "hazards" the 40
places where the code can go wrong in a way that a test would hardly reach.

## 2. The modules

Each component has a module of its own with its CONSTANTS and their assumptions,
VARIABLES, one action per step of the code, the specification and the properties.
Names follow the source.  A variable or field marked *ghost* records something
the program does not know.  Definitions that say "Mutant" are plausible bugs in
one definition; no action uses them, and every property of a passing run is
violated when its mutant is put in.

**Daemon** -- `main.cpp` with `api.hpp`, `http.hpp` and `brain.hpp`, against an
external table server.  `pc` walks through `main()`; `cur` is the one outstanding
request; `late` holds POSTs that curl gave up on but that may still arrive.
`Main` and `LoopTest` start the process and a round, `SitAnswered`,
`ViewAnswered`, `ActAnswered` and `LeaveAnswered` handle the replies (with
`Decide` for `Brain::decide`), `RequestFails` is an exception or a timeout,
`Signal`, `Kill` and `Restart` are the signal handler, a crash and systemd.  The
server plays the others, ends a turn by its clock, makes the bot stand up, and
takes late requests.  It may refuse a sit, an act or a leave (`Refuses`), which the
program takes for an answer like any other (`http.hpp:67-74` looks at no status);
the ghost `leaveRefused` remembers it.  The server's decision points are numbered by
ghosts (`endings`, `accepted`).  Amounts are abstracted to what `decide()` tells apart.

**HandresetDetector, DecisionService** -- `CHandresetDetector`, and one request
of `engined.cpp` with the evaluation it causes.  `EvaluateAll` keeps the order of
`CEngineContainer::EvaluateAll`: the detector first, with the dealer chair and
the user chair of the evaluation before, then user chair, dealer chair, time and
history.  Dealer, user cards and community cards are compared as the code does;
the other methods may fire at any time (`OtherMethods`).  The caller plays one
hand after the other and asks as often as it likes in each: `DecideFirstOfHand`,
`DecideAgain`, `DecideWithoutBody`, `AnswerUnevaluated`.

**FunctionCollection, EngineContainer** -- `CFunction::Evaluate` with cache,
recursion guard and the record of the function under evaluation; above it the
passes `UpdateOnConnection` and `EvaluateAll`, the decision, and
`UpdateMemorySymbolsAfterAutoplayerAction`.  A parse tree is abstracted to the
engines it reads (`Reads`) and the functions it may call (`Calls`), a result to
the age of the oldest symbol in it.  `Uses(f)` is the least set with f that is
closed under calls; `RootsNestWithin(rank)` says that what engines evaluate during
a heartbeat does not recurse and nests within the limit.  Left out is that a refused
evaluation also switches the autoplayer off (`CFunction.cpp:94`): nothing in these
two modules reads that switch.

**Autoplayer** -- `CalculateFinalAnswer` with `CStableFramesCounter`, and
`DoAutoplayer`: popups, then every few heartbeats the secondary formulas, then
the primary ones, each input under the mutex of all instances.  What is scraped
is chosen anew in every heartbeat.

**PrimaryAction** -- one call of `CalcPrimaryFormulas` and
`ExecutePrimaryFormulasIfNecessary` for an OpenPPL bot: `Decide` translates the
decision and its backup actions (`RaiseBackups`, then `CallBackups`), `Allin`,
`BetPot`, `DoBetsize` and `RaiseCallCheckFold` try what is on in the order of the
code.  `PotButtons` are the sets of betpot buttons that a casino may show.  `Entry`
is what may come of entering an amount, by the slider (`Slide`) or the box (`Box`):
nothing, the amount as adjusted, or a wrong one (BetsizeEntry says when the box
orders exactly what was typed).  `adjust` says whether an amount may be adjusted
upwards to all in (`Adjusted`, `ToAllin`).  Every entry in the box sets f$betsize to
the amount typed, as `CBetsizeInputBox.cpp:105` does, so that `DoBetsize` bets it again
after a betpot or allin that did not go through.  A raise of least size counts as what is
put in by any raise, so that `SwagAdjustment.cpp:236-238`, which lifts a smaller
decision to it, stakes no more than the decision to raise.

**BetsizeEntry** -- `CAutoplayer::DoBetsize`, `CBetSlider::SlideBetsize` and
`CBetsizeInputBox::EnterBetsize`; the windows are the environment (`PopUp`: another
one comes to the front; an input without the focus may or may not arrive).  The table
map (`setup`) gives the methods of selection, deletion and confirmation, and whether
the casino fills in an amount of its own: a method "nothing", one that the code does
not know (it only logs, `CBetsizeInputBox.cpp:297-300`) and a single click, where it
only moves the caret, leave the old text in the box, and the new one is typed behind it.

**TableAssignment** -- what the instances promise each other: a session claims a
table only if it holds none and nobody else holds that table.

**AutoConnector** -- `CSessionCounter`, `CSharedMem`, `CAutoConnector`,
`CWatchdog` and the part of `CHeartbeatThread` that calls them.  Processes start,
take the lowest free session id, connect under the mutex (whose timeout lets a
heartbeat go by), disconnect, watch the others, and crash or freeze anywhere.
The watchdog's steps (read the entry, kill, forget the process id, wipe the slot)
are separate, as in the code, and take no mutex.  `AssignsTables` states that the
slots implement TableAssignment.

**BlindGuesser, TableLimits** -- `CBlindGuesser` and `CBlindLevels` as operators,
and above them `CSymbolEngineTableLimits` with `CSymbolEngineIsTournament`.
`EvaluateAll` is one heartbeat: the limits are calculated in advance, with the
dealer chair of the heartbeat before and with the hand-reset known to the detector
but not yet to the engine, and again in the engine's turn; then the tournament
detection, which looks at the blinds.  The median of `Median.cpp` is modelled by
what it returns (`IsMedian`); that it partially sorts the arrays in place matters
to nobody, since the values of one hand are never looked up together.  A search
that runs behind the list of levels may find anything (`Amounts`).

**IteratorThread** -- `CIteratorThread` together with its users, composed with the
heartbeats of Autoplayer, whose specification it implements (ImplementsCadence):
what Autoplayer leaves open, whether the iterator still works, is decided here by
the counters.  `tpc` walks through `IteratorThreadFunction`: `Look` (the 250 ms),
`Busy`, `NotMyTurn`/`Turn`, `Opponents`, `Trial`, `Collide`, `AfterLoop`,
`Publish`.  Every access to a variable of the other thread is a step of its own,
the two halves of `++_iterations_calculated` included (`loaded`, `Store`).  `epc`
walks the heartbeat thread through a restart (`InitIteratorLoop`, `SetupMasks`,
`RestartDone`, `CalculateNOpponents`) and through the busy waiting of RECALC.
`EvaluateAll` is Autoplayer's evaluation with `myturnbits` and
`CSymbolEnginePrwin::UpdateOnMyTurn`; the new hands and rounds that tell the prwin
engine of a change may be noticed or not.  A trial is abstracted to the cards it
was dealt for, a result to the tally it was computed from and the divisor.

*How they fit together.*  DecisionService extends HandresetDetector,
EngineContainer extends FunctionCollection, TableLimits extends BlindGuesser, and
IteratorThread extends Autoplayer.  Autoplayer takes a whole primary
action as one input and PrimaryAction takes the entry of an amount as a success
or a failure that may have bet already; QuietEntryIsExact and
ConfirmedOnceUnlessLost of BetsizeEntry say what stands behind the latter.

*Parameters as variables.*  `dry` (Daemon), `reliable` (AutoConnector),
`noMyTurn` and `calm` (DecisionService) are chosen in the initial state and never
change, so that one run covers both values.

## 3. The runs

Passing runs check the component as it is; "violation" runs each show one
statement of a comment that the code does not keep (section 5).

| Run | Distinct states | What it shows |
|---|---|---|
| MCDaemon | 463 000 | Two seats, two decision points that end, one late request, one kill, both values of `dry`. DecisionMeetsItsTurn, StoppedHasLeft, DryRunOnlyWatches; SignalStops and TurnsArePlayed under fairness. |
| MCDecisionService | 234 000 | Three hands, two chairs, two cards (interchangeable, hence the symmetry), pre-flop and river boards, requests at once or 4 s later. HeroFollowsTheCards, ResetsKeepDistance, HistoryIsOfThisHand, HandIsResetOnce. |
| MCEngineContainer | 1 192 000 | Six engines for the fifty, ten functions with shared helpers and an endless recursion that the decision runs into. StaleOnlyBelowEarlyRoots, NeverOlderThanLastPass, EventFunctionsRanOnce, NoRefusalInHeartbeat; PassEnds. |
| MCAutoplayer | 12 000 | Default delays (2 frames; 750 ms, so a pause of 4 heartbeats), three popup buttons, seven screens. ActsOnStableView; PrimaryNotStarved, PopupsTakeTurns. |
| MCPrimaryAction | 5 062 000 | All decisions on all tables, with every mixture of slider, box and adjustment, and with no betpot button or with all seven. NeverMoreThanDecided, ActsInTime, NeverFoldsForFree, RaisesAreBacked. |
| MCBetsizeEntry | 752 000 | The limit of the code (5 attempts), every table map: methods that work and methods that do not, boxes filled in or empty. QuietEntryIsExact, ConfirmedOnceUnlessLost; EntryEnds. |
| MCAutoConnector | 347 000 | Three processes, two sessions, one table. OneBotPerTable, LivingBotsAreOnRecord, AssignsTables; DeadBotsAreReleased. |
| MCTableLimits | 52 600 | Five hands of one connection and any number of connections, two chairs (interchangeable), titles and bets on and beyond the list. MajorityIsRight, SavedOncePerHand, LocksAreOfThisHand, AlwaysLimits, ShownTournamentNeverLocks; LimitsStand. |
| MCIteratorThread | 894 000 | Two iterations (one trial), one stable frame, two hands in our turn, one of them with ranges that may collide at any trial, and one view before it. DecidesOnResults; RecalcReturns, TurnIsAnswered. |
| MCAutoplayerStarved, MCBetsizeEntryUntyped, MCIteratorThreadFailed | -- | The three findings. |

*Why the bounds are enough.*  Daemon: a decision that meets a wrong turn needs one
late request and one turn that ended before, two of each nothing new.
DecisionService: what is left over from a hand can reach the next one, and the
throttle can swallow the reset between them, which takes three hands; two cards
are enough for each to be new or old.  With two OtherMethods the run is too large
to finish; one of them already supplies the missing second piece of evidence at
any moment.  Clocks stop one second above the four that the code compares with,
and hands played at one.  EngineContainer: the six engines are one before the
collection, the collection, and one of each kind that evaluates functions.  The
evaluations refused as too deep are bounded before a pass starts (`MaxAborts` = 2,
which is also how many it takes to exhaust the limit of four activations).  That
limit stands for the 100 of the code; it is the least one that after an earlier
refusal still has room for the two levels of calls in a pass, which the instance's
assumption RootsDoNotRecurse checks.
AutoConnector: session ids are reused only when a process dies, so a third
process meets the remains of the first while the second watches.  Autoplayer:
three frames are `FrameDelay + 1`; two views of our turn are needed to tell a
change from the end of our turn.  TableLimits: the code's number of
five saved hands; the first one counts twice, so the session is locked in the
fourth hand and the fifth shows that the lock stands.  IteratorThread: with two
iterations every place of the loop is reached, with its counter before, in the
middle of and after the trial; that the interim results of every thousandth trial
may be shown is a choice.  RECALC is given at most once in a heartbeat, a scrape
delay of 3 s makes every heartbeat one of the secondary formulas.  The proofs of section 4 are
for every bound.

*Deadlock* is checked everywhere but in EngineContainer, whose decisions stop when
the bound on refusals is reached, and PrimaryAction, which models one call.

*Conditions in the properties.*  The code does not exclude everything that can go
wrong.  Where it does not, a property names the condition under which it holds, and
the hazard that is caught only in part has a note in `PROJECT.json`.

StoppedHasLeft excuses a sit or a leave that was given up on, and a leave that the
server refused: `main.cpp:135` leaves once, swallows failures and ignores the status
of the answer.  In these cases the process ends and the bot keeps its seat.

QuietEntryIsExact is about an entry that no other window disturbed (`quiet`), on a table
map that confirms at all.  What was confirmed is exactly ours by the slider and where
the entry replaces the old text (`Replaces`: the selection marks it, or neither the
casino nor the slider put an amount there); on other table maps it may be ours typed
behind the old one.  A failed entry has ordered nothing.  A window that takes the focus
between the selection and the look at the focus is not excluded by the code (hazard
at `CBetsizeInputBox.cpp:76`).

NeverMoreThanDecided compares stakes, not amounts, and has three exceptions: the
bet that is adjusted upwards to all in, a call that is only possible by going all in,
and a wrong amount by slider or box, which is possible only after a decision to raise
by an amount (`CBetsizeInputBox.cpp:76-133`).

ShownTournamentNeverLocks holds for tournaments that show themselves from the first
hand on (`shown`); a title that is seen later comes too late (hazard at
`CSymbolEngineIsTournament.cpp:409`).  RecalcReturns has our turn and a known number
of opponents as its condition; without them RECALC waits for ever.

OneBotPerTable and LivingBotsAreOnRecord hold for `reliable` only: without it TLC
finds a bot whose kill failed, or one that started under a used session id between the
watchdog's check and its clean-up, next to another bot at the same table (hazards at
`CWatchdog.cpp:84` and `136`).  A newcomer that is killed for the silence of its
predecessor (`116`) is gone, and no property sees that it was the wrong one.

HistoryIsOfThisHand needs a new dealer, two new cards and a hero that was known before, because the dealer chair is compared one
evaluation late and unknown cards are no evidence.  StaleOnlyBelowEarlyRoots names
the exception: `f$delay` is evaluated before some of the engines it may depend on.
NoRefusalInHeartbeat holds while fewer than `MaxAborts` refusals came before; a
bot whose decisions recurse more often disables all its functions
(RefusalsAreForGood, section 5).

DecidesOnResults excuses three situations, each a ghost: a restart that came before
the simulation was done or after the answer was final (`hasty`), cards that changed
while nobody noticed a new round or hand (`unnoticed`), and the instant between the
last iteration and the publication of the results, in which the counters already
say that the simulation is complete (`Publishing`, `CIteratorThread.cpp:297-306`).
`Timely` is an assumption on time: a heartbeat sleeps at least 375 ms (half of the
default scrape delay), so that a thread that sleeps 250 ms has looked at its
counters before the next scrape.  With a frame delay of 0 the answer would be final
before the thread was asked (assumption NumberAssumption).

*Fairness.*  Daemon: weak fairness of the process, since curl ends every request
after 20 s; TurnsArePlayed also needs strong fairness of the views that are answered
and of the acts that are answered and taken, a network that works and a server that
accepts again and again.  Nothing is assumed of the server's own steps, of
signals or of kills.  Autoplayer: the heartbeat thread goes on (weak), and the
mutex is free again and again for every kind of input (strong).  BetsizeEntry: the
autoplayer's thread only ever sleeps (weak); the focus may be taken at any time.
AutoConnector: every process that has started is scheduled (weak), while the mutex
and the desktop owe nothing to anybody.  EngineContainer: a pass that has begun
goes on (weak), since no engine waits for anything the model contains.
IteratorThread: both threads go on (weak), the mutex for the primary action is free
again and again (strong), and the thread does not find the bits of our turn cleared
every time it looks, since they are cleared for an instant of the evaluation only
(strong fairness of `Turn`).

## 4. The proofs

`XProofs` extends `X`; CadenceProofs extends IteratorThread and thereby Autoplayer.
All of them are for every value of the constants that the
assumptions in the modules admit.

| Module | Theorem | Property |
|---|---|---|
| DaemonProofs | TypeCorrect, DryRunNeverTouchesTheTable, DecisionCorrect, LeavingCorrect | TypeOK, DryRunOnlyWatches, DecisionMeetsItsTurn, StoppedHasLeft |
| | SignalLeadsOut | no run; the safety half of SignalStops |
| DecisionServiceProofs | TypeCorrect, HeroCorrect, DistanceCorrect, HistoryCorrect, ResetOnceCorrect | TypeOK (no run), HeroFollowsTheCards, ResetsKeepDistance, HistoryIsOfThisHand, HandIsResetOnce |
| EngineContainerProofs | TypeCorrect, DecisionsUseFreshResults, StaleOnlyFromEarlyRoots, EventFunctionsRun, HeartbeatNeverRefused | TypeOK, NeverOlderThanLastPass, StaleOnlyBelowEarlyRoots, EventFunctionsRanOnce, NoRefusalInHeartbeat |
| | NestingBounded, CurrentCorrect, RefusalsAreForGood, PassAdvances | action and state properties of their own; PassAdvances is the safety half of PassEnds |
| PrimaryActionProofs | NeverMore, AlwaysActs, NoFreeFold, NoRaiseFolds | NeverMoreThanDecided, ActsInTime, NeverFoldsForFree, RaisesAreBacked |
| CadenceProofs (Autoplayer) | TypeCorrect, StableBeforeActing, ResetAfterInput | TypeOK (no run), ActsOnStableView, InputResets (no run) |
| BetsizeEntryProofs | TypeCorrect, NoBlindRepeat, QuietIsExact | TypeOK (no run), ConfirmedOnceUnlessLost, QuietEntryIsExact |
| | EntryAdvances, EntryBounded | no run; the safety half of EntryEnds |
| AutoConnectorProofs | SlotsTypeCorrect, SlotsDisjoint, BotsDisjoint, BotsOnRecord, ImplementsAssignment | TypeOK and OneSlotPerTable (no run), OneBotPerTable, LivingBotsAreOnRecord, AssignsTables |
| CadenceProofs (IteratorThread) | DecidesCorrect, ImplementsCadence, StableWithThread | DecidesOnResults, Autoplayer's Spec, ActsOnStableView |
| TableLimitsProofs | TypeCorrect, MajorityCorrect, SavedCorrect, LocksCorrect, LimitsCorrect, TournamentCorrect, StandCorrect | TypeOK, MajorityIsRight, SavedOncePerHand, LocksAreOfThisHand, AlwaysLimits, ShownTournamentNeverLocks, LimitsStand |

The arguments, and why each needs more than the property itself:

* *Daemon.*  The decision may be wrong long before it is accepted, so `DecisionInv`
  follows it from the view to the request under way: as long as the turn the view
  showed is open, the request carries it; a decision on a turn that was not ours
  needs a seat that a late sit has taken.  `TypeInv` also says which requests may
  be outstanding at which place in `main()`; `DryInv` that a dry run is never at a
  place that posts.  The bound on the late requests is
  counted with FiniteSetTheorems.  SignalLeadsOut measures how far `main()` still has
  to go: once the flag is cleared no view is asked for and no process started again.
* *DecisionService.*  The history is only of this hand if the evidence that the
  new hand will give (dealer, cards) is still to come or has just led to the
  reset; the invariant says how much of it is in the window after the first and
  the second evaluation of the hand.  For HandIsResetOnce it says that after the
  reset at most the change of the dealer can be in the window, which is one piece
  of evidence too few.
* *EngineContainer.*  A cached result is not older than its symbols were when it
  was computed, and between the start of a pass and the update of the collection
  nothing is evaluated (assumption RootsAfterCollection, read off the order of
  `CreateSymbolEngines`).  StaleOnlyFromEarlyRoots needs the origin of every
  activation: `CallChain` says that each was called by the one below it, so all of
  them use what the outermost was asked for; `StaleInv` then finds an early root
  below everything that is older than the heartbeat, on the stack or cached.
  *Once.*  EventFunctionsRanOnce does not hold for every bot.  A function that is
  refused runs less than once, and one that calls itself runs again before its
  result is cached.  The hypothesis RootsNestWithin(rank) excludes both for what
  engines evaluate in a heartbeat, and only for that: the decision may recurse
  endlessly.  `Room` says that rank and nesting together leave the counter below
  its limit although earlier refusals have moved it (HeartbeatNeverRefused);
  `OnceInv` that nothing runs below itself, so that it is cached or running, never
  both; `RootsDone` that what a pass has asked for is cached or still pending.  The
  hypothesis is what bots look like: kMaxRecursionDepth is 100 and far above any
  intended nesting, and MaxAborts stands for the refusals of decisions before.
  RefusalsAreForGood says what happens beyond it.
  *Ends.*  PassAdvances compares states lexicographically: stage, engine, functions
  still to ask for, then for each place of the stack, from the outermost inwards,
  the calls its activation may still make (`CallsLeft`).  NestingBounded makes the
  number of places finite, for bots with endless recursion too.
  *Record.*  `SavedInv`: each activation's function keeps the one that was current
  before it.  There is one such place in each function, hence the hypothesis
  CallsNest (section 5).
* *PrimaryAction.*  `ActionInv` relates what is on to what was decided
  (`DecidedOn`: the backups only go down in stake, a chain of raises ends in a call,
  check and fold are on) and says for each attempt behind us why it has not
  succeeded (`NoCall`, `NoCheck`).  For NeverMore it also follows f$betsize, which
  entries change on the way: the amount it holds is one that was meant, whichever
  entry left it there (`BetState`, `SizeMeant`), and `DoOutcome` says for all ways to
  enter an amount at once what they can put in.  The run has two sets of betpot
  buttons, the theorems hold for every choice of sets.
* *Autoplayer.*  `CountInv`: unless the counter was reset or its reset is due, the
  last `stable + 1` views considered since the last input are the saved one.
  `ResetInv`: at the end of a cadence with an input a reset is done or due.
* *BetsizeEntry.*  Counts confirmations against losses of the focus at every step
  of both loops.  For EntryAdvances, `StepsLeft` counts what slider and box can still
  do: five steps for each attempt left, two for each confirmation left.  Other windows
  make the loops go round, but each round spends an attempt.
* *AutoConnector.*  A process in the middle of a connect holds the mutex and its
  choice is still free; an entry that a watchdog has set out to wipe belongs to a
  dead process, and with `reliable` nobody starts under that session id until it
  is done.  The refinement follows from the same invariant: every write of a slot
  is a claim or a release.
* *IteratorThread.*  `ThreadInv` follows the simulation through both threads.  A
  restart that is not hasty finds the thread at rest with all iterations done
  (`Prepared`), so it prepares the data undisturbed; from then on `Progress` says at
  every place of the thread what has been counted, with which cards.  By the next
  evaluation the thread has begun (`InTime`), so "not working" can only mean done
  (`FinalIsComplete`): this is what the counters alone do not say, since they are
  also "not working" between a restart and the thread's next look.  The first
  restart needs an argument of its own (`FirstRestart`): before it nothing is
  required, and no frame was counted.  The hypothesis NoMixedDealing is needed, as
  MCIteratorThreadFailed shows.
* *TableLimits.*  The lock of a hand is set in the calculation in advance only if
  there was none before, so the invariant has to separate the first hand of a
  connection (saved twice, the first time perhaps with a dealer who is not there)
  from the others, whose early calculation is skipped because the lock of the hand
  before still holds.  The same count gives ShownTournamentNeverLocks: after the
  heartbeat of the first reset two values may be saved and the tournament is known,
  hence the assumption HandsToLock > 2.  MajorityIsRight is counted with
  FiniteSetTheorems: the median and a value with less than half on either side
  cannot differ.

Only model-checked: the liveness properties (SignalStops, TurnsArePlayed,
PrimaryNotStarved, PopupsTakeTurns, EntryEnds, DeadBotsAreReleased, PassEnds,
RecalcReturns, TurnIsAnswered), since fairness and ENABLED are beyond the prover.  Of
three of them the part that is about the code's own loops is proved: PassAdvances,
EntryAdvances with EntryBounded, and SignalLeadsOut show that no step leads back, for
every bound; what remains to TLC is that a step is always possible and is taken.
Every invariant of a passing run is proved, and both action properties
(AssignsTables, LimitsStand).

## 5. Where the code does not do what it says

* `CAutoplayer.cpp:126` (MCAutoplayerStarved): with a scrape delay of one second a
  secondary formula that is always true blocks all primary ones, which the comment
  at 124-125 says the pause prevents.
* `CBetsizeInputBox.cpp:133` (MCBetsizeEntryUntyped): after the last failed attempt
  the log announces a backup action, but the amount is confirmed.
* `CIteratorThread.cpp:303` (MCIteratorThreadFailed): the return code of the enhanced
  dealing lives as long as the thread.  After a failed dealing the next simulation
  with the standard algorithm does all its iterations and never publishes their
  results; the decision is made on a chance of 0 to win.

Others are not runs of their own; passing properties cover them or name them as
exceptions:

* `CFunction.cpp:95`: the exit for too deep recursions increments the counter that the
  comment at 84 says is decremented at every exit.  The counter is the depth plus two
  for each refusal so far.
  Fifty refusals exhaust the limit of 100; from then on every function evaluates to 0,
  also those with a cached result, until the process ends (RefusalsAreForGood).  One
  endless recursion that branches is enough: on the way back every level's second call
  is refused again.
* `CBetsizeInputBox.cpp:103-105`: f$betsize is set "for correct logging" to the amount
  typed, also when a betpot or allin was meant.  The autoplayer function is then on, and
  `DoBetsize` (`CAutoplayer.cpp:504`) bets once more (`Do`, NeverMoreThanDecided).
* `main.cpp:135`: the leave at the end is sent once and its answer is not looked at; a
  server that refuses it keeps the bot seated (`leaveRefused` in StoppedHasLeft).
* `CFunction.cpp:101`: the function that was evaluated before is saved in the function,
  not in the activation.  After `f` has called itself the record "currently evaluated"
  stays `f` when the evaluation is over; CurrentCorrect holds without recursion only.
* `CBlindLevels.cpp:358`: the search "downwards" for the next smaller blind starts at
  the last level and counts upwards; half of every big blind that is not on the list
  is 1000.00, and larger guesses read behind the list (`NextSmallerOrEqualBlind`;
  AlwaysLimits holds all the same).
* `CIteratorThread.cpp:141`: the assertion that the thread does not work when it is
  restarted is compiled out and does not hold.  A thread that found it was not our
  turn leaves its counter at 1, which counts as working, and new cards restart a
  simulation under way (`hasty` in DecidesOnResults).
* `CIteratorThread.cpp:225`: the loop starts at 1, so there is one trial less than the
  results are divided by (`ResultsOf`).
* `CIteratorThread.cpp:114-128`: the destructor waits for an event that every
  simulation sets and nobody resets; the thread may still run when it returns.
* `CParseTreeTerminalNodeUserVariable.cpp:110`: RECALC outside our turn waits for ever,
  since the thread simulates only in our turn (condition of RecalcReturns).
* `CSymbolEngineAutoplayer.h:39`: the mask named fold-call-raise covers fold, call and
  check.  Where only raise and allin can be clicked it is never our turn for the
  thread, which counts as working meanwhile (condition of TurnIsAnswered).
* `CAutoplayerFunctions.cpp:225`: RaiseTwoPot has no backup action; where only call
  and fold are possible it is folded, although `CBetsizeInputBox.cpp:59-63` relies
  on OpenPPL in this very case (exception in RaisesAreBacked).
* `CSymbolEngineUserchair.cpp:65`: a request for a new hero on the river is
  evaluated for the old chair or for none, although `engined.cpp:87` says the engine
  derives the hero from the cards (condition of HeroFollowsTheCards).
* `CEngineContainer.cpp:332`: the first hand of a connection counts twice among the
  "first N hands" (SavedOncePerHand), so the session is locked in the fourth.
* `CBlindGuesser.cpp:221`: a single bet behind the dealer is smaller than twice
  itself, so the branch "Only one blind, must be big-blind" at 232 is never reached
  and the big blind is taken to be 0 (`BlindFromBets`).
* `CSymbolEngineTableLimits.cpp:162`: not known to be a tournament counts as a cash
  game, and nothing but a new connection releases the lock of the session.

## 6. What is not modelled

* Liveness and locking of the heartbeat thread's shutdown, the starter, the worker
  pool: planned (section 7).
* Undefined behaviour at two places: a session counter without a free id posts a quit
  message and goes on with the id -1, which writes before the shared arrays
  (`CSessionCounter.cpp:43-47`; `Start` is not possible then), and the search behind
  the list of blinds reads on until something fits or the read faults
  (`CBlindLevels.cpp:358`; the model takes any fitting amount, never the fault).
* Of the iterator thread: which hands are dealt and how they compare, the weights of
  the hand ranges, its stop event, and the command CLEARALL.
* Arithmetic on bet sizes, the amounts of antes, the rotation of parse trees, formula
  switching: planned as operators and further engines.
* The symbols that the single engines compute, scraper, tablemaps, OCR, geometry
  of windows, key codes: data that the models choose nondeterministically.
* Hand history, replay frames, GUI, logging, chat, database look-ups, platform
  connection: output, or not read back by what is modelled.
* The Win32 stubs in `compat/`, the poker evaluator's tables: external.
* The text of requests and answers.  A request to the decision service whose body
  arrives in more than one piece is answered for the table before (hazard at
  `engined.cpp:142`); the models take requests as complete.

Hazards without a property are listed with the reason; most of them belong to the
threads of the plan below.

## 7. The plan

Done, in order of importance: what runs on Linux (Daemon, DecisionService with
HandresetDetector, EngineContainer with FunctionCollection), then the acting side
of the engine (Autoplayer, PrimaryAction, BetsizeEntry) and the instances among
themselves (AutoConnector above TableAssignment), then the limits the bot
calculates with (TableLimits above BlindGuesser) and the thread that estimates its
chances (IteratorThread above Autoplayer).

Next:

1. **HeartbeatThread** (`CHeartbeatThread.cpp`, start-up and shutdown of the
   singletons): stop event, wait of a minute, deletion.  Abstract specification:
   nothing is used after it was deleted.
2. **Starter** (`COpenHoldemStarter.cpp`) joined to AutoConnector: the decision of
   which instance starts or stops another one.  Property: the number of bots
   without a table stays in its limits.
3. Memory symbols and formula switching as engines with effects of their own in
   EngineContainer.
4. Pure operators, each checked against a reference definition over all small
   inputs: bet size and allin adjustment, rotation of parse trees by priority,
   bet size to text.
5. **WorkerPool**: jobs, semaphore, stop.

Proofs to be added: the safety invariants of 1 and 2; that
Daemon implements an abstract player which answers each decision point at most
once; the bounds of the adjusted bet size for all amounts.
