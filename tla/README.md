# Verification of the trading engine

TLA+ models of the parts of the engine that decide whether an order is sent, how
often, and by which process, with TLC runs on small instances and TLAPS proofs for all
instances. Paths are relative to the repository root.

Contents: 1 the system, 2 the models, 3 the runs, 4 the proofs,
5 where code and text disagree, 6 what is not modelled, 7 the plan.

## 1 The system

One Node process (`bot.js`) trades perpetual futures. A database row keeps a second
process from trading beside it. A tick loop asks strategies for signals, queues an open
per signal, and hands each open to an executor, which picks a venue (Drift or Jupiter).
On Drift, the executor asks a collateral lock and a limited-live gate, then calls the
Drift client. The client talks over stdin/stdout to a child process that holds the Drift
SDK. The chain behind it fills, rejects or loses orders, and closes positions on its own.
Entry and exit orders may rest on the book; a monitor replaces them, falls back to market
orders, and tells the bot what was filled. What was closed is booked in the database.

```
 bot.js ── queue of opens ──> VenueAwareTradeExecutor ──> DriftPerpsClient ──> DriftSubprocessClient ──> child ──> chain
   │  ^                           │            │             (position cache,     (window, queue,
   │  └───────── close events ────┼────────────┼──────────    working orders,      timers, breaker)
   │ heartbeat, logClose          │ canOpen    │ canOpen      monitor, sync,
   v                              v            v  Position    supervision)
 bot_instances,          CollateralLockManager  LimitedLiveController
 trades_open, trades_close (db.js)
```

### 1.1 Components

| Component | State | Operations | Talks to | What is hard |
|---|---|---|---|---|
| Collateral lock, `utils/drift-collateral-lock.js` | held or not, when and at which position count it was taken, time of the last lock and of the last cooldown retry | `acquireLock`, `isLocked` (expires as a side effect), `canOpen`, `tryRelease`, `forceRelease` | called by the executor, synchronously | two timestamps outlive the lock they belong to; three ways to be released; it must neither let a storm of retries through nor stay for ever |
| Instance lock, `db.js` 1254-1345, `bot.js` 11955-12180, 12694-12823 | table `bot_instances`, heartbeat timer, boot attempt | boot loop, heartbeat, release, signal and error handlers | other processes, through the table | three SQL statements without a transaction; kills; suspended processes; two generations of error handlers |
| Limited-live controller, `utils/limited-live.js` | live state, enabled markets, caps, exposure, loss metrics, rollback flag | two queries, recording of opens and closes, operator commands | asked by the executor | early returns in the loss gates; clamped counters; operators during a rollback |
| Subprocess client, `utils/drift-subprocess-client.js` | in-flight requests, queue, shared polls, circuit breaker | `send`, responses, timers, exit and cleanup | callers in the Drift client; the child | requests end in five ways and each must start the next one; polls share an entry; the breaker changes while requests of its earlier state are out |
| Venue-aware executor, `src/execution/venue-aware-trade-executor.js` | disabled markets, the request in progress | `openPosition`, `closePosition`, retries, operator commands | the two gates above, the client | values read before an await are used after it; lost answers; retries |
| Drift client, taker path, `src/execution/perps-drift-client.js` 2000-2300, 3489-3703, 5796-5910 | position cache, disabled markets | duplicate prevention, market order, adoption of a position found on chain | executor, subprocess client | an order may be in, come late, or never, also after an error; the child's list of positions is old, and an empty one is ambiguous |
| Drift client, supervision, same file 370-460, 1278-1409, 1563-1721 | subprocess, shared promises of start, restart and initialisation, expected exits, restart count | initialize, start, restart with backoff, callers that find no child, shutdown | subprocess client | three places start a child, four stop one, and exit events arrive after either |
| Drift client, maker entries, same file 129-206, 2301-2770, 4262-5400 | working orders with their state, ids and operation flag | open, order monitor, replacement, cancel, fallback to taker | subprocess client, bot | order objects shared across awaits; fills that race cancels; ids that are used again |
| Drift client, order sync, same file 919-1047, 3902-4190 | candidates, failed cancels, uncertainty window | cancel of untracked orders on a timer, reconciliation after a start | subprocess client | four reasons to put a cancel off, any of which could do so for ever |
| Drift client, exits, same file 1049-1122, 2775-3200, 4300-4602, 5402-5762 | exit orders, recent close events | `closePosition`, exit side of the monitor, exit fallback | bot, by events | three ways to learn of a close, none of them first |
| Bot, position lifecycle, `bot.js` 1275-1375, 2672-2692, 5541-6297, 7120-8324; `db.js` 363-437 | tracked positions, close records, rows of open and closed trades | close, close events, recovery, sync, booking | executor, client, database | the same close arrives three times; crashes between chain and database |
| Error classifier, `utils/drift-error-classifier.js` | none | classification by message patterns | executor | the order of the patterns decides what is retried |

The rest (risk manager, market allocator, strategies, price feeds, Jupiter clients, copy
trading, backtests, UI, Telegram, secrets, logging) is listed with the reason it is left
out in section 6 and, file by file, in `PROJECT.json`.

### 1.2 What makes each part correct

* Collateral lock: after Drift said that collateral is missing, opens are rationed to one
  per full cooldown and never blocked for ever.
* Instance lock: one engine trades at a time; a live owner's row is never taken for stale;
  a boot ends.
* Limited live: losses beyond a gate stop live trading until an operator acts; what was
  recorded as exposure stays in the caps.
* Subprocess client: every caller gets exactly one outcome, work is not left in the queue
  while the child could take it, and the breaker recovers.
* Executor with the client: nothing is added to a position that the client is shown, a held
  lock rations orders whatever the retries do, and every request ends.
* Close and booking: an open position keeps its trade, a trade is booked once while it goes by
  one id, and its open row leaves after its close is in.
* Supervision: one child runs and the client can stop it; a call that is let through finds
  an initialised SDK; the client comes back to a child unless it gave up.
* Maker entries: one open makes one position; one operation at a time works on an order;
  a fill is reported.
* Order sync: an order that nobody tracks is cancelled in the end.

`PROJECT.json` lists the hazards line by line with the properties that answer them, and
those that no property answers yet.

## 2 The models

A step is one turn of the JavaScript event loop: from the answer to an `await`, a timer
or a signal up to the next `await`. Where a protocol spans processes (the instance lock) a
step is one SQL statement. `Date.now()` differences are *ages*: variables that count ticks
and stop at the largest value the code compares them with, so that time needs no horizon.
Operators named `X_Something` are variants of `X` with a plausible bug; the specification
never uses them, they show that a property notices.

| Module | Models | Proofs |
|---|---|---|
| `CollateralLock` | `CollateralLockManager` | `CollateralLockProofs` |
| `InstanceLock` | `acquireInstanceLock` and the boot, heartbeat and exit code around it | `InstanceLockProofs` |
| `LimitedLive` | `LimitedLiveController` | `LimitedLiveProofs` |
| `SubprocessClient` | `DriftSubprocessClient`: requests, queue, breaker | `SubprocessClientProofs` |
| `VenueExecutor` | `_openDrift`, the taker open beneath it, `CollateralLock` and `LimitedLive` as instances, the chain | `VenueExecutorProofs` |
| `CloseAccounting` | one position from the close call to the books: bot, client, exit orders, events, database, recovery | `CloseAccountingProofs` |
| `SubprocessSupervisor` | how the client starts, stops and restarts its child | `SubprocessSupervisorProofs` |
| `WorkingOrders` | maker entries: open, monitor, replacement, cancel, fallback | `WorkingOrdersProofs` |
| `OrphanSync` | the cancelling of orders that nobody tracks | last section of `WorkingOrdersProofs` |
| `Promises` | abstract: what callers of `send` see of it | refined in `SubprocessClientProofs` |
| `Mutex` | abstract: what a singleton lock promises | refined in `InstanceLockProofs` |
| `Ledger` | abstract: what the trade tables promise | refined in `CloseAccountingProofs` |

`VenueExecutor` composes: its instance `Lock` of `CollateralLock` shares the lock's six
variables, and its instance `Gate` of `LimitedLive` supplies the exposure check.
`CollateralLock` is at the same time the abstract specification the executor is checked
and proved to implement (`LockIsUsedAsSpecified`). The executor relies on
`SubprocessClient` for one thing, that every call is answered (`SendSettles` there is the
fairness of `Progress` here). `Promises`, `Mutex` and `Ledger` stand for no code: they say in a few
lines what a caller of the client, a process of the bot and a reader of the tables rely on, and the
proofs show that the detailed modules give it.

The later modules meet at interfaces: `WorkingOrders` drops orders that `OrphanSync` finds
on the book (its `Removed` is one of `OrphanSync`'s cancels), `WorkingOrders` fills a position that
`CloseAccounting` starts from (its `ClosePosition` is all of that module), and `CloseAccounting` lets its
subprocess come and go in the way `SubprocessSupervisor` explains. Each of them keeps the
others' part as the few actions it can observe, which allow more than the other module does.

### 2.1 CollateralLock

`active`, `lockAge`, `lockedAtCount` are `_lock.active`, the age of `_lock.lockedAt` and
`_lock.lockedAtOpenPositionsCount`; `sinceLock` and `sinceRetry` are the ages of
`lastLockAt` and `lastCooldownRetryAt`, which a release does not reset. `admits` is a
history variable. One action per method: `AcquireLock`, `QueryIsLocked` (`isLocked` with
its expiry), `CanOpen` (`tryRelease`, then the cooldown retry), `ForceRelease`, and `Tick`.
Position counts are arbitrary: the lock is checked for every caller, not only for the
executor. Statistics, events and messages are left out.

### 2.2 InstanceLock

`pc` says where each run of `bot.js` is, `row` is the age of `last_heartbeat` in its row,
`beat` the time since its last heartbeat, `attempt` the boot loop's counter. `Cleanup`,
`Check` and `Insert` are the three statements of `acquireInstanceLock`; `Contend` is what
the loop does when another instance is found, `DbError` when a statement throws,
`TryAgain` the end of the delay. `GiveUp`, `SigTerm`, `ShutdownDone`, `UncaughtException`,
`Die` and `UnhandledRejection` are the handlers, of which the ones registered at boot stay
registered when the later ones are added. `Kill`, `Stall`, `WakeUp` are the host's. `faulty` is a
history variable: the processes that were suspended or lost the lock to an error handler.
`late` is another: the processes whose last SELECT fell between another one's SELECT and its INSERT,
which is the race that the three statements leave open. Boots interleave freely, and `Faults` says
what else may happen. The processes' clocks agree (same host), and
no two share an instance id (`BOT_INSTANCE_ID` is not set). A process
that loses its lock still runs: the heartbeat's "row not found" is a warning in the code.

`acquireInstanceLock` reads the clock once (`db.js:1259`), before its statements, and stores what it read.
It awaits nothing, so no `Tick` falls inside it, and the row is new when it is written. A booter that the
host suspends in the middle of the call would write a row that is older; that is not modelled.

### 2.3 LimitedLive

The variables are the controller's fields; `toldLoss` and `toldRun` are histories of what it
was told since its gates were last reset. That a rollback is latched is stated over steps: only an
operator's `setState` takes it back. `RecordPositionClosed` includes
`_checkRollbackGates` with its early returns and the change of day. Caps scale by whole
factors. The trade history, the reports and the callbacks are left out.

### 2.4 SubprocessClient

`inflight` and `queue` are the pending and the queued requests, each an action and the
callers that share it; `breaker` is the circuit breaker. `Send` covers `send`,
`_enqueueRequest` and the direct dispatch; `Respond`, `Timeout` and `Exit` are the ways
requests end, each with the queue processing and breaker accounting of the code, in its
order; an error answer whose text says "terminated" counts as a failure of the child (259); `Replace` is the Drift client putting a new client in place of one whose child is
gone. At a full queue a call is refused before it is looked at whether it could share a queued poll (184),
and so it is in `Enqueue`; no property asks for better. The handshake of `start()` and `stop()` are in `SubprocessSupervisor`.

### 2.5 VenueExecutor

`open` is the request in progress: the bot's queue runs one open at a time
(`bot.js` 3502-3548). Its `at` is the await it stands at: `counting` (positions for the lock
and the gate), `checking` (duplicate prevention), `sent` (the order), `verifying`
(adoption after an unclear answer), `sleeping` (retry delay). `chain` counts the bot's orders in
the position on each market. Two variables are what others believe of it: `snapshot`, the child's
own copy of the account, and `cache`, the client's map of positions. `getPositions` answers from the
copy, which the child refreshes on its own time and throttles when asked to (`Refresh`, at any
time); the duplicate check at 2024 does not ask. An empty copy is answered from the cache
(`LivePositions`, 3701).

`strays` are orders that nobody waits for any more and that may still land. Every answer to a command
may leave some (`Leave`): the child tries one command several times (`ChildSends`) and may take
a transaction for expired or failed that is not. An error answer, and the loss of the child,
may leave one more, since the client goes to look only after a timeout or a failed confirmation
(2170, 2201; child 3129, 3264, 3327).

`landed`, `blind` and `lockedSends` are histories: strays in the position, orders sent while the
position was there and was not shown, commands sent under the held lock.
Each class of outcome of `_openDrift` is an action (`Filled`, `InsufficientCollateral`,
`MarketNotFound`, `SendFails`, `TimedOut`, `ClientDown`, `Unchecked`,
`ClientRefuses`); whether an error is retriable is a nondeterministic choice where
the message decides it. Meanwhile positions close with or without the client's knowledge
(`Close`), strays land or expire, the bot's sync refreshes the cache, an operator
re-enables a market or releases the lock, and time passes.

Abstractions: one size and one side per market (an opposite order is a close in the
code's terms and goes through another path); the validation of markets when the client starts
(`_validateActiveMarkets`) is left out, so the client's list starts empty. A close is one step:
the retries of `_closeDrift` change nothing an open depends on before they succeed.

### 2.6 CloseAccounting

One Drift position of a live bot. A close call (`pc`), the fallback of an exit order
(`fb`) and the order monitor (`mon`) are processes that stand at an await; `tracked` is
`openPositions`, `mark` the close key of `_dup` and `_mark`, `pending` and `finalized` the bot's two
records of a close that the client works on, `emitted` the client's record of the event it
has sent, `cached` its position map. `row`, `trades` and `closes` are the tables. `logClose` is
two steps, `LogClose` and `FinishClose`, with `booking` in between: better-sqlite3 is
synchronous, so nothing but a failure or a death can come between them.

`sub` says how a positions snapshot is to be read: a child that is initialising answers with
an empty list, and the code that reads the list does not always look at the flag that
tells so. A ready child answers from its own copy of the account, which may still list a position that
has gone: so it does for callers that ask for no refresh, the sync among them (`CacheAfterQuery`). The close
call, the monitor and the fallback ask for one and are taken to get it. A step that takes the position for gone from such an answer, or from none, sets
`doubt`; the property about open trades says that nothing else loses one.

The books know a position by its id, and so do the marks and records of a close. The client gives
the id when it lists the chain: that of its cache, or that of a row, or one made of market and side
(`ListedAs`). `cached` is that id. When the sync meets a position it does not track (`AddFromChain`, `bot.js`
8119-8156), it writes no row for one that the cache says is the bot's own, upgrades the row of one that
has one, and writes one for any other. So a position may come to be tracked without a row, or to go by
another id, to which none of its marks and records belong; `strayed` says that this has happened.
From then on the module follows only what the other id's calls and events do to this one's
(`OtherId`), and `BookedOnce` claims nothing: in the code such a position can be booked a second time
without a new trade. `OpenTradeIsKept` and `RowOrClose` make no such exception.

`Account` contains a defect as it is in the code (section 5): for an automated position
the statistics read a variable that does not exist. `Throw` includes that the catch
(`bot.js:6269`) names a constant of the try block, so the mark is not cleared by it.

Left out: partial closes, the disabled branch of the exit fallback, the removal of exit
orders after 30 minutes, the booking of externally closed positions
from the chain's history (6749), the two minutes in which the sync spares a
recent position, and entry orders. No fairness: whether a close succeeds is the exchange's
affair.

### 2.7 SubprocessSupervisor

`initialize`, `_startSubprocess`, the restart loop and `shutdown` run at most once at a time, as
each shares its promise; so each has one program counter. `proc` has the three states of
a child: running, killed with its exit event due, and dead. `marks` is `_expectedExitSubprocesses`,
`target[w]` the child whose `stop()` the procedure `w` awaits, `timerStops` the children whose
startup timer called `stop()` without awaiting it. `attempts` is `_restartAttempts`, which is not
reset after the client has given up. `lock` is the instance lock: a `stop()` that finds its process
gone throws, which in the timer is an unhandled rejection, and the bot's handler
releases the lock.

What the model shows beyond its properties: a loop that sleeps while somebody else starts a child
stops that child and starts another; an `initialize` that comes while the loop starts a child
stops that one; neither the loop nor the callers are cancelled by `shutdown`; after
the client gave up, calls reach a child whose SDK was never initialised.

Left out: an external subprocess, a `spawn` that fails, the backoff between
initialisations, the return of `initialize` when no market is configured, the health monitor (it
only logs and emits), and what `initialize` does after its start (reconciliation, validation of
markets, monitors), whose failure would stop the child again.

### 2.8 WorkingOrders

The entry orders of one market. `opener`, `replacer`, `faller` and `canceller` say where
`_openMaker`, `_replaceOrder`, `_fallbackToTaker` and `cancelOrder` stand with an order, `monitor` which order
the monitor has asked the positions for. `state`, `uoid`, `pending` and `locked` are fields of the
order object; an id is a number that depends on market and purpose only (`UserOrderId`), so
an order and its successor have the same one. `book`, `coming` and `position` are the
chain: orders at rest, orders sent but neither taken nor refused, and fills.

`slips` counts what goes wrong in windows the code leaves open or outside its control, at
the action where it happens:

* a cancel that is answered `not_found` for an order that has filled or has not come yet
  (`NotFoundThough`);
* a cancel answered with a success that was only simulated (`CancelMisleads`): a child that is not
  initialised answers so (`drift-subprocess/index.js` 3700-3709), the order rests on, and the second look
  that should confirm the cancel accepts an answer with `live: false`, which has no orders (4758; only
  `backoff` is looked at, 4761);
* an error of `placeLimitOrder` that is not a timeout: the client forgets the order (2691), also
  when the child exited or failed after sending it and the order is out or has filled (`OpenRejected`);
* an order given up on while it may still come;
* a decision taken on an answer that was not live;
* an order sent by a replacement or a fallback for one that was dropped
  meanwhile (`_openMaker`, `cancelOrder` and the monitor drop an order without asking for its lock).

The properties say that nothing else does harm: a doubled position, or a fill that nobody is told of, takes
one of these. Ages and graces are choices.

Left out: partial fills, more than one market (an order of one market is not touched by
operations on another), the next attempt after a post-only refusal, the
release of a monitor that is stuck for two minutes (3820-3840), and a second transaction with the
id of one that is still coming, which is not told from the first.

### 2.9 OrphanSync

`_syncWithOnChainOrders` and `_reconcileState` of one market. Tracked orders come and go as they
like, so the result holds for any caller. `snapshot` is what the sync has read, then what it still
has to cancel; `stale` the clock of an untracked order beside a position (`due` after two
minutes), `attempts` the failed cancels in a row. `ReadEmpty` is the answer of a child that is not
ready. `CancelSimulated` is the success of a child that is not initialised: the order stays, and its record of
failures is deleted all the same (client 4159). What the model shows: such an answer erases all clocks; a failure that says "not found"
uses up all attempts at once; attempts belong to an id, so once they are used up no later
order with that id is cancelled until a restart (`resetFailedOrphanCancels` has no caller); an order
that is tracked between the judgement and its cancel is cancelled; the reconciliation
cancels exit orders beside a position at once.

## 3 The runs

The two runs named as violations check one sentence of the repository against what the code
does (section 5). All others pass.

| Run | Bounds | Shows |
|---|---|---|
| `collateral_lock` | lock lives 7 ticks, cooldown 3, debounce 1, counts 0-2 | `RetriesAreRationed`, `RetryClock`; `LockIsNotForever` under fairness |
| `instance_lock` | 2 processes, stale after 4, heartbeat 2, 3 attempts, all faults | `HealthyOwnerHasLiveRow`, `HealthyExclusion`; `BootSettles` under fairness |
| `limited_live` | 2 markets, sizes 1-2, losses 1 and 3 against gates 2 a trade, 3 a day, 3 in a row; day of 1 tick | `RollbackIsLatched`, `LiveWithinGates`, `TotalNeverAboveMarkets` |
| `subprocess_client` | 5 callers (3 orders, 2 polls), window 2, queue 2, thresholds 3 and 2 | `WorkConserving`, `WaitsOnce`, `PollsShareTheQueue`; `SendSettles`, `BreakerRecovers` under fairness |
| `venue_executor` | 2 markets, 2 attempts, 1 stray a market, 1 order a command, lock of 2 ticks, cooldown 1 | `DoubledOnlyUnseen`, `LockedSendsAreRationed`, `LockIsUsedAsSpecified` |
| `venue_executor_live` | 1 market, 3 orders a command, 3 strays, a blind order before the last open; otherwise the same | `DoubledOnlyUnseen` with more orders; `RequestsSettle` under fairness |
| `close_accounting` | 2 callers, one of them a user; 2 mishaps | `OpenTradeIsKept`, `BookedOnce`, `RowOrClose` |
| `close_not_booked` | the same, no mishap | violation of `VerifiedCloseIsBooked` |
| `subprocess_supervisor` | 3 children, 2 restart attempts, 3 faults | `OnlyCurrentRuns`, `CallsReachSdk`; `ComesBack` under fairness |
| `working_orders` | 2 order objects, 2 slips, 3 operations at once | `OneOperation`, `DoubledOnlyBySlips`, `FillIsReported` |
| `working_orders_refilled` | 1 order object | violation of `FilledIsNotReplaced` |
| `orphan_sync` | 2 order ids, 2 cancels | `StraysAreCancelled` under fairness |

Each also checks `TypeOK` of its module, except for the two violations and `venue_executor_live`.

Why these bounds are enough to be interesting:

* Two cooldowns fit in a lock's life and leave a remainder (7 = 2·3 + 1), so retries, a
  retry of a previous lock and expiry all occur in one life.
* Two booters meet at every pair of statements of `acquireInstanceLock`, with every fault around them. A heartbeat fits twice in the threshold (30 s and 60 s in the code), a row can be at, one
  below and one past it, and the number of attempts is the code's.
* Losses exist that pass the trade gate alone, the day gate together and the run gate
  by number; closes can be larger than what was opened. `CapBound`, `ExposureBound` and
  `LossBound` cut off growth that the gates do not look at; caps can double twice from 1.
* With five callers the window and the queue are both full and one more call is refused;
  polls can be queued, shared and in flight at once.
* With two attempts per request and strays that stay, a request can start while an order of an
  earlier one is still out; with three orders a command (`maxAttempts` of the child) one answer can
  leave two or three of them, and with `MaxBlind = 1` a request starts after an order was sent to a position
  that was not shown. `MaxStrays` caps the strays of a market, `MaxBlind` delays the start of an open; both
  bound counters only, and `DoubledOnlyUnseen` is proved without looking at them. The run
  `venue_executor` identifies states that differ in the names of the markets: no definition
  tells them apart, and none of its properties is a liveness property (1.4 million states).
* Two close calls with two mishaps meet every pair of an exit, a death, a failed statement and
  a record that runs out, and the sync can write a second row after the first was closed
  (4 million states). A row that is written again is a mishap too; `MaxMishaps` bounds histories only.
* Three children are one that runs, one killed with its exit event due, and one being started;
  with three faults a restart can fail twice, which exhausts the attempts, or a
  startup timer can race an exit and the next start (0.3 million states).
* Two order objects are an order and the one opened after it was given up; the first slip leaves
  an order of the first open out beside it, the second one adds another. `MaxSlips` bounds the slips since
  the chain was last quiet, `MaxAtOnce` the operations under way: three are two on an order that
  was given up and the open of the next, or an open, a replacement and a cancel. The run
  identifies states that differ in the names of the objects, or in fields of objects
  that nobody can look at any more (the view of `MCWorkingOrders`); all its properties are
  invariants (1.1 million states). The step in which the bot polls the positions is always
  possible, so the search for deadlocks says nothing of this module.
* Two ids are cancelled in one round and judged apart; two cancels are one that fails and one
  that is the last.

### Fairness

* `CollateralLock`: time passes, and opens go on being attempted (the strategies produce
  signals; without them nobody is blocked).
* `InstanceLock`: a process that boots runs on. Nothing is assumed of the others.
* `SubprocessClient`: every request has a timer (line 229) that fires; time passes; the
  Drift client replaces a dead client (`_handleSubprocessExit`); callers keep calling (the health
  monitor and the order monitor poll on intervals). Answers of the child are not assumed.
* `VenueExecutor`: a request that waits gets an answer, which `SendSettles` and the retry
  timers justify. Neither fills nor closes are assumed.
* `SubprocessSupervisor`: timers fire; a child that was started answers in the end, or its exit,
  its startup timer or the timer of its init command ends the wait; a killed child exits;
  the position sync calls `_ensureInitialized` every five minutes. No fault has to happen or to stop
  happening: their number is bounded.
* `OrphanSync`: windows end; the sync, which runs on a timer, finds a moment outside the windows
  and a child that answers again and again (strong fairness of `Read`, of `Judge` and of the clock of
  a candidate, each of which can be disabled and enabled any number of times). The
  property speaks of runs in which restarts, answers without orders and simulated cancels end, since each
  of them starts the clocks or the count of failures again.
* `CloseAccounting` and `WorkingOrders` assume none and claim no liveness: whether an order fills
  is the exchange's affair.

Deadlock is checked everywhere except for `InstanceLock`, where every process may have
exited, `SubprocessSupervisor`, where the bot exits, `LimitedLive` and `CloseAccounting`, where
the bounds on the histories stop a run of losses or the position is gone and booked.

## 4 The proofs

All theorems are checked by TLAPS for every value of the constants that satisfies the
named `ASSUME` of the module (`LockOptionsAssumption`, `InstanceLockAssumption`,
`LimitedLiveAssumption`, `SubprocessClientAssumption`, `VenueExecutorAssumption`, `CloseAssumption`,
`SupervisorAssumption`, `WorkingOrdersAssumption`); TLC evaluates the same assumptions in the
runs. Nothing else is assumed, except where a theorem names its own assumption: one of
`InstanceLock` is about runs in which `OneAtInsert` always holds, and
the one about `OrphanSync` names the assumption of that module.

Where the code refutes what a comment says (section 5), the proofs say what is left of it and
where the gap is; these theorems are marked *(rest)* below.

**CollateralLock.** `TypeCorrect`, `RetriesRationed`, `RetryClockHolds`.
`RetriesAreRationed` (so many cooldowns fit in the lock's age) is not inductive: that a
retry is due says something about the time since the last retry, not about how many there
were. `RetryClock` connects the two (`admits * CooldownRetry + sinceRetry <= lockAge`), and
`LockIdle` says that a released lock starts its next life at zero. Together with
`TypeOK` they form `IInv`.

**InstanceLock.** `TypeCorrect`, `HealthyRowLive`, `ExclusionButForTheRace`. A healthy
owner's row is exactly as old as its last heartbeat (`RowTracksBeat`), which is at most
`HeartbeatEvery <= StaleAfter`; so no cleanup removes it. For that, who sleeps must be
faulty (`AsleepIsFaulty`). `WaitCounts` bounds the attempts for `TypeOK`. Exclusion is proved for any
number of processes whose boots overlap, of the healthy ones that are not `late`: whoever is at the
insert and not late is the only such one there, and nobody healthy owns the lock but late ones
(`InserterIsAlone`), because owners only appear by inserting, and who read the table while somebody
was about to insert is late. For late processes exclusion is false (`SingleTrader` in section 5).
`ExclusionUnlessInsertsMeet` *(rest)* says the same without the history: in runs in which two processes
never stand between the SELECT and the INSERT of `acquireInstanceLock` at the same time (`OneAtInsert`), no two
healthy ones own the lock together, since then nobody late gets as far as the insert (`LateIsOut`).
A transaction around the two statements would make that hypothesis true.
`ImplementsMutex` is the refinement, with `owners` the healthy processes that are not late and
have the lock: every step takes a free mutex, gives it back, or leaves it alone. A
process that stalls or loses its lock to an error handler leaves `owners` without running a release;
for the mutex that is one.

**LimitedLive.** `TypeCorrect`, `RollbackLatched`, `LiveIsWithinGates`, `TotalFallsShort`. That a rollback is
latched needs that flag and state agree (`RolledBackNotLive`): a step that keeps the flag keeps a state that
is not live, and only `SetState` drops the flag. The controller's
metrics leave losses out, by early returns. `MetricsAreTold` says that they do so only once
rolled back: before, `dailyLoss` and `streak` equal what was told and are below the gates.
`TotalFallsShort` is about a sum over a set, which the model computes by a fold. The prover has no
induction over an operator, so the fold is unfolded and the argument is a least counterexample: were there
a set of markets without a sum, or with two, there would be a smallest one (`LeastSubset`), and
taking a market from it gives a contradiction (`SumsExist`, `SumsAgree`). From these follows what a
change of one market does to the sum (`SumOfUpdate`). The total then follows: a close
lowers the total by the whole size, or to zero, and the market by no more than that. The proof needs
`Markets` to be finite, which the assumption says: the code reads them from a list.

**SubprocessClient.** `TypeCorrect`, `WorkIsConserved`, `CallersWaitOnce`, `PollsShare`, for any
callers, window, queue and thresholds; the four properties with the finiteness of `inflight` are
the inductive invariant. The proof first shows that every step moves requests in one of seven
ways (`Moves`: a request is dispatched, appended, joins a queued poll; one leaves, or is replaced by the head
of the queue; nothing moves; everything is dropped). That one slot becomes free and one
entry takes it, never more, needs the property itself: a queue that has entries is
beside a full window (`FullWindow`). Then each way keeps what is said of the requests
(`Requests`), and the breaker is treated apart (`BreakerTypes`).

`ImplementsPromises` (`Spec => Seen!Spec`, with the unsettled promises the entries in window and
queue) uses the same seven ways: an entry that moves from the queue to the window changes nothing
for its callers, one that joins a queued poll shares a promise, one that leaves settles one. It needs
`WaitsOnce`, since two equal entries would be one promise, and `PollsShareTheQueue`, since a caller that joins must
join one. `AnswersGoToTheirCallers` is then proved of the six lines of `Promises` and holds of the client.

`NobodyOvertakes` is about order: while the child lives, a request that is queued behind another
does not leave the queue before it, and what enters the queue enters behind all others (as a new
entry, or with a poll that waits there already). Again each of the seven ways is looked at; that the
slot which becomes free goes to the head is what `Leaves` says, and `WaitsOnce` makes "before" a
relation between requests and not between places. When the child exits everything is dropped at
once, which is why the theorem says `running'`.

**VenueExecutor.** `TypeCorrect`, `DoubledUnseenOnly`, `SendsRationed`, `ImplementsLock`. Besides `TypeOK` and the properties the
inductive invariant `IInv` has:

* `Attempts`, how many attempts a request has used by where it is;
* `FillInv`, while an order is out, the position on its market is strays that landed and orders sent
  unseen, this one among the latter if the position was there when it was sent. It does not say that
  the duplicate check saw the truth; it says that what the check was not shown is counted, and that nothing
  but strays is added between the check and the answer;
* `SendsInv`, the orders sent under the held lock and those the request in progress may
  still send (`Left`) fit in the grants. The stronger form is needed because a grant
  precedes its orders by several awaits, with releases and new locks in between.

`ImplementsLock` (`Spec => Lock!Spec`) is the refinement: every step of the executor, of the
chain and of the operators is a step of `CollateralLock` or leaves the lock alone
(`LockStep`). The proof restricts the counts passed to the lock to `0 ..
Cardinality(Markets)`, which `ViewTypes` provides. `OrdersAreRationedByTime` puts the refinement to use:
the theorems of `CollateralLockProofs`, instantiated, hold of the executor (`LockTheorems`), and with
`SendsRationed` they bound the orders sent under a held lock by its age: at most `OpenRetries` for each
full cooldown. Neither module says that alone.

`CapsBoundSingleOrders` *(rest)* is what is left of `ExposureWithinCap`. Since nobody reports an open
to the controller, the gate sees an exposure of zero for ever (`CapInv`), and compares the size of each
order alone with both caps. With `DoubledOnlyUnseen`: a market holds at most its cap, once for the order
and once for each stray that landed and each order sent unseen, and two markets together at most twice the
total cap and theirs. That
the total cap bounds no sum is `ExposureWithinCap` refuted.

**CloseAccounting.** `TypeCorrect`, `OpenTradeKept`, `ClosesBeforeRows`, `BookedAtMostOnce`, for any
number of callers.
`OpenTradeKept` rests on `Kept`: while the position is open and nobody doubted it, nobody is on
the way to report a close either (`NoReport`: no call waits for the price of a close or is about to
book it, no fallback and no monitor is about to emit one), and it goes by its own id (`OwnId`): only
a position that some step took for gone leaves the client's cache, and only one that left it can be listed
under another id or be taken up without a row. So an undoubted position never strays. `ClosesBeforeRows` rests on
`Booked`, which adds that between the two statements the close is already counted; every
step is one of five kinds (`BookStep`) as far as the tables go.

`BookedAtMostOnce` bounds the bookings by the trades, failed statements and records that ran out
(`Allowed`), as long as the position has not strayed; then it has one id, and the marks and records
under that id are the ones that stop a second booking. By itself that is not inductive: several callers may be about to book one close. `Counted` counts what may
yet be booked as booked already (`ToBook`): the callers past the guards (`AtWork`), a pending
record, and one more while a caller may still pass the guards (`MayStart`: no mark is set, and
the row is there or a caller is at the guards). A caller that starts sets the mark, and so takes that one from
all others. The second part of `Counted` bounds what a crash may leave: an unbooked row, and
nothing else. `Settled` says what recovery and sync rest on: what is tracked and has not strayed has its row, and a bot
that recovers has nobody at work. Every step is quiet, starts, hands over, books, clears
or allows one more (`CountStep`).

`ImplementsLedger` (`Spec => Tables!Spec`): `logClose` writes and deletes without a transaction, and
still the tables are a ledger in which a trade is booked in one step. The mapping counts a close only
when its booking is over (`Final`), however it ended: the INSERT maps to nothing, the DELETE to a
booking that takes the trade out, a DELETE that fails or a death in between to one that leaves it.
That each is one step of the ledger needs that nothing else touches the tables while `booking`
(`BookStep`) and that the close being booked is counted already (`Booked`). `TradesDoNotVanish` is proved of
`Ledger` and carried over.

Three theorems say what is left of two comments. `OnlyConfirmationsDoubt` *(rest)*: until the child exits, the bot
dies or a statement fails (`Calm`), only the fallback that takes the confirmation of its transaction for a
fill declares an open position gone; while all is calm the child is ready and its answers are
true (`CalmInv`), so every other conclusion was looked at. `BookedOnlyAfterTakerClose` *(rest)*: on a taker market there are no
exit orders and no fallbacks (`TakerInv`), so in such a run the comment at 3128 holds.
`UserClosesAreBooked` *(rest)*: where nothing fails, a verified close is booked once when the position is a
user's and not at all when it is a strategy's, which is exactly how far the comment at 1312 is wrong.

**SubprocessSupervisor.** `TypeCorrect`, `OneSubprocess`, `PassingCallsReachSdk`, for any
`MaxRestarts`, any set of children and any number of faults. `SafeInv` adds to the two
properties who may start: the child that is booted is the current one (`BootedIsCurrent`), a
start that waits for a stop waits for the child that runs (`StopsCurrent`), a start that runs has
somebody who waits for it (`SomebodyWaits`), `initialize` in progress means not initialised
(`InitPending`), the cleanup of a failed initialisation stops what runs (`CleanupStops`), and a
running child without an SDK has a start or a loop at work on it (`NeedsSdk`).

`GivingUpIsFinal` and `LostUntilShutdown` say what the exception `GaveUp` in `CallsReachSdk` and
`ComesBack` means: it is for good. `OnlyTimerTakesLock` *(rest)* is what is left of
`LockKeptWhileRunning`. The attempts pass their maximum only where the loop ends (`RoundsAreOver`), and only a
success within the loop sets them back, so a client that gave up stays so; if it is initialised and without a
child then (`Lost`), `initialize` returns at once and `_ensureSubprocess` asks for the budget, and
nothing but a shutdown leads out. The lock of a bot that runs on is released by nothing in the
supervision but the `stop()` of a startup timer, which nobody awaits.

**WorkingOrders.** `TypeCorrect`, `OneOperationAtATime`, `DoublingNeedsSlips`, `FillsAreReported`,
`FilledIsReplacedAfterSlips`, for any number of order objects:
`LockIsHeld` says that an operation at work holds the flag of its order, and `NewIsUnknown` that an
object not yet tracked has none, without which `OpenSend`, which starts with a fresh flag,
would take it from somebody. `IdsAreDistinct` is arithmetic: for markets 0 to 49 different
pairs of market and purpose have different order ids.

`DoublingNeedsSlips`: `Load` (orders filled, at rest or on their way) is at most one more than the slips.
Whether a step that sends an order keeps that depends on what the sender knows of the book. A
tracked order stands for one unit of the load, and it is `Vacant` when that unit is provably not
there: its cancel was answered with a success (if that misled, a slip has paid for the unit), or neither a
position nor an id that its operation answers for is left. `TrackedLoad` says that beside a vacant order nothing is out but what slipped, and only vacant orders
are sent anew; `UntrackedLoad` says the same when no order is tracked and there is no position, and before an open
sends; `Borrowed` is an open that took an order of an earlier one for its own. `Actors` says that one order is
tracked and one open under way, so that no other operation has the same unit. `FillsAreReported` adds
`Known`: without a slip, a position is in the cache, an order is tracked, or a fallback that dropped its order is about to
report it (`Cared`). It needs the sums: without a slip the position is all there is (`NothingElseOut`), so an
operation that ends well is not ending some other order. `FilledIsReplacedAfterSlips` is what remains true of the comment that the run
`working_orders_refilled` refutes *(rest)*: the replacement of a filled order takes a slip.

**OrphanSync.** `CancelsAreLimited`: `TypeOK` of `OrphanSync` for any orders and any limit. It is not inductive,
because a failed cancel adds one to a counter that `TypeOK` bounds; `CancelsAreLeft` says that whatever the sync
is about to cancel is below the limit, which `Judge` sees to and no step undoes, since the one
cancel of an order in a round is its last. The theorem is stated in `WorkingOrdersProofs`, of an
instance over variables of its own, and depends on nothing of `WorkingOrders`.

Only model-checked: liveness (`LockIsNotForever`, `BootSettles`, `SendSettles`,
`BreakerRecovers`, `RequestsSettle`, `ComesBack`, `StraysAreCancelled`), which is outside what
the prover does, as is `ENABLED`. Every invariant and every action property of a passing run is a theorem.

## 5 Where code and text disagree

Two have a run.

| Run | The text | The code |
|---|---|---|
| `close_not_booked` | `bot.js:1312` "closePosition() will handle accounting/notifications" | `pnlUsd` (5848) is declared nowhere in `closePosition`, so the statistics of every automated position throw before the close is booked |
| `working_orders_refilled` | `perps-drift-client.js:4647` "This prevents trying to replace orders that have already been filled" | the check looks at an older snapshot; a fill in between makes the cancel answer `not_found`, a success, and the new order is sent |

The others are properties of the modules that TLC refutes when they are added to the
configuration named. They are not run by default, so that each run stays about a question that is
not answered yet. Section 4 *(rest)* has what is proved instead for `SingleTrader`,
`ExposureWithinCap`, `BookedOnlyAfterClose`, `LockKeptWhileRunning` and both runs.

| Property | Add to | The text | The code |
|---|---|---|---|
| `SingleTrader` | `MCInstanceLock.cfg`, with `Faults <- NoFaults` | `db.js:1284` "will fail if another instance inserted between check and insert" | the primary key is the process's own id, so the insert does not fail; two processes that boot together both run |
| `TraderHoldsRow` | `MCInstanceLock.cfg`, with `Faults <- Rejections` | `bot.js:12821` "Don't exit on unhandled rejection, but release lock if process exits" | the handler registered at boot (12171) is still there and releases the lock of a process that goes on |
| `OpensAfterThreshold` | `MCSubprocessClient.cfg` | `drift-subprocess-client.js:66` "Open after 3 consecutive failures" | a timeout counts twice (233 and 259), so two open it |
| `ExposureWithinCap` | `MCVenueExecutor.cfg` | `venue-aware-trade-executor.js:346` "Update limited-live exposure tracking" | calls `recordTrade` where it exists; the controller has none, so exposure stays zero |
| `TimeoutNotResent` | `MCVenueExecutor.cfg` | `drift-error-classifier.js:194` "Don't retry blindly, reconcile first" | "Command timeout" matches the retriable pattern at 58 first; the branch is not reached |
| `LockReleasedByClose` | `MCVenueExecutor.cfg` | `drift-collateral-lock.js:5` opens blocked "until an existing position is closed" | a failed query counts as zero positions and releases the lock |
| `BookedOnlyAfterClose` | `MCCloseAccounting.cfg` | `perps-drift-client.js:3128` "Only emit positionClosed AFTER verifying position is actually closed" | the monitor and the exit fallback emit on a snapshot of a child that is initialising, or on a confirmed transaction |
| `CrashIsRestarted` | `MCSubprocessSupervisor.cfg` | `perps-drift-client.js:1332` "Listen for subprocess exit to auto-restart" | an exit that comes while the loop reconciles (1609-1628) is not looked at; the next caller of `_ensureInitialized` starts the loop |
| `StoppedIsNotCrashed` | `MCSubprocessSupervisor.cfg` | `perps-drift-client.js:371` "we should not treat the exit event as an unexpected crash" | `shutdown` and the cleanup of `initialize` drop the mark before the exit event comes |
| `LockKeptWhileRunning` | `MCSubprocessSupervisor.cfg` | `bot.js:12821`, as above | the startup timer's `stop()` throws when the child is already gone; nobody catches it |
| `NoCancelWhenUncertain` | `MCOrphanSync.cfg` | `perps-drift-client.js:3949` "CRITICAL: Don't cancel orders during uncertainty windows" | the window is looked at before the awaits only |

More were met while modelling and have no property of their own:

* A process suspended past the threshold loses its row and trades on beside its successor
  (`bot.js:12072` only warns; `docs/PRD.md:297` asks that conflicting processes be prevented).
* A half-open breaker lets every call through (`drift-subprocess-client.js:298`), not
  "one request" (292).
* An empty live snapshot is answered from the cache even with `requireLive`
  (`perps-drift-client.js:3701`), so after a close behind the client's back the next open is
  reported as a duplicate of a position that is gone.
* A cancel is answered with a success by a child that is not initialised (`drift-subprocess/index.js` 3700-3709); for
  the sync of untracked orders that also erases the record of earlier failures (`perps-drift-client.js:4159`).
* A position found again by the sync right after it was dropped is tracked without a row (`bot.js:8127`), or under
  another id, to which no record of its close belongs.
* `enableMarket` of the executor leaves the client's list of disabled markets as it is
  (`venue-aware-trade-executor.js:834`); the market stays refused.
* Order ids "support up to 51 markets" (`perps-drift-client.js:728`): the exit fallback of market 50 has the
  id of the entry of market 0.
* When the DELETE of `logClose` fails, the bot keeps the position "in tracking for retry"
  (`bot.js:6013`), but its record of the close stops the retry that the client's event would make.
* A fallback that finds the flag of its order taken does not start, but the state `fallback`
  stays (`perps-drift-client.js:4491`), and with it nobody takes the order up again until the
  monitor drops it.
* A replacement that fails for want of collateral counts its order as filled when there is a position
  (4874-4911) and tells nobody.

## 6 What is not modelled, and why

* The file lock of local runs (`bot.js` 12076-12120), the Jupiter route, the retries of closes:
  planned, section 7.
* What the books hold of a position that has strayed (2.6), and a booter that is suspended inside
  `acquireInstanceLock` (2.2).
* What is left out of a modelled part is named with its module in section 2.
* Strategies, indicators, allocator, risk sizing, fees, slippage, leverage: synchronous
  functions over floating-point prices, without a protocol.
* Price feeds, web sockets, RPC endpoints: reconnect logic around numbers; candidates
  after the plan.
* Message patterns of the error classifier: its outcomes are the branches of the executor.
* The child process and the Drift SDK: known through their answers.
* UI, Telegram, logging, secrets, configuration, backtests: presentation, files and offline
  tools. What operators can do to a modelled part is an action of its model. The
  backtests, half of the repository's lines, simulate strategies on recorded prices.

## 7 The plan

In the order of importance; 1-10 are done.

1. `CollateralLock`, with proofs: the smallest part, and the specification others refine.
2. `InstanceLock`, with proofs of exclusion.
3. `LimitedLive`, with proofs of the gates.
4. `SubprocessClient`, with proofs of the queue.
5. `VenueExecutor`, composing 1 and 3, with the refinement of 1.
6. `SubprocessSupervisor`, with proofs.
7. `CloseAccounting`, with proofs: one position from the close call to the books.
8. `WorkingOrders`, with proofs of the operation flag.
9. `OrphanSync`.
10. Proofs of the remaining invariants (`BookedOnce`, `DoubledOnlyBySlips`, `FillIsReported`,
    `TotalNeverAboveMarkets`, `TypeOK` of `OrphanSync`), the refinements of `Promises`, `Mutex` and `Ledger`,
    and what remains true of the refuted comments.
11. The post-only refusal of an entry and the taker that follows it; partial closes.
12. `FileLock`: the lock file of local runs, as a second implementation of the exclusion.
13. Closes and opens on Jupiter.

New modules take the place of runs that ask the least; the runs stay about one question
each.
