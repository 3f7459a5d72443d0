-------------------------- MODULE CloseAccounting --------------------------
(***************************************************************************)
(* How one Drift position of a live bot leaves the exchange and the books: *)
(* bot.js closePosition, the client's closePosition, the exit side of its  *)
(* order monitor and of its reconciliation, the events that tell the bot   *)
(* of a close, db.logClose, the position sync and the recovery.            *)
(*                                                                         *)
(* Every close call, exit order and fallback is a process; what lies       *)
(* between two of its awaits is one step.  The two statements of logClose  *)
(* are two steps, between which nothing but a failure or the death of the  *)
(* bot can come.  The exchange fills, drops and liquidates when it likes.  *)
(* A subprocess that is still initialising answers with empty lists.       *)
(*                                                                         *)
(* The books know a position by its id, and the client gives it one when   *)
(* it lists the chain: the one in its cache, or else that of a row, or     *)
(* else one made of market and side.  The module follows one id.  Once the *)
(* position goes by another, or is tracked without a row, it has strayed:  *)
(* what the books then hold under the other id is not followed.            *)
(***************************************************************************)
EXTENDS Naturals

CONSTANTS
    Callers,        \* who calls closePosition: exit loop, dashboard, ...
    UserCallers,    \* those whose reason is a user's
    MaxMishaps      \* bound: exits, deaths, faults, timers, rows written again, together

ASSUME CloseAssumption ==
    /\ UserCallers \subseteq Callers
    /\ MaxMishaps \in Nat

VARIABLES
    makerMarket,\* EXEC_MODE of the market is maker
    strayed,    \* history: it was taken up under another id, or without a row
    pos,        \* the position on the exchange; gone: closed, liquidated, delisted
    limit,      \* limit[c]: the exit limit order of caller c rests on the book
    market,     \* a reduce-only market order is on its way to a fill
    sub,        \* the subprocess
    bot,        \* the bot's process
    outages,    \* history: exits of the subprocess, deaths of the bot outside logClose
    pc,         \* pc[c]: the await at which caller c is
    automated,  \* trade_type of the position
    tracked,    \* openPositions holds it
    mark,       \* its close key is in _recentActions, younger than 60 s
    runouts,    \* history: marks and records whose time ran out
    pending,    \* it is in _pendingDriftCloseByPositionId
    finalized,  \* it is in _finalizedCloseByPositionId, younger than 5 min
    cached,     \* the id under which the client's positions map holds its market
    order,      \* order[c]: the state of caller c's order in workingOrders
    fb,         \* fb[c]: the await at which the fallback of that order is
    mon,        \* the caller for whose order the order monitor awaits a price
    emitted,    \* it is in _recentPositionClosedAt, younger than 5 min
    row,        \* trades_open holds its row
    trades,     \* history: rows written to trades_open
    closes,     \* its rows in trades_close
    booking,    \* logClose is between its two statements
    faults,     \* history: failures and deaths at logClose
    doubt       \* history: the position was taken for gone without being looked at

caseVars == <<makerMarket, strayed>>
exchangeVars == <<pos, limit, market>>
processVars == <<sub, bot, outages>>
botVars == <<automated, tracked, mark, runouts, pending, finalized>>
clientVars == <<cached, order, fb, mon, emitted>>
dbVars == <<row, trades, closes, booking, faults>>
vars == <<caseVars, exchangeVars, processVars, pc, botVars, clientVars, dbVars, doubt>>

None == "none"
CallerSteps == {"idle", "guard", "client", "maker", "taker", "verify", "price", "account"}
FallbackSteps == {None, "check", "cancel", "taker", "confirm", "unconfirmed", "price"}

FlagTypes ==
    /\ makerMarket \in BOOLEAN /\ strayed \in BOOLEAN /\ market \in BOOLEAN
    /\ automated \in BOOLEAN /\ tracked \in BOOLEAN /\ mark \in BOOLEAN
    /\ pending \in BOOLEAN /\ finalized \in BOOLEAN
    /\ emitted \in BOOLEAN /\ row \in BOOLEAN /\ booking \in BOOLEAN
    /\ doubt \in BOOLEAN /\ limit \in [Callers -> BOOLEAN]

StateTypes ==
    /\ pos \in {"open", "gone"}
    /\ sub \in {"ready", "reconciling", "starting", "down"}
    /\ bot \in {"up", "recovering"}
    /\ pc \in [Callers -> CallerSteps]
    /\ order \in [Callers -> {None, "working", "fallback"}]
    /\ fb \in [Callers -> FallbackSteps]
    /\ mon \in Callers \cup {None}
    /\ cached \in {None, "own", "other"}

CounterTypes ==
    /\ runouts \in Nat /\ outages \in Nat /\ faults \in Nat
    /\ trades \in Nat \ {0} /\ closes \in Nat
    /\ runouts + outages + faults + trades <= MaxMishaps + 1

TypeOK == FlagTypes /\ StateTypes /\ CounterTypes

\* One more mishap is within the bound.
Mishap == runouts + outages + faults + trades <= MaxMishaps

Gone == pos # "open"
Live == sub \in {"ready", "reconciling"}

\* What a positions snapshot says: one taken from an initialising subprocess
\* is empty, and the order monitor reads no flag that would tell.
LooksGone == sub = "starting" \/ (Live /\ Gone)
LooksOpen == Live /\ ~Gone

\* The step takes the position for gone.
ConcludeGone == doubt' = (doubt \/ ~Gone)

Init ==
    /\ makerMarket \in BOOLEAN /\ automated \in BOOLEAN /\ strayed = FALSE
    /\ pos = "open" /\ limit = [c \in Callers |-> FALSE] /\ market = FALSE
    /\ sub = "ready" /\ bot = "up" /\ outages = 0
    /\ pc = [c \in Callers |-> "idle"]
    /\ tracked = TRUE /\ mark = FALSE /\ runouts = 0 /\ pending = FALSE /\ finalized = FALSE
    /\ cached = "own" /\ order = [c \in Callers |-> None] /\ fb = [c \in Callers |-> None]
    /\ mon = None /\ emitted = FALSE
    /\ row = TRUE /\ trades = 1 /\ closes = 0 /\ booking = FALSE /\ faults = 0
    /\ doubt = FALSE

-----------------------------------------------------------------------------
(* db.logClose: the row of the close goes in, then the open row goes out.  *)

LogClose_DeletesFirst ==
    \/ row' = FALSE /\ booking' = TRUE /\ UNCHANGED <<closes, trades, faults>>
    \/ /\ Mishap
       /\ faults' = faults + 1
       /\ UNCHANGED <<row, trades, closes, booking>>

LogClose ==
    \/ closes' = closes + 1 /\ booking' = TRUE /\ UNCHANGED <<row, trades, faults>>
    \/ /\ Mishap
       /\ faults' = faults + 1
       /\ UNCHANGED <<row, trades, closes, booking>>

\* The DELETE, and what every caller does next: forget the position.
FinishClose ==
    /\ booking
    /\ booking' = FALSE /\ row' = FALSE /\ tracked' = FALSE
    /\ UNCHANGED <<caseVars, exchangeVars, processVars, pc, automated, mark, runouts,
                   pending, finalized, clientVars, trades, closes, faults, doubt>>

\* The DELETE fails: the position stays in tracking "for retry".
DeleteFails ==
    /\ booking /\ Mishap
    /\ booking' = FALSE /\ faults' = faults + 1
    /\ UNCHANGED <<caseVars, exchangeVars, processVars, pc, botVars, clientVars,
                   row, trades, closes, doubt>>

\* The listener of positionClosed and _finalizeClosedPositionFromDriftEvent.
\* The listener looks for the position by id or market: one that has strayed
\* it may find, and book, under the other id.
PositionClosedEvent ==
    /\ UNCHANGED <<automated, mark, runouts>>
    /\ \/ /\ pending /\ strayed
          /\ pending' = FALSE /\ tracked' \in {tracked, FALSE}
          /\ UNCHANGED <<finalized, dbVars>>
       \/ /\ pending /\ tracked
          /\ pending' = FALSE /\ finalized' = TRUE /\ UNCHANGED tracked
          /\ IF finalized THEN UNCHANGED dbVars ELSE LogClose
       \/ /\ ~(pending /\ tracked)
          /\ tracked' = (tracked /\ mark)
          /\ UNCHANGED <<pending, finalized, dbVars>>

\* _emitPositionClosedOnce, after the market has left the positions cache.
EmitPositionClosedOnce ==
    /\ cached' = None
    /\ emitted' = TRUE
    /\ IF emitted THEN UNCHANGED <<botVars, dbVars>> ELSE PositionClosedEvent

-----------------------------------------------------------------------------
(* closePosition of the bot and, from "client" on, of the client.          *)

Close(c) ==
    /\ bot = "up" /\ pc[c] = "idle" /\ tracked
    /\ automated \/ c \in UserCallers
    /\ pc' = [pc EXCEPT ![c] = "guard"]
    /\ UNCHANGED <<caseVars, exchangeVars, processVars, botVars, clientVars, dbVars, doubt>>

Guard_NoDuplicateCheck(c) ==
    /\ pc[c] = "guard"
    /\ \/ pc' = [pc EXCEPT ![c] = "idle"] /\ UNCHANGED mark
       \/ mark' = TRUE /\ pc' = [pc EXCEPT ![c] = "client"]
    /\ UNCHANGED <<caseVars, exchangeVars, processVars, automated, tracked, runouts,
                   pending, finalized, clientVars, dbVars, doubt>>

\* The guard has answered: it blocks, or the mark stops a second close.
Guard(c) ==
    /\ pc[c] = "guard"
    /\ \/ pc' = [pc EXCEPT ![c] = "idle"] /\ UNCHANGED mark
       \/ ~mark /\ mark' = TRUE /\ pc' = [pc EXCEPT ![c] = "client"]
    /\ UNCHANGED <<caseVars, exchangeVars, processVars, automated, tracked, runouts,
                   pending, finalized, clientVars, dbVars, doubt>>

\* An error reaches the catch of the bot, which means to clear the mark but
\* names a constant of the try block: the mark stays.
Throw(c) ==
    /\ pc[c] \in {"client", "maker", "taker"}
    /\ pc' = [pc EXCEPT ![c] = "idle"]
    /\ UNCHANGED <<caseVars, exchangeVars, processVars, botVars, clientVars, dbVars, doubt>>

\* The client is initialised; an exit order in progress ends the call.
CheckExit(c) ==
    /\ pc[c] = "client" /\ sub = "ready"
    /\ pc' = [pc EXCEPT ![c] =
                 IF \E d \in Callers : order[d] # None THEN "idle"
                 ELSE IF makerMarket THEN "maker" ELSE "taker"]
    /\ UNCHANGED <<caseVars, exchangeVars, processVars, botVars, clientVars, dbVars, doubt>>

\* It is gone with its market, which is no longer known: a phantom.
Phantom(c) ==
    /\ Live /\ Gone
    /\ cached' = None /\ tracked' = FALSE
    /\ pc' = [pc EXCEPT ![c] = "account"]
    /\ UNCHANGED <<exchangeVars, automated, mark, runouts, pending, finalized,
                   order, fb, mon, emitted>>

\* Answer to the limit order: accepted and tracked, refused, or lost.
PlaceMaker(c) ==
    /\ pc[c] = "maker" /\ fb[c] = None /\ mon # c
    /\ \/ Phantom(c)
       \/ /\ sub # "down"
          /\ limit' = IF LooksOpen THEN [limit EXCEPT ![c] = TRUE] ELSE limit
          /\ order' = [order EXCEPT ![c] = "working"]
          /\ pending' = TRUE
          /\ pc' = [pc EXCEPT ![c] = "idle"]
          /\ UNCHANGED <<pos, market, automated, tracked, mark, runouts, finalized,
                         cached, fb, mon, emitted>>
       \/ /\ limit' \in {limit} \cup (IF LooksOpen THEN {[limit EXCEPT ![c] = TRUE]} ELSE {})
          /\ pc' = [pc EXCEPT ![c] = "taker"]
          /\ UNCHANGED <<pos, market, botVars, clientVars>>
    /\ UNCHANGED <<caseVars, processVars, dbVars, doubt>>

\* Answer to the market order: sent (or simulated by an initialising
\* subprocess), lost, or an error on which the executor starts over.
PlaceTaker(c) ==
    /\ pc[c] = "taker"
    /\ \/ Phantom(c)
       \/ /\ market' \in {market} \cup (IF LooksOpen THEN {TRUE} ELSE {})
          /\ pc' = [pc EXCEPT ![c] = "verify"]
          /\ UNCHANGED <<pos, limit, botVars, clientVars>>
       \/ /\ pc' = [pc EXCEPT ![c] = "client"]
          /\ UNCHANGED <<exchangeVars, botVars, clientVars>>
    /\ UNCHANGED <<caseVars, processVars, dbVars, doubt>>

Verify_AcceptsAnyAnswer(c) ==
    /\ pc[c] = "verify"
    /\ IF LooksGone
       THEN pc' = [pc EXCEPT ![c] = "price"] /\ cached' = None
       ELSE pc' = [pc EXCEPT ![c] = "idle"] /\ UNCHANGED cached
    /\ UNCHANGED <<caseVars, exchangeVars, processVars, botVars, order, fb, mon,
                   emitted, dbVars, doubt>>

\* _waitForPositionClosed: only a live answer counts; else close_pending.
Verify(c) ==
    /\ pc[c] = "verify"
    /\ IF Live /\ Gone
       THEN pc' = [pc EXCEPT ![c] = "price"] /\ cached' = None
       ELSE pc' = [pc EXCEPT ![c] = "idle"] /\ UNCHANGED cached
    /\ UNCHANGED <<caseVars, exchangeVars, processVars, botVars, order, fb, mon,
                   emitted, dbVars, doubt>>

\* The exit price is known: the client emits positionClosed and returns.
Price(c) ==
    /\ pc[c] = "price"
    /\ pc' = [pc EXCEPT ![c] = "account"]
    /\ PositionClosedEvent
    /\ UNCHANGED <<caseVars, exchangeVars, processVars, clientVars, doubt>>

\* Back in the bot.  For an automated position the statistics of the
\* strategy read an undeclared variable, and the call throws before it books.
Account(c) ==
    /\ pc[c] = "account"
    /\ pc' = [pc EXCEPT ![c] = "idle"]
    /\ IF automated THEN UNCHANGED dbVars ELSE LogClose
    /\ UNCHANGED <<caseVars, exchangeVars, processVars, botVars, clientVars, doubt>>

CallerNext(c) ==
    \/ Close(c) \/ Guard(c) \/ Throw(c) \/ CheckExit(c) \/ PlaceMaker(c)
    \/ PlaceTaker(c) \/ Verify(c) \/ Price(c) \/ Account(c)

MarkRunsOut ==
    /\ mark /\ Mishap
    /\ mark' = FALSE /\ runouts' = runouts + 1
    /\ UNCHANGED <<caseVars, exchangeVars, processVars, pc, automated, tracked, pending,
                   finalized, clientVars, dbVars, doubt>>

-----------------------------------------------------------------------------
(* The order monitor and the fallback of an exit order.                    *)

\* The order is off the book and the position looks gone: filled.
MonitorGone(c) ==
    /\ mon = None /\ order[c] # None
    /\ sub = "starting" \/ ~limit[c]
    /\ LooksGone
    /\ order' = [order EXCEPT ![c] = None]
    /\ mon' = c
    /\ ConcludeGone
    /\ UNCHANGED <<caseVars, exchangeVars, processVars, pc, botVars, cached, fb, emitted, dbVars>>

MonitorEmit ==
    /\ mon # None
    /\ mon' = None
    /\ EmitPositionClosedOnce
    /\ UNCHANGED <<caseVars, exchangeVars, processVars, pc, order, fb, doubt>>

\* It left the book unfilled, or has rested too long: a fallback is started.
MonitorFallback(c) ==
    /\ mon = None /\ order[c] = "working"
    /\ Live /\ (limit[c] \/ ~Gone)
    /\ order' = [order EXCEPT ![c] = "fallback"]
    /\ fb' = [fb EXCEPT ![c] = "check"]
    /\ UNCHANGED <<caseVars, exchangeVars, processVars, pc, botVars, cached, mon, emitted, dbVars, doubt>>

\* An order whose fallback has not ended in time is cancelled and dropped.
MonitorDrop(c) ==
    /\ mon = None /\ order[c] = "fallback"
    /\ Live /\ (limit[c] \/ ~Gone)
    /\ limit' \in {limit, [limit EXCEPT ![c] = FALSE]}
    /\ order' = [order EXCEPT ![c] = None]
    /\ UNCHANGED <<caseVars, pos, market, processVars, pc, botVars, cached, fb, mon, emitted, dbVars, doubt>>

FallbackCheck(c) ==
    /\ fb[c] = "check"
    /\ IF LooksGone
       THEN /\ fb' = [fb EXCEPT ![c] = "price"]
            /\ order' = [order EXCEPT ![c] = None]
            /\ ConcludeGone
       ELSE fb' = [fb EXCEPT ![c] = "cancel"] /\ UNCHANGED <<order, doubt>>
    /\ UNCHANGED <<caseVars, exchangeVars, processVars, pc, botVars, cached, mon, emitted, dbVars>>

FallbackCancel(c) ==
    /\ fb[c] = "cancel"
    /\ \/ /\ limit' \in {limit} \cup (IF Live THEN {[limit EXCEPT ![c] = FALSE]} ELSE {})
          /\ fb' = [fb EXCEPT ![c] = "taker"]
          /\ UNCHANGED <<order, doubt>>
       \/ /\ LooksGone
          /\ fb' = [fb EXCEPT ![c] = "price"]
          /\ order' = [order EXCEPT ![c] = None]
          /\ ConcludeGone
          /\ UNCHANGED limit
    /\ UNCHANGED <<caseVars, pos, market, processVars, pc, botVars, cached, mon, emitted, dbVars>>

\* Sent, simulated, or an error, after which the position is looked at once.
FallbackTaker(c) ==
    /\ fb[c] = "taker"
    /\ \/ /\ LooksOpen
          /\ market' = TRUE
          /\ fb' = [fb EXCEPT ![c] = "confirm"]
          /\ UNCHANGED <<order, doubt>>
       \/ /\ sub = "starting"
          /\ fb' = [fb EXCEPT ![c] = "unconfirmed"]
          /\ UNCHANGED <<market, order, doubt>>
       \/ /\ market' \in {market} \cup (IF LooksOpen THEN {TRUE} ELSE {})
          /\ \/ LooksGone /\ fb' = [fb EXCEPT ![c] = "price"] /\ ConcludeGone /\ UNCHANGED order
             \/ /\ ~LooksGone
                /\ fb' = [fb EXCEPT ![c] = None]
                /\ order' = [order EXCEPT ![c] = None]
                /\ UNCHANGED doubt
    /\ UNCHANGED <<caseVars, pos, limit, processVars, pc, botVars, cached, mon, emitted, dbVars>>

\* A confirmed transaction placed the order; it is taken for the fill.
FallbackConfirm(c) ==
    /\ fb[c] = "confirm"
    /\ \/ /\ fb' = [fb EXCEPT ![c] = "price"]
          /\ order' = [order EXCEPT ![c] = None]
          /\ ConcludeGone
       \/ fb' = [fb EXCEPT ![c] = "unconfirmed"] /\ UNCHANGED <<order, doubt>>
    /\ UNCHANGED <<caseVars, exchangeVars, processVars, pc, botVars, cached, mon, emitted, dbVars>>

FallbackUnconfirmed(c) ==
    /\ fb[c] = "unconfirmed"
    /\ \/ /\ LooksGone
          /\ fb' = [fb EXCEPT ![c] = "price"]
          /\ order' = [order EXCEPT ![c] = None]
          /\ ConcludeGone
       \/ /\ ~LooksGone
          /\ fb' = [fb EXCEPT ![c] = None]
          /\ order' = IF Live THEN [order EXCEPT ![c] = None] ELSE order
          /\ UNCHANGED doubt
    /\ UNCHANGED <<caseVars, exchangeVars, processVars, pc, botVars, cached, mon, emitted, dbVars>>

FallbackEmit(c) ==
    /\ fb[c] = "price"
    /\ fb' = [fb EXCEPT ![c] = None]
    /\ order' = [order EXCEPT ![c] = None]
    /\ EmitPositionClosedOnce
    /\ UNCHANGED <<caseVars, exchangeVars, processVars, pc, mon, doubt>>

OrderNext(c) ==
    \/ MonitorGone(c) \/ MonitorFallback(c) \/ MonitorDrop(c)
    \/ FallbackCheck(c) \/ FallbackCancel(c) \/ FallbackTaker(c)
    \/ FallbackConfirm(c) \/ FallbackUnconfirmed(c) \/ FallbackEmit(c)

\* The five minutes of the two records of a close are over.
RecordsExpire ==
    /\ Mishap
    /\ runouts' = runouts + 1
    /\ \/ emitted /\ emitted' = FALSE /\ UNCHANGED finalized
       \/ finalized /\ finalized' = FALSE /\ UNCHANGED emitted
    /\ UNCHANGED <<caseVars, exchangeVars, processVars, pc, automated, tracked, mark,
                   pending, cached, order, fb, mon, dbVars, doubt>>

-----------------------------------------------------------------------------
(* Position sync, subprocess, crash and recovery.                          *)

\* The id that the client gives the position when the chain lists it.  The
\* one made of market and side is its own if the bot found it on the chain.
ListedAs ==
    IF cached # None THEN {cached}
    ELSE IF row /\ ~strayed THEN {"own"} ELSE {"own", "other"}

\* getAllOpenPositions rebuilds the cache from a live answer that lists some
\* position, and answers with the cache when it got none.  The child answers
\* from its own copy, which may still list a position that has gone.
CacheAfterQuery ==
    {cached} \cup (IF Live THEN ListedAs ELSE {}) \cup (IF Live /\ Gone THEN {None} ELSE {})

\* The dashboard, or an open that counts the positions, asks as well.
QueryPositions ==
    /\ bot = "up" /\ sub # "down"
    /\ cached' \in CacheAfterQuery
    /\ UNCHANGED <<caseVars, exchangeVars, processVars, pc, botVars, order, fb, mon,
                   emitted, dbVars, doubt>>

InsertRow == row' = TRUE /\ trades' = trades + 1 /\ automated' \in BOOLEAN

AddFromChain_AlwaysInserts ==
    /\ tracked' = TRUE
    /\ InsertRow /\ UNCHANGED strayed

\* The sync meets the position and does not track it.  One from the cache of
\* the client is the bot's own, and gets no row; one that the client found a
\* row for keeps it; another gets one, and is whose the settings say.
AddFromChain ==
    /\ tracked' = TRUE
    /\ \/ /\ cached = "own"
          /\ automated' = TRUE
          /\ strayed' = (strayed \/ ~row)
          /\ UNCHANGED <<row, trades>>
       \/ /\ cached = None /\ row
          /\ automated' \in {automated, TRUE}
          /\ UNCHANGED <<strayed, row, trades>>
       \/ /\ cached = None /\ ~row /\ Mishap
          /\ InsertRow /\ UNCHANGED strayed

\* _syncPositionsFromChain.  A position the answer lacks is forgotten
\* without a booking, also when it is listed under another id, and also when
\* the client failed: the executor turns its error into an empty answer.
SyncPositions ==
    /\ bot = "up"
    /\ \/ /\ sub # "down"
          /\ cached' \in CacheAfterQuery
          /\ \/ cached' = "own" /\ ~tracked /\ AddFromChain /\ UNCHANGED doubt
             \/ /\ cached' = "other"
                /\ strayed' = TRUE /\ tracked' \in {tracked, FALSE}
                /\ UNCHANGED <<row, trades, automated, doubt>>
             \/ /\ cached' = None /\ tracked
                /\ tracked' = FALSE
                /\ ConcludeGone
                /\ UNCHANGED <<strayed, row, trades, automated>>
       \/ /\ sub = "down" /\ tracked
          /\ tracked' = FALSE
          /\ ConcludeGone
          /\ UNCHANGED <<strayed, cached, row, trades, automated>>
    /\ UNCHANGED <<makerMarket, exchangeVars, processVars, pc, mark, runouts,
                   pending, finalized, order, fb, mon, emitted, closes, booking, faults>>

\* Calls, orders and events of the other id: the listener finds by market,
\* so that they may drop the position, or book it, under this one.
OtherId ==
    /\ strayed /\ bot = "up"
    /\ \/ /\ cached = "other" /\ cached' = None
          /\ UNCHANGED <<tracked, finalized, dbVars>>
       \/ /\ tracked /\ tracked' = FALSE
          /\ UNCHANGED <<cached, finalized, dbVars>>
       \/ /\ tracked /\ ~finalized
          /\ finalized' = TRUE /\ LogClose
          /\ UNCHANGED <<cached, tracked>>
    /\ UNCHANGED <<caseVars, exchangeVars, processVars, pc, automated, mark, runouts, pending,
                   order, fb, mon, emitted, doubt>>

SubprocessExits ==
    /\ sub # "down" /\ Mishap
    /\ sub' = "down" /\ outages' = outages + 1
    /\ UNCHANGED <<caseVars, exchangeVars, bot, pc, botVars, clientVars, dbVars, doubt>>

SubprocessStarts ==
    /\ \/ sub = "down" /\ sub' = "starting"
       \/ sub = "starting" /\ sub' = "reconciling"
    /\ UNCHANGED <<caseVars, exchangeVars, bot, outages, pc, botVars, clientVars, dbVars, doubt>>

\* _reconcileState keeps one order of the market.  If it left the book
\* while the position is gone, it is dropped and nobody is told; if the
\* position is there, the order is taken for an entry that filled, and the
\* bot is told of a new position with the id of the order.  Orders on the
\* book that nobody tracks are cancelled.
Reconcile ==
    /\ sub = "reconciling" /\ sub' = "ready"
    /\ \/ UNCHANGED <<limit, order, cached, tracked, strayed, doubt>>
       \/ \E kept \in {c \in Callers : order[c] # None} \cup {None} :
             /\ kept = None => \A c \in Callers : order[c] = None
             /\ order' = [c \in Callers |-> IF c = kept /\ limit[c] THEN order[c] ELSE None]
             /\ \E gone \in SUBSET {c \in Callers : order'[c] = None} :
                   limit' = [c \in Callers |-> limit[c] /\ c \notin gone]
             /\ LET applied == kept # None /\ ~limit[kept] /\ ~Gone
                IN  /\ cached' = IF applied THEN "other" ELSE cached
                    /\ tracked' \in {tracked} \cup (IF applied THEN {FALSE} ELSE {})
                    /\ strayed' = (strayed \/ applied)
                    /\ doubt' = (doubt \/ applied)
    /\ UNCHANGED <<makerMarket, pos, market, bot, outages, pc, automated,
                   mark, runouts, pending, finalized, fb, mon, emitted, dbVars>>

Crash ==
    /\ Mishap
    /\ bot' = "recovering" /\ sub' = "starting"
    /\ pc' = [c \in Callers |-> "idle"]
    /\ tracked' = FALSE /\ mark' = FALSE /\ pending' = FALSE /\ finalized' = FALSE
    /\ cached' = None /\ emitted' = FALSE /\ mon' = None
    /\ order' = [c \in Callers |-> None] /\ fb' = [c \in Callers |-> None]
    /\ booking' = FALSE
    /\ IF booking THEN faults' = faults + 1 /\ UNCHANGED outages
       ELSE outages' = outages + 1 /\ UNCHANGED faults
    /\ UNCHANGED <<caseVars, exchangeVars, automated, runouts, row, trades,
                   closes, doubt>>

\* recoverPositions.  Rows whose id the chain's answer lacks are closed with
\* a profit of zero, but only when that answer lists some other position.
Recover ==
    /\ bot = "recovering" /\ bot' = "up"
    /\ cached' \in CacheAfterQuery
    /\ \/ /\ cached' = "own"
          /\ tracked' = TRUE
          /\ \/ row /\ UNCHANGED <<row, trades, automated>>
             \/ ~row /\ Mishap /\ InsertRow
          /\ UNCHANGED <<strayed, closes, booking, faults, doubt>>
       \/ /\ cached' = "other"
          /\ strayed' = TRUE
          /\ IF row THEN LogClose ELSE UNCHANGED dbVars
          /\ UNCHANGED <<tracked, automated, doubt>>
       \/ /\ cached' = None
          /\ ConcludeGone
          /\ UNCHANGED dbVars \/ (Live /\ Gone /\ row /\ LogClose)
          /\ UNCHANGED <<strayed, tracked, automated>>
    /\ UNCHANGED <<makerMarket, exchangeVars, sub, outages, pc, mark,
                   runouts, pending, finalized, order, fb, mon, emitted>>

-----------------------------------------------------------------------------
(* The exchange.                                                           *)

\* The position goes, and a market order that would reduce it is void.
Leave == pos' = "gone" /\ market' = FALSE

ExchangeNext ==
    /\ \/ ~Gone /\ Leave /\ UNCHANGED limit
       \/ \E c \in Callers :
             /\ limit[c]
             /\ limit' = [limit EXCEPT ![c] = FALSE]
             /\ UNCHANGED <<pos, market>> \/ (~Gone /\ Leave)
       \/ /\ market /\ market' = FALSE
          /\ UNCHANGED <<pos, limit>>
    /\ UNCHANGED <<caseVars, processVars, pc, botVars, clientVars, dbVars, doubt>>

Next ==
    \/ FinishClose \/ DeleteFails \/ Crash \/ ExchangeNext
    \/ /\ ~booking
       /\ \/ \E c \in Callers : CallerNext(c) \/ OrderNext(c)
          \/ MonitorEmit \/ MarkRunsOut \/ RecordsExpire
          \/ QueryPositions \/ SyncPositions \/ OtherId \/ SubprocessExits \/ SubprocessStarts \/ Reconcile \/ Recover

Spec == Init /\ [][Next]_vars

-----------------------------------------------------------------------------
(* Properties.                                                             *)

\* Unless somebody took the position for gone without looking, an open
\* position has its row, was not booked as closed, and is tracked by a
\* running bot, whatever the calls, monitors, restarts and outages did.
OpenTradeIsKept ==
    pos = "open" /\ ~doubt => row /\ closes = 0 /\ (bot = "up" => tracked)

\* A trade is booked as closed once, as long as the position goes by one id
\* and is not tracked without a row.  What books it again is a statement of
\* logClose that failed or was cut off, or a mark or a record of the close
\* that ran out while the close was still at work.
BookedOnce == strayed \/ closes <= trades + faults + runouts

\* The open row of a trade leaves only after the row of its close is in.
RowOrClose == closes >= IF row THEN trades - 1 ELSE trades

\* The client's comment at 3128: positionClosed is emitted, and so the
\* close booked, only after the position was verified to be closed.
BookedOnlyAfterClose == closes > 0 => Gone

\* The bot's comment at 1312: "closePosition() will handle accounting": a
\* call that has verified the close books it.
VerifiedCloseIsBooked ==
    [][\A c \in Callers :
          pc[c] = "account" /\ pc'[c] # "account" /\ outages' = outages
             => closes' > closes \/ faults' > faults]_vars

=============================================================================
