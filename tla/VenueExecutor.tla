----------------------------- MODULE VenueExecutor -----------------------------
(***************************************************************************)
(* Opening a position on Drift: VenueAwareTradeExecutor._openDrift, the    *)
(* taker path of DriftPerpsClient.openPosition beneath it, the collateral  *)
(* lock and the limited-live gate it asks, and the chain behind the        *)
(* subprocess.  The bot queues its opens, so one is in progress at a time; *)
(* positions close, orders land and time passes meanwhile.                 *)
(*                                                                         *)
(* A step is one turn of the event loop, from the answer to an await to    *)
(* the next await.  Every request has the same size and one side.          *)
(*                                                                         *)
(* The subprocess answers from its own copy of the account, which follows  *)
(* the chain late: getPositions refreshes it once in a while, and a forced *)
(* refresh is throttled and may fail (subprocess 235-248, 1493-1513).      *)
(***************************************************************************)
EXTENDS Integers, FiniteSets

CONSTANTS
    Markets, NoMarket,
    Size,               \* collateral * leverage of a request
    MarketCap, TotalCap,    \* the caps of the limited-live gate
    OpenRetries,        \* options.openRetries
    ChildSends,         \* maxAttempts of the subprocess, for one command
    MaxStrays,          \* bound on the strays of a market
    MaxBlind,           \* bound: no open starts beyond it
    MaxLockDuration, MinLockInterval, CooldownRetry

ASSUME VenueExecutorAssumption ==
    /\ IsFiniteSet(Markets) /\ NoMarket \notin Markets
    /\ {Size, MarketCap, TotalCap, MaxStrays, MaxBlind} \subseteq Nat
    /\ {OpenRetries, ChildSends} \subseteq Nat \ {0}
    /\ {MaxLockDuration, MinLockInterval, CooldownRetry} \subseteq Nat \ {0}

VARIABLES
    active, lockAge, lockedAtCount, sinceLock, sinceRetry, admits,  \* CollateralLock
    total, byMarket,    \* LimitedLive: the exposure the gate knows of
    open,               \* the open in progress
    disabled,           \* disabledMarkets of the executor
    clientDisabled,     \* disabledMarkets of the Drift client
    cache,              \* positions of the Drift client: the markets it holds
    snapshot,           \* the markets held in the subprocess' copy of the account
    chain,              \* orders in the position on chain, by market
    strays,             \* orders nobody waits for that may still land, by market
    landed,             \* history: strays in the position on chain, by market
    blind,              \* history: orders sent to the position on chain unseen, by market
    lockedSends         \* history: placeMarketOrder commands sent under the held lock

lockVars == <<active, lockAge, lockedAtCount, sinceLock, sinceRetry, admits>>
gateVars == <<total, byMarket>>
disabledVars == <<disabled, clientDisabled>>
chainVars == <<snapshot, chain, strays, landed, blind>>
vars == <<lockVars, gateVars, open, disabledVars, cache, chainVars, lockedSends>>

Lock == INSTANCE CollateralLock WITH MaxPositions <- Cardinality(Markets)

Gate == INSTANCE LimitedLive WITH
    state <- "limited_live", enabled <- Markets, Tradeable <- Markets,
    defaultCap <- MarketCap, InitialCap <- MarketCap,
    marketCap <- [m \in Markets |-> -1],
    totalCap <- TotalCap, InitialTotalCap <- TotalCap,
    dailyLoss <- 0, sinceReset <- 0, streak <- 0, rollback <- FALSE,
    toldLoss <- 0, toldRun <- 0, GatesEnabled <- TRUE,
    MaxLossPerTrade <- 0, MaxLossPerDay <- 0, MaxConsecutive <- 1, Day <- 1,
    Sizes <- {Size}, Caps <- {}, Pnls <- {}, CapBound <- TotalCap,
    ExposureBound <- TotalCap, LossBound <- 0

Idle == [at |-> "idle", market |-> NoMarket, attempt |-> 0, count |-> 0]

Request == [at : {"counting", "checking", "sent", "verifying", "sleeping"},
            market : Markets, attempt : 0 .. OpenRetries,
            count : 0 .. Cardinality(Markets)]

TypeOK ==
    /\ Lock!TypeOK
    /\ total \in Nat
    /\ byMarket \in [Markets -> Nat]
    /\ open \in Request \union {Idle}
    /\ disabled \subseteq Markets
    /\ clientDisabled \subseteq Markets
    /\ cache \subseteq Markets
    /\ snapshot \subseteq Markets
    /\ chain \in [Markets -> Nat]
    /\ strays \in [Markets -> Nat]
    /\ landed \in [Markets -> Nat]
    /\ blind \in [Markets -> Nat]
    /\ lockedSends \in Nat

Init ==
    /\ Lock!Init
    /\ total = 0
    /\ byMarket = [m \in Markets |-> 0]
    /\ open = Idle
    /\ disabled = {}
    /\ clientDisabled = {}
    /\ cache = {}
    /\ snapshot = {}
    /\ chain = [m \in Markets |-> 0]
    /\ strays = [m \in Markets |-> 0]
    /\ landed = [m \in Markets |-> 0]
    /\ blind = [m \in Markets |-> 0]
    /\ lockedSends = 0

-----------------------------------------------------------------------------
(* What the client says is open *)

OnChain == {m \in Markets : chain[m] > 0}

\* getAllOpenPositions, given a live snapshot, i.e. the subprocess' copy: an
\* empty one is taken for a failed one and answered from the cache, whether or
\* not the caller required live positions.
LivePositions == IF snapshot # {} THEN snapshot ELSE cache

\* The three ways it can answer: a live snapshot; none, so the cache; or it
\* throws, because the client can not be initialised.
View == {"live", "cached", "down"}
CountIn(view) ==
    CASE view = "live" -> Cardinality(LivePositions)
      [] view = "cached" -> Cardinality(cache)
      [] view = "down" -> 0
CacheAfter(view) == IF view = "live" THEN LivePositions ELSE cache

-----------------------------------------------------------------------------
(* The parts of a step *)

\* The request throws, or the failure is not retriable.
GiveUp == open' = Idle

\* Mutant: one attempt too many.
RetryOrGiveUp_OffByOne ==
    open' = IF open.attempt <= OpenRetries
            THEN [open EXCEPT !.at = "sleeping"]
            ELSE Idle

\* The catch of the retry loop, for a retriable error.
RetryOrGiveUp ==
    open' = IF open.attempt < OpenRetries
            THEN [open EXCEPT !.at = "sleeping"]
            ELSE Idle

\* The executor calls recordTrade where the controller has one.  It has none.
RecordTrade == UNCHANGED gateVars

\* The request returns a position: whatever lock there is, is released.
Succeed ==
    /\ open' = Idle
    /\ RecordTrade
    /\ Lock!ForceRelease

\* The history of the lock.
KeepHistory(sends) ==
    lockedSends' = IF active' /\ active THEN lockedSends + sends ELSE 0

\* What the subprocess sends for one command (it tries up to ChildSends times,
\* and a transaction it takes for expired or failed may be out): up to n orders
\* that nobody waits for any more.
Leave(n) ==
    \E k \in 0 .. n :
        /\ strays[open.market] + k <= MaxStrays
        /\ strays' = [strays EXCEPT ![open.market] = @ + k]

\* The order that is sent now adds to a position the client was not shown.
SentBlindly ==
    blind' = IF open.market \in OnChain \ LivePositions
             THEN [blind EXCEPT ![open.market] = @ + 1] ELSE blind

-----------------------------------------------------------------------------
(* A request *)

\* openPosition on an enabled market: the positions are fetched.
Open(m) ==
    /\ open = Idle /\ m \notin disabled
    /\ \A n \in Markets : blind[n] <= MaxBlind
    /\ open' = [at |-> "counting", market |-> m, attempt |-> 0, count |-> 0]
    /\ UNCHANGED <<lockVars, gateVars, disabledVars, cache, chainVars, lockedSends>>

\* Mutant: the answer of the collateral lock is not looked at.
Admit_LockIgnored(view) ==
    LET n == CountIn(view)
    IN  /\ open.at = "counting"
        /\ cache' = CacheAfter(view)
        /\ Lock!CanOpen(n)
        /\ IF Gate!CanOpenPosition(open.market, Size)
           THEN open' = [open EXCEPT !.at = "checking", !.attempt = 1, !.count = n]
           ELSE GiveUp
        /\ KeepHistory(0)
        /\ UNCHANGED <<gateVars, disabledVars, chainVars>>

\* The count is in: the lock and the gate are asked, then the client is called.
Admit(view) ==
    LET n == CountIn(view)
    IN  /\ open.at = "counting"
        /\ cache' = CacheAfter(view)
        /\ Lock!CanOpen(n)
        /\ IF Lock!OpenAllowed(n) /\ Gate!CanOpenPosition(open.market, Size)
           THEN open' = [open EXCEPT !.at = "checking", !.attempt = 1, !.count = n]
           ELSE GiveUp
        /\ KeepHistory(0)
        /\ UNCHANGED <<gateVars, disabledVars, chainVars>>

\* The client can not be initialised; the error may be a retriable one.
ClientDown ==
    /\ open.at = "checking"
    /\ GiveUp \/ RetryOrGiveUp
    /\ UNCHANGED <<lockVars, gateVars, disabledVars, cache, chainVars, lockedSends>>

\* The client refuses a market it disabled.  The text of the error names
\* PerpMarketNotFound, so the executor disables the market as well.
ClientRefuses ==
    /\ open.at = "checking" /\ open.market \in clientDisabled
    /\ disabled' = disabled \union {open.market}
    /\ GiveUp
    /\ UNCHANGED <<lockVars, gateVars, clientDisabled, cache, chainVars, lockedSends>>

\* No live snapshot to check against: a failure that is not retried.
Unchecked ==
    /\ open.at = "checking" /\ open.market \notin clientDisabled
    /\ GiveUp
    /\ UNCHANGED <<lockVars, gateVars, disabledVars, cache, chainVars, lockedSends>>

\* Duplicate prevention: the position is there and is returned as opened.
Duplicate ==
    /\ open.at = "checking" /\ open.market \notin clientDisabled
    /\ open.market \in LivePositions
    /\ cache' = LivePositions
    /\ Succeed
    /\ KeepHistory(0)
    /\ UNCHANGED <<disabledVars, chainVars>>

\* Mutant: a position that exists does not stop the order.
SendOrder_NoDuplicateCheck ==
    /\ open.at = "checking" /\ open.market \notin clientDisabled
    /\ cache' = LivePositions
    /\ open' = [open EXCEPT !.at = "sent"]
    /\ SentBlindly
    /\ UNCHANGED <<lockVars, gateVars, disabledVars, snapshot, chain, strays, landed>>
    /\ KeepHistory(1)

\* No position in the live snapshot: placeMarketOrder is sent.
SendOrder ==
    /\ open.at = "checking" /\ open.market \notin clientDisabled
    /\ open.market \notin LivePositions
    /\ cache' = LivePositions
    /\ open' = [open EXCEPT !.at = "sent"]
    /\ SentBlindly
    /\ UNCHANGED <<lockVars, gateVars, disabledVars, snapshot, chain, strays, landed>>
    /\ KeepHistory(1)

\* The order is confirmed.  The subprocess' copy of the account follows later.
Filled ==
    /\ open.at = "sent"
    /\ chain' = [chain EXCEPT ![open.market] = @ + 1]
    /\ Leave(ChildSends - 1)
    /\ cache' = cache \union {open.market}
    /\ Succeed
    /\ KeepHistory(0)
    /\ UNCHANGED <<disabledVars, snapshot, landed, blind>>

\* Mutant: the debounce of the lock is bypassed.
InsufficientCollateral_NoDebounce ==
    /\ open.at = "sent"
    /\ active' = TRUE
    /\ lockedAtCount' = open.count
    /\ lockAge' = 0 /\ sinceLock' = 0 /\ admits' = 0
    /\ Leave(ChildSends - 1)
    /\ GiveUp
    /\ KeepHistory(0)
    /\ UNCHANGED <<sinceRetry, gateVars, disabledVars, cache, snapshot, chain, landed, blind>>

\* Drift answers InsufficientCollateral: the lock is taken at the count of
\* the beginning of the request.
InsufficientCollateral ==
    /\ open.at = "sent"
    /\ Lock!AcquireLock(open.count)
    /\ Leave(ChildSends - 1)
    /\ GiveUp
    /\ KeepHistory(0)
    /\ UNCHANGED <<gateVars, disabledVars, cache, snapshot, chain, landed, blind>>

\* Drift answers PerpMarketNotFound: client and executor disable the market.
MarketNotFound ==
    /\ open.at = "sent"
    /\ disabled' = disabled \union {open.market}
    /\ clientDisabled' = clientDisabled \union {open.market}
    /\ Leave(ChildSends - 1)
    /\ GiveUp
    /\ UNCHANGED <<lockVars, gateVars, cache, snapshot, chain, landed, blind,
                   lockedSends>>

\* Any other error: Drift or the SDK refuses, no signature comes back, or the
\* subprocess is gone.  It may be a retriable one.  The client does not go to
\* see, although the order may be out.
SendFails ==
    /\ open.at = "sent"
    /\ Leave(ChildSends)
    /\ GiveUp \/ RetryOrGiveUp
    /\ UNCHANGED <<lockVars, gateVars, disabledVars, cache, snapshot, chain, landed, blind,
                   lockedSends>>

\* The command, or the confirmation of its transaction, times out or fails: the
\* order may land from now on, and the client goes to see.
TimedOut ==
    /\ open.at = "sent"
    /\ \/ chain' = [chain EXCEPT ![open.market] = @ + 1] /\ Leave(ChildSends - 1)
       \/ Leave(ChildSends) /\ UNCHANGED chain
    /\ open' = [open EXCEPT !.at = "verifying"]
    /\ UNCHANGED <<lockVars, gateVars, disabledVars, cache, snapshot, landed, blind,
                   lockedSends>>

\* _tryAdoptOnChainPosition found a position on the market, in what the
\* subprocess shows: the forced refresh before it may not take place.
Adopt ==
    /\ open.at = "verifying" /\ open.market \in snapshot
    /\ cache' = cache \union {open.market}
    /\ Succeed
    /\ KeepHistory(0)
    /\ UNCHANGED <<disabledVars, chainVars>>

\* It found none, or no snapshot: "timed out" is a retriable error; a failed
\* confirmation may not be.
NotAdopted ==
    /\ open.at = "verifying"
    /\ GiveUp \/ RetryOrGiveUp
    /\ UNCHANGED <<lockVars, gateVars, disabledVars, cache, chainVars, lockedSends>>

\* Mutant: a retry does not count as an attempt.
Wake_NotCounted ==
    /\ open.at = "sleeping"
    /\ open' = [open EXCEPT !.at = "checking"]
    /\ UNCHANGED <<lockVars, gateVars, disabledVars, cache, chainVars, lockedSends>>

\* retryDelayMs later: the client is called again; lock and gate are not asked.
Wake ==
    /\ open.at = "sleeping"
    /\ open' = [open EXCEPT !.at = "checking", !.attempt = @ + 1]
    /\ UNCHANGED <<lockVars, gateVars, disabledVars, cache, chainVars, lockedSends>>

Progress ==
    \/ \E view \in View : Admit(view)
    \/ ClientDown \/ ClientRefuses \/ Unchecked \/ Duplicate \/ SendOrder
    \/ Filled \/ InsufficientCollateral \/ MarketNotFound \/ SendFails
    \/ TimedOut
    \/ Adopt \/ NotAdopted
    \/ Wake

-----------------------------------------------------------------------------
(* The rest of the world *)

\* A stray order lands, or expires.
Land(m) ==
    /\ strays[m] > 0
    /\ strays' = [strays EXCEPT ![m] = @ - 1]
    /\ chain' = [chain EXCEPT ![m] = @ + 1]
    /\ landed' = [landed EXCEPT ![m] = @ + 1]
    /\ UNCHANGED <<lockVars, gateVars, open, disabledVars, cache, snapshot, blind,
                   lockedSends>>

Expire(m) ==
    /\ strays[m] > 0
    /\ strays' = [strays EXCEPT ![m] = @ - 1]
    /\ UNCHANGED <<lockVars, gateVars, open, disabledVars, cache, snapshot, chain, landed, blind,
                   lockedSends>>

\* The subprocess' copy of the account is refreshed: by its subscription, once
\* in a while by getPositions, or because a caller forces it.
Refresh ==
    /\ snapshot' = OnChain
    /\ UNCHANGED <<lockVars, gateVars, open, disabledVars, cache, chain, strays, landed, blind,
                   lockedSends>>

\* A position closes: by a close the client saw through, or behind its back
\* (liquidation, the venue's own UI, a close that was still pending).
Close(m, seen) ==
    /\ chain[m] > 0
    /\ chain' = [chain EXCEPT ![m] = 0]
    /\ landed' = [landed EXCEPT ![m] = 0]
    /\ blind' = [blind EXCEPT ![m] = 0]
    /\ cache' = IF seen THEN cache \ {m} ELSE cache
    /\ RecordTrade
    /\ UNCHANGED <<lockVars, open, disabledVars, snapshot, strays, lockedSends>>

\* The bot's position sync asks for the positions.
SyncPositions ==
    /\ cache' = LivePositions
    /\ UNCHANGED <<lockVars, gateVars, open, disabledVars, chainVars, lockedSends>>

\* enableMarket and forceReleaseCollateralLock of the executor.
EnableMarket(m) ==
    /\ disabled' = disabled \ {m}
    /\ UNCHANGED <<lockVars, gateVars, open, clientDisabled, cache, chainVars, lockedSends>>

ForceReleaseCollateralLock ==
    /\ Lock!ForceRelease
    /\ KeepHistory(0)
    /\ UNCHANGED <<gateVars, open, disabledVars, cache, chainVars>>

Tick ==
    /\ Lock!Tick
    /\ UNCHANGED <<gateVars, open, disabledVars, cache, chainVars, lockedSends>>

Next ==
    \/ \E m \in Markets : Open(m)
    \/ Progress
    \/ \E m \in Markets : Land(m) \/ Expire(m)
    \/ Refresh
    \/ \E m \in Markets, seen \in BOOLEAN : Close(m, seen)
    \/ SyncPositions
    \/ \E m \in Markets : EnableMarket(m)
    \/ ForceReleaseCollateralLock
    \/ Tick

Spec == Init /\ [][Next]_vars

\* Every await of a request is answered: the subprocess client settles every
\* send (SubprocessClient, SendSettles) and sleeps end.
FairSpec == Spec /\ WF_vars(Progress)

-----------------------------------------------------------------------------
(* Properties *)

\* A position is at most one order of the bot's, the strays that landed in it,
\* and the orders sent while the answered snapshot did not show it: retries,
\* lost answers, stale caches and closes in between double it in no other way
\* (client lines 2018-2054, 2151-2202, 3689-3701; subprocess 1493-1513).
DoubledOnlyUnseen == \A m \in Markets : chain[m] <= 1 + landed[m] + blind[m]

\* Under a held collateral lock, order commands are sent only by requests that
\* were granted a cooldown retry, at most OpenRetries each.  The retry loop itself
\* does not ask the lock again (executor lines 262-274, 323-439).
LockedSendsAreRationed == active => lockedSends <= OpenRetries * admits

\* Whatever it interleaves with, the executor's use of the lock is a behaviour
\* of CollateralLock, so what is proved of the lock holds here.
LockIsUsedAsSpecified == Lock!Spec

\* Every request ends, so that the queue of opens behind it moves.
RequestsSettle == (open # Idle) ~> (open = Idle)

\* Limited live: the exposure stays within the total cap.
ExposureWithinCap ==
    \A m \in Markets : \A n \in Markets \ {m} :
        (chain[m] + chain[n]) * Size <= TotalCap

\* "Don't retry blindly": a request whose order timed out is not tried again.
TimeoutNotResent == [][open.at = "verifying" => open'.at # "sleeping"]_vars

\* While the lock is younger than its limits, a count releases it only if fewer
\* positions are open than when it was taken.
LockReleasedByClose ==
    [][active /\ ~active' /\ open.at = "counting"
        /\ lockedAtCount > 0 /\ lockAge <= MaxLockDuration
            => Cardinality(OnChain) < lockedAtCount]_vars

=============================================================================
