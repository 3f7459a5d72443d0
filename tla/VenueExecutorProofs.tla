------------------------ MODULE VenueExecutorProofs ------------------------
(***************************************************************************)
(* Proofs about VenueExecutor for every set of markets, every number of    *)
(* retries and every setting of the lock.  The executor implements         *)
(* CollateralLock, and what is proved of the lock alone then joins what is *)
(* proved of the retry loop.  The last section says what the caps of the   *)
(* controller bound although nothing reports opens and closes to it.       *)
(***************************************************************************)
EXTENDS VenueExecutor, FiniteSetTheorems, TLAPS

\* How many attempts a request has used, by where it is.
Attempts ==
    /\ open.at \in {"checking", "sent", "verifying"} => open.attempt \in 1 .. OpenRetries
    /\ open.at = "sleeping" => open.attempt \in 1 .. OpenRetries - 1

\* The parameters, as the steps below use them.
LEMMA Parameters ==
    /\ IsFiniteSet(Markets) /\ NoMarket \notin Markets
    /\ OpenRetries \in Nat \ {0}
    /\ MaxLockDuration \in Nat \ {0}
    /\ MinLockInterval \in Nat \ {0}
    /\ CooldownRetry \in Nat \ {0}
    /\ Cardinality(Markets) \in Nat
<1>1. IsFiniteSet(Markets) BY VenueExecutorAssumption DEF VenueExecutorAssumption
<1>2. Cardinality(Markets) \in Nat BY <1>1, FS_CardinalityType
<1>3. QED BY <1>1, <1>2, VenueExecutorAssumption DEF VenueExecutorAssumption

\* A set of markets has at most as many members as there are markets.
LEMMA CountType ==
    ASSUME NEW S, S \subseteq Markets
    PROVE  Cardinality(S) \in 0 .. Cardinality(Markets)
<1>1. IsFiniteSet(Markets) BY Parameters
<1>2. IsFiniteSet(S) /\ Cardinality(S) <= Cardinality(Markets) BY <1>1, FS_Subset
<1>3. Cardinality(S) \in Nat BY <1>2, FS_CardinalityType
<1>4. QED BY <1>2, <1>3, Parameters

\* Whatever the client answers is a set of markets and its count.
LEMMA ViewTypes ==
    ASSUME TypeOK, NEW view \in View
    PROVE  /\ LivePositions \subseteq Markets
           /\ CacheAfter(view) \subseteq Markets
           /\ CountIn(view) \in 0 .. Cardinality(Markets)
<1>1. LivePositions \subseteq Markets BY DEF LivePositions, TypeOK
<1>2. cache \subseteq Markets BY DEF TypeOK
<1>3. CacheAfter(view) \subseteq Markets BY <1>1, <1>2 DEF CacheAfter
<1>4. Cardinality(LivePositions) \in 0 .. Cardinality(Markets) BY <1>1, CountType
<1>5. Cardinality(cache) \in 0 .. Cardinality(Markets) BY <1>2, CountType
<1>6. CountIn(view) \in 0 .. Cardinality(Markets)
    BY <1>4, <1>5, Parameters DEF CountIn, View
<1>7. QED BY <1>1, <1>3, <1>6

\* A request in progress is a record of the expected shape.
LEMMA InProgress ==
    ASSUME TypeOK, open.at # "idle"
    PROVE  open \in Request
BY DEF TypeOK, Idle

-----------------------------------------------------------------------------
(* The executor uses the lock as CollateralLock specifies *)

\* Every step of the executor is a step of the lock, or leaves it alone.
LEMMA LockStep ==
    ASSUME TypeOK, [Next]_vars
    PROVE  [Lock!Next]_(Lock!lockVars)
<1>1. CASE \E view \in View : Admit(view)
    <2>1. PICK view \in View : Admit(view) BY <1>1
    <2>2. CountIn(view) \in Lock!Counts BY ViewTypes DEF Lock!Counts
    <2>3. Lock!CanOpen(CountIn(view)) BY <2>1 DEF Admit
    <2>4. QED BY <2>2, <2>3 DEF Lock!Next
<1>2. CASE Duplicate \/ Filled \/ Adopt
    <2>1. Lock!ForceRelease BY <1>2 DEF Duplicate, Filled, Adopt, Succeed
    <2>2. QED BY <2>1 DEF Lock!Next
<1>3. CASE InsufficientCollateral
    <2>1. open.at = "sent" /\ Lock!AcquireLock(open.count)
        BY <1>3 DEF InsufficientCollateral
    <2>2. open.count \in Lock!Counts BY <2>1, InProgress DEF Request, Lock!Counts
    <2>3. QED BY <2>1, <2>2 DEF Lock!Next
<1>4. CASE ForceReleaseCollateralLock
    BY <1>4 DEF ForceReleaseCollateralLock, Lock!Next
<1>5. CASE Tick
    BY <1>5 DEF Tick, Lock!Next
<1>6. CASE \/ ClientDown \/ ClientRefuses \/ Unchecked \/ SendOrder \/ MarketNotFound
           \/ SendFails \/ TimedOut \/ NotAdopted \/ Wake
    <2>1. UNCHANGED lockVars
        BY <1>6 DEF ClientDown, ClientRefuses, Unchecked, SendOrder, MarketNotFound,
                    SendFails, TimedOut, NotAdopted, Wake
    <2>2. QED BY <2>1 DEF lockVars, Lock!lockVars
<1>7. CASE \/ \E m \in Markets : Open(m) \/ Land(m) \/ Expire(m) \/ EnableMarket(m)
           \/ \E m \in Markets, seen \in BOOLEAN : Close(m, seen)
           \/ Refresh \/ SyncPositions
           \/ UNCHANGED vars
    <2>1. UNCHANGED lockVars
        BY <1>7 DEF Open, Land, Expire, EnableMarket, Close, Refresh, SyncPositions, vars
    <2>2. QED BY <2>1 DEF lockVars, Lock!lockVars
<1>8. QED BY <1>1, <1>2, <1>3, <1>4, <1>5, <1>6, <1>7 DEF Next, Progress

\* The types of the lock's own variables survive its own steps.
LEMMA LockTyped ==
    ASSUME Lock!TypeOK, [Lock!Next]_(Lock!lockVars)
    PROVE  Lock!TypeOK'
<1> DEFINE Numbers == /\ lockAge \in 0 .. MaxLockDuration + 1
                      /\ lockedAtCount \in Lock!Counts
                      /\ sinceLock \in 0 .. MinLockInterval
                      /\ sinceRetry \in 0 .. CooldownRetry
                      /\ admits \in Nat
<1>0. active \in BOOLEAN /\ Numbers BY DEF Lock!TypeOK
<1>1. Lock!ReleaseLock => active' \in BOOLEAN /\ Numbers'
    <2> SUFFICES ASSUME Lock!ReleaseLock PROVE active' \in BOOLEAN /\ Numbers'
        OBVIOUS
    <2>1. active' \in BOOLEAN BY DEF Lock!ReleaseLock
    <2>2. Numbers' BY <1>0, Parameters DEF Lock!ReleaseLock, Lock!Counts
    <2>3. QED BY <2>1, <2>2
<1>2. UNCHANGED Lock!lockVars => active' \in BOOLEAN /\ Numbers'
    <2> SUFFICES ASSUME UNCHANGED Lock!lockVars PROVE active' \in BOOLEAN /\ Numbers'
        OBVIOUS
    <2>1. active' \in BOOLEAN BY <1>0, Zenon DEF Lock!lockVars
    <2>2. Numbers' BY <1>0 DEF Lock!lockVars
    <2>3. QED BY <2>1, <2>2
<1>3. CASE Lock!Tick
    <2>1. active' \in BOOLEAN BY <1>0, <1>3, Zenon DEF Lock!Tick
    <2>2. Numbers' BY <1>0, <1>3, Parameters DEF Lock!Tick
    <2>3. QED BY <2>1, <2>2, Zenon DEF Lock!TypeOK
<1>4. CASE Lock!QueryIsLocked \/ Lock!ForceRelease \/ UNCHANGED Lock!lockVars
    <2>1. Lock!ReleaseLock \/ UNCHANGED Lock!lockVars
        BY <1>4, Zenon DEF Lock!QueryIsLocked, Lock!ForceRelease
    <2>2. QED BY <1>1, <1>2, <2>1, Zenon DEF Lock!TypeOK
<1>5. ASSUME NEW count \in Lock!Counts, Lock!AcquireLock(count) PROVE Lock!TypeOK'
    <2>1. CASE ~active /\ sinceLock >= MinLockInterval
        <3>1. active' \in BOOLEAN BY <1>5, <2>1 DEF Lock!AcquireLock
        <3>2. Numbers' BY <1>0, <1>5, <2>1, Parameters DEF Lock!AcquireLock
        <3>3. QED BY <3>1, <3>2, Zenon DEF Lock!TypeOK
    <2>2. CASE ~(~active /\ sinceLock >= MinLockInterval)
        <3>1. UNCHANGED Lock!lockVars BY <1>5, <2>2 DEF Lock!AcquireLock
        <3>2. QED BY <1>2, <3>1, Zenon DEF Lock!TypeOK
    <2>3. QED BY <2>1, <2>2
<1>6. ASSUME NEW count \in Lock!Counts, Lock!CanOpen(count) PROVE Lock!TypeOK'
    <2>1. CASE active /\ Lock!Releasable(count)
        BY <1>1, <1>6, <2>1, Zenon DEF Lock!CanOpen, Lock!TypeOK
    <2>2. CASE ~(active /\ Lock!Releasable(count)) /\ active /\ Lock!CooldownDue
        <3>1. /\ sinceRetry' = 0
              /\ admits' = admits + 1
              /\ UNCHANGED <<active, lockAge, lockedAtCount, sinceLock>>
            BY <1>6, <2>2 DEF Lock!CanOpen
        <3>2. active' \in BOOLEAN BY <1>0, <3>1, Zenon
        <3>3. Numbers' BY <1>0, <3>1, Parameters
        <3>4. QED BY <3>2, <3>3, Zenon DEF Lock!TypeOK
    <2>3. CASE ~(active /\ Lock!Releasable(count)) /\ ~(active /\ Lock!CooldownDue)
        <3>1. UNCHANGED Lock!lockVars BY <1>6, <2>3 DEF Lock!CanOpen
        <3>2. QED BY <1>2, <3>1, Zenon DEF Lock!TypeOK
    <2>4. QED BY <2>1, <2>2, <2>3
<1>7. QED BY <1>3, <1>4, <1>5, <1>6, Zenon DEF Lock!Next

-----------------------------------------------------------------------------
(* Type correctness *)

\* The request in progress keeps its shape and its count of attempts.
LEMMA OpenStep ==
    ASSUME TypeOK, Attempts, [Next]_vars
    PROVE  open' \in Request \union {Idle} /\ Attempts'
<1> DEFINE Good == open \in Request \union {Idle} /\ Attempts
<1>0. Good BY DEF TypeOK
<1>1. open' = Idle => Good' BY DEF Attempts, Idle
<1>2. open' = open => Good' BY <1>0 DEF Attempts
<1>3. ASSUME open.at \in {"checking", "sent", "verifying"}, RetryOrGiveUp
      PROVE  Good'
    <2>1. CASE open.attempt < OpenRetries
        <3>1. open \in Request BY <1>3, InProgress
        <3>2. open' = [open EXCEPT !.at = "sleeping"]
            BY <1>3, <2>1 DEF RetryOrGiveUp
        <3>4. open' \in Request BY <3>1, <3>2 DEF Request
        <3>5. open'.at = "sleeping" /\ open'.attempt = open.attempt
            BY <3>1, <3>2 DEF Request
        <3>6. open.attempt \in 1 .. OpenRetries BY <1>3 DEF Attempts
        <3>7. Attempts' BY <2>1, <3>5, <3>6, Parameters DEF Attempts
        <3>8. QED BY <3>4, <3>7
    <2>2. CASE ~(open.attempt < OpenRetries)
        BY <1>1, <1>3, <2>2 DEF RetryOrGiveUp
    <2>3. QED BY <2>1, <2>2
<1>4. ASSUME NEW m \in Markets, Open(m) PROVE Good'
    <2>1. open' = [at |-> "counting", market |-> m, attempt |-> 0, count |-> 0]
        BY <1>4 DEF Open
    <2>2. 0 \in 0 .. OpenRetries /\ 0 \in 0 .. Cardinality(Markets) BY Parameters
    <2>3. open' \in Request BY <2>1, <2>2 DEF Request
    <2>4. open'.at = "counting" BY <2>1
    <2>5. QED BY <2>3, <2>4 DEF Attempts
<1>5. ASSUME NEW view \in View, Admit(view) PROVE Good'
    <2>1. open \in Request BY <1>5, InProgress DEF Admit
    <2>2. CountIn(view) \in 0 .. Cardinality(Markets) BY ViewTypes
    <2>3. \/ open' = [open EXCEPT !.at = "checking", !.attempt = 1, !.count = CountIn(view)]
          \/ open' = Idle
        BY <1>5 DEF Admit, GiveUp
    <2>4. CASE open' = [open EXCEPT !.at = "checking", !.attempt = 1, !.count = CountIn(view)]
        <3>0. 1 \in 0 .. OpenRetries BY Parameters
        <3>1. open' \in Request BY <2>1, <2>2, <2>4, <3>0 DEF Request
        <3>2. open'.at = "checking" /\ open'.attempt = 1 BY <2>1, <2>4 DEF Request
        <3>3. QED BY <3>1, <3>2, Parameters DEF Attempts
    <2>5. QED BY <1>1, <2>3, <2>4
<1>6. CASE SendOrder
    <2>1. open.at = "checking" /\ open' = [open EXCEPT !.at = "sent"] BY <1>6 DEF SendOrder
    <2>2. open \in Request BY <2>1, InProgress
    <2>3. open' \in Request BY <2>1, <2>2 DEF Request
    <2>4. open'.at = "sent" /\ open'.attempt = open.attempt BY <2>1, <2>2 DEF Request
    <2>5. QED BY <1>0, <2>1, <2>3, <2>4 DEF Attempts
<1>7. CASE TimedOut
    <2>1. open.at = "sent" /\ open' = [open EXCEPT !.at = "verifying"] BY <1>7 DEF TimedOut
    <2>2. open \in Request BY <2>1, InProgress
    <2>3. open' \in Request BY <2>1, <2>2 DEF Request
    <2>4. open'.at = "verifying" /\ open'.attempt = open.attempt BY <2>1, <2>2 DEF Request
    <2>5. QED BY <1>0, <2>1, <2>3, <2>4 DEF Attempts
<1>8. CASE Wake
    <2>1. open.at = "sleeping" /\ open' = [open EXCEPT !.at = "checking", !.attempt = @ + 1]
        BY <1>8 DEF Wake
    <2>2. open \in Request BY <2>1, InProgress
    <2>3. open.attempt + 1 \in 1 .. OpenRetries BY <2>1, <2>2, Parameters DEF Attempts, Request
    <2>4. open'.at = "checking" /\ open'.attempt = open.attempt + 1 BY <2>1, <2>2 DEF Request
    <2>5. open.attempt + 1 \in 0 .. OpenRetries BY <2>3, Parameters
    <2>6. open' \in Request BY <2>1, <2>2, <2>5 DEF Request
    <2>7. QED BY <2>3, <2>4, <2>6 DEF Attempts
<1>9. CASE ClientDown \/ SendFails \/ NotAdopted
    <2>1. open.at \in {"checking", "sent", "verifying"}
        BY <1>9 DEF ClientDown, SendFails, NotAdopted
    <2>2. GiveUp \/ RetryOrGiveUp
        BY <1>9 DEF ClientDown, SendFails, NotAdopted
    <2>3. QED BY <1>1, <1>3, <2>1, <2>2 DEF GiveUp
<1>10. CASE \/ ClientRefuses \/ Unchecked \/ Duplicate \/ Filled \/ InsufficientCollateral
            \/ MarketNotFound \/ Adopt
    <2>1. open' = Idle
        BY <1>10 DEF ClientRefuses, Unchecked, Duplicate, Filled, InsufficientCollateral,
                     MarketNotFound, Adopt, Succeed, GiveUp
    <2>2. QED BY <1>1, <2>1
<1>11. CASE \/ \E m \in Markets : Land(m) \/ Expire(m) \/ EnableMarket(m)
            \/ \E m \in Markets, seen \in BOOLEAN : Close(m, seen)
            \/ Refresh \/ SyncPositions \/ ForceReleaseCollateralLock \/ Tick
            \/ UNCHANGED vars
    <2>1. open' = open
        BY <1>11 DEF Land, Expire, EnableMarket, Close, Refresh, SyncPositions,
                     ForceReleaseCollateralLock, Tick, vars
    <2>2. QED BY <1>2, <2>1
<1>12. QED
    BY <1>4, <1>5, <1>6, <1>7, <1>8, <1>9, <1>10, <1>11 DEF Next, Progress

\* The sets of markets stay sets of markets.
LEMMA SetsTyped ==
    ASSUME TypeOK, [Next]_vars
    PROVE  /\ disabled' \subseteq Markets /\ clientDisabled' \subseteq Markets
           /\ cache' \subseteq Markets /\ snapshot' \subseteq Markets
<1>0. /\ disabled \subseteq Markets /\ clientDisabled \subseteq Markets
      /\ cache \subseteq Markets /\ snapshot \subseteq Markets
    BY DEF TypeOK
<1>1. LivePositions \subseteq Markets BY <1>0 DEF LivePositions
<1>2. open.at # "idle" => open.market \in Markets BY InProgress DEF Request
<1>3. ASSUME NEW view \in View, Admit(view)
      PROVE  /\ disabled' \subseteq Markets /\ clientDisabled' \subseteq Markets
             /\ cache' \subseteq Markets /\ snapshot' \subseteq Markets
    BY <1>0, <1>3, ViewTypes DEF Admit, disabledVars, chainVars
<1>4. CASE \/ ClientDown \/ ClientRefuses \/ Unchecked \/ Duplicate \/ SendOrder
           \/ Filled \/ InsufficientCollateral \/ MarketNotFound \/ SendFails
           \/ TimedOut \/ Adopt \/ NotAdopted \/ Wake
    BY <1>0, <1>1, <1>2, <1>4
    DEF ClientDown, ClientRefuses, Unchecked, Duplicate, SendOrder, Filled,
        InsufficientCollateral, MarketNotFound, SendFails, TimedOut,
        Adopt, NotAdopted, Wake, disabledVars, chainVars
<1>5. CASE \/ \E m \in Markets : Open(m) \/ Land(m) \/ Expire(m) \/ EnableMarket(m)
           \/ \E m \in Markets, seen \in BOOLEAN : Close(m, seen)
           \/ SyncPositions \/ ForceReleaseCollateralLock \/ Tick \/ UNCHANGED vars
    BY <1>0, <1>1, <1>5
    DEF Open, Land, Expire, EnableMarket, Close, SyncPositions, ForceReleaseCollateralLock,
        Tick, vars, disabledVars, chainVars
<1>6. CASE Refresh BY <1>0, <1>6 DEF Refresh, OnChain, disabledVars
<1>7. QED BY <1>3, <1>4, <1>5, <1>6 DEF Next, Progress

\* Counters per market.
Counters == [Markets -> Nat]

\* One more in a counter, or a reset one, is a counter.
LEMMA CounterStep ==
    ASSUME NEW f \in Counters, NEW m \in Markets
    PROVE  /\ [f EXCEPT ![m] = @ + 1] \in Counters
           /\ [f EXCEPT ![m] = 0] \in Counters
           /\ f[m] > 0 => [f EXCEPT ![m] = @ - 1] \in Counters
BY DEF Counters

\* What a command leaves behind is added to the counter of its market.
LEMMA LeaveTyped ==
    ASSUME TypeOK, open.market \in Markets, NEW n \in Nat, Leave(n)
    PROVE  strays' \in Counters
<1>1. PICK k \in 0 .. n : strays' = [strays EXCEPT ![open.market] = @ + k]
    BY DEF Leave
<1>2. strays \in Counters
    BY DEF TypeOK, Counters
<1> QED
    BY <1>1, <1>2 DEF Counters

\* The exposures, the position on chain and the strays are counters.
LEMMA CountersTyped ==
    ASSUME TypeOK, [Next]_vars
    PROVE  /\ total' \in Nat /\ byMarket' \in Counters
           /\ chain' \in Counters /\ strays' \in Counters
           /\ landed' \in Counters /\ blind' \in Counters
<1> DEFINE Typed == /\ chain \in Counters /\ strays \in Counters
                    /\ landed \in Counters /\ blind \in Counters
<1>0. total \in Nat /\ byMarket \in Counters /\ Typed
    BY DEF TypeOK, Counters
<1>1. UNCHANGED gateVars
    BY DEF Next, Progress, Open, Admit, ClientDown, ClientRefuses, Unchecked, Duplicate,
           SendOrder, Filled, InsufficientCollateral, MarketNotFound, SendFails,
           TimedOut, Adopt, NotAdopted, Wake, Succeed, RecordTrade, Land, Expire, Refresh,
           Close, SyncPositions, EnableMarket, ForceReleaseCollateralLock, Tick, vars
<1>2. total' \in Nat /\ byMarket' \in Counters BY <1>0, <1>1 DEF gateVars
<1>3. open.at # "idle" => open.market \in Markets BY InProgress DEF Request
<1>4. ChildSends \in Nat /\ ChildSends - 1 \in Nat
    BY VenueExecutorAssumption DEF VenueExecutorAssumption
<1>5. CASE SendOrder
    <2>1. UNCHANGED <<chain, strays, landed>> BY <1>5 DEF SendOrder
    <2>2. blind' \in Counters
        BY <1>0, <1>3, <1>5, CounterStep DEF SendOrder, SentBlindly
    <2>3. QED BY <1>0, <1>2, <2>1, <2>2
<1>6. CASE Filled \/ TimedOut \/ InsufficientCollateral \/ MarketNotFound \/ SendFails
    <2>1. open.at = "sent" /\ UNCHANGED <<landed, blind>>
        BY <1>6 DEF Filled, TimedOut, InsufficientCollateral, MarketNotFound, SendFails
    <2>2. open.market \in Markets BY <1>3, <2>1
    <2>3. Leave(ChildSends) \/ Leave(ChildSends - 1)
        BY <1>6 DEF Filled, TimedOut, InsufficientCollateral, MarketNotFound, SendFails
    <2>4. strays' \in Counters BY <1>4, <2>2, <2>3, LeaveTyped
    <2>5. chain' = [chain EXCEPT ![open.market] = @ + 1] \/ chain' = chain
        BY <1>6 DEF Filled, TimedOut, InsufficientCollateral, MarketNotFound, SendFails
    <2>6. chain' \in Counters BY <1>0, <2>2, <2>5, CounterStep
    <2>7. QED BY <1>0, <1>2, <2>1, <2>4, <2>6
<1>7. ASSUME NEW m \in Markets, Land(m) \/ Expire(m) PROVE Typed'
    BY <1>0, <1>7, CounterStep DEF Land, Expire
<1>8. ASSUME NEW m \in Markets, NEW seen \in BOOLEAN, Close(m, seen) PROVE Typed'
    BY <1>0, <1>8, CounterStep DEF Close
<1>9. CASE \/ \E view \in View : Admit(view)
           \/ ClientDown \/ ClientRefuses \/ Unchecked \/ Duplicate
           \/ Adopt \/ NotAdopted \/ Wake
           \/ \E m \in Markets : Open(m) \/ EnableMarket(m)
           \/ Refresh \/ SyncPositions \/ ForceReleaseCollateralLock \/ Tick \/ UNCHANGED vars
    <2>1. UNCHANGED <<chain, strays, landed, blind>>
        BY <1>9 DEF Admit, ClientDown, ClientRefuses, Unchecked, Duplicate, Adopt, NotAdopted,
            Wake, Open, EnableMarket, Refresh, SyncPositions, ForceReleaseCollateralLock, Tick,
            vars, chainVars
    <2>2. QED BY <1>0, <1>2, <2>1
<1>10. Typed' BY <1>5, <1>6, <1>7, <1>8, <1>9 DEF Next, Progress
<1>11. QED BY <1>2, <1>10

\* The history of the lock keeps its type.
LEMMA HistoryTyped ==
    ASSUME TypeOK, [Next]_vars
    PROVE  lockedSends' \in Nat
<1>0. lockedSends \in Nat
    BY DEF TypeOK
<1>1. ASSUME NEW sends \in Nat, KeepHistory(sends) PROVE lockedSends' \in Nat
    BY <1>0, <1>1 DEF KeepHistory
<1>2. CASE \/ \E view \in View : Admit(view)
           \/ Duplicate \/ SendOrder \/ Filled \/ InsufficientCollateral \/ Adopt
           \/ ForceReleaseCollateralLock
    <2>1. KeepHistory(0) \/ KeepHistory(1)
        BY <1>2 DEF Admit, Duplicate, SendOrder, Filled, InsufficientCollateral, Adopt,
                    ForceReleaseCollateralLock
    <2>2. QED BY <1>1, <2>1
<1>3. CASE \/ ClientDown \/ ClientRefuses \/ Unchecked \/ MarketNotFound \/ SendFails
           \/ TimedOut \/ NotAdopted \/ Wake
           \/ \E m \in Markets : Open(m) \/ Land(m) \/ Expire(m) \/ EnableMarket(m)
           \/ \E m \in Markets, seen \in BOOLEAN : Close(m, seen)
           \/ Refresh \/ SyncPositions \/ Tick \/ UNCHANGED vars
    BY <1>0, <1>3 DEF ClientDown, ClientRefuses, Unchecked, MarketNotFound, SendFails,
        TimedOut, NotAdopted, Wake, Open, Land, Expire, EnableMarket, Close, Refresh,
        SyncPositions, Tick, vars
<1>4. QED BY <1>2, <1>3 DEF Next, Progress

\* Every step keeps all types.
LEMMA TypeStep ==
    ASSUME TypeOK, Attempts, [Next]_vars
    PROVE  TypeOK' /\ Attempts'
<1>1. Lock!TypeOK BY DEF TypeOK
<1>2. Lock!TypeOK' BY <1>1, LockStep, LockTyped
<1>3. QED
    BY <1>2, OpenStep, SetsTyped, CountersTyped, HistoryTyped, Zenon DEF TypeOK, Counters

-----------------------------------------------------------------------------
(* No doubled position *)

\* While an order is out, what is on chain is strays and what was sent blindly,
\* the order that is out counted with the latter.
FillInv == open.at = "sent" => chain[open.market] <= landed[open.market] + blind[open.market]

\* Every step keeps both bounds on the position of a market.
LEMMA DoubledStep ==
    ASSUME TypeOK, FillInv, DoubledOnlyUnseen, [Next]_vars
    PROVE  FillInv' /\ DoubledOnlyUnseen'
<1>0. /\ chain \in [Markets -> Nat] /\ landed \in [Markets -> Nat] /\ blind \in [Markets -> Nat]
      /\ open.at # "idle" => open.market \in Markets
    BY InProgress DEF TypeOK, Request
<1>1. CASE UNCHANGED <<chain, landed, blind>> /\ (open'.at = "sent" => open' = open)
    BY <1>1 DEF FillInv, DoubledOnlyUnseen
<1>2. CASE SendOrder
    <2>1. /\ open \in Request /\ open.market \notin LivePositions
          /\ open' = [open EXCEPT !.at = "sent"]
          /\ UNCHANGED <<chain, landed>> /\ SentBlindly
        BY <1>2, InProgress DEF SendOrder
    <2>2. open'.market = open.market /\ open.market \in Markets BY <2>1 DEF Request
    <2>3. CASE open.market \in OnChain
        <3>1. blind' = [blind EXCEPT ![open.market] = @ + 1] BY <2>1, <2>3 DEF SentBlindly
        <3>2. chain[open.market] <= 1 + landed[open.market] + blind[open.market]
            BY <2>2 DEF DoubledOnlyUnseen
        <3>3. FillInv' BY <1>0, <2>1, <2>2, <3>1, <3>2 DEF FillInv
        <3>4. DoubledOnlyUnseen' BY <1>0, <2>1, <2>2, <3>1 DEF DoubledOnlyUnseen
        <3>5. QED BY <3>3, <3>4
    <2>4. CASE open.market \notin OnChain
        <3>1. blind' = blind BY <2>1, <2>4 DEF SentBlindly
        <3>2. chain[open.market] = 0 BY <1>0, <2>2, <2>4 DEF OnChain
        <3>3. FillInv' BY <1>0, <2>1, <2>2, <3>1, <3>2 DEF FillInv
        <3>4. DoubledOnlyUnseen' BY <2>1, <3>1 DEF DoubledOnlyUnseen
        <3>5. QED BY <3>3, <3>4
    <2>5. QED BY <2>3, <2>4
<1>3. CASE Filled \/ TimedOut
    <2>1. open.at = "sent" /\ open'.at # "sent"
        BY <1>3, InProgress DEF Filled, TimedOut, Succeed, Idle, Request
    <2>2. chain[open.market] <= landed[open.market] + blind[open.market] BY <2>1 DEF FillInv
    <2>3. /\ chain' = [chain EXCEPT ![open.market] = @ + 1] \/ chain' = chain
          /\ landed' = landed /\ blind' = blind
        BY <1>3 DEF Filled, TimedOut
    <2>4. DoubledOnlyUnseen' BY <1>0, <2>1, <2>2, <2>3 DEF DoubledOnlyUnseen
    <2>5. QED BY <2>1, <2>4 DEF FillInv
<1>4. ASSUME NEW m \in Markets, Land(m) PROVE FillInv' /\ DoubledOnlyUnseen'
    <2>1. /\ chain' = [chain EXCEPT ![m] = @ + 1]
          /\ landed' = [landed EXCEPT ![m] = @ + 1]
          /\ blind' = blind /\ open' = open
        BY <1>4 DEF Land
    <2>2. FillInv' BY <1>0, <2>1 DEF FillInv
    <2>3. DoubledOnlyUnseen' BY <1>0, <2>1 DEF DoubledOnlyUnseen
    <2>4. QED BY <2>2, <2>3
<1>5. ASSUME NEW m \in Markets, NEW seen \in BOOLEAN, Close(m, seen)
      PROVE  FillInv' /\ DoubledOnlyUnseen'
    <2>1. /\ chain' = [chain EXCEPT ![m] = 0]
          /\ landed' = [landed EXCEPT ![m] = 0]
          /\ blind' = [blind EXCEPT ![m] = 0] /\ open' = open
        BY <1>5 DEF Close
    <2>2. FillInv' BY <1>0, <2>1 DEF FillInv
    <2>3. DoubledOnlyUnseen' BY <1>0, <2>1 DEF DoubledOnlyUnseen
    <2>4. QED BY <2>2, <2>3
<1>6. CASE \/ \E m \in Markets : Open(m) \/ Expire(m) \/ EnableMarket(m)
           \/ \E view \in View : Admit(view)
           \/ ClientRefuses \/ Unchecked \/ Duplicate \/ InsufficientCollateral
           \/ MarketNotFound \/ Adopt \/ Wake
           \/ ClientDown \/ SendFails \/ NotAdopted
           \/ Refresh \/ SyncPositions \/ ForceReleaseCollateralLock \/ Tick \/ UNCHANGED vars
    <2>1. UNCHANGED <<chain, landed, blind>>
        BY <1>6 DEF Open, Expire, EnableMarket, Admit, ClientDown, ClientRefuses, Unchecked,
            Duplicate, InsufficientCollateral, MarketNotFound, SendFails, Adopt, NotAdopted, Wake,
            Refresh, SyncPositions, ForceReleaseCollateralLock, Tick, vars,
            chainVars
    <2>2. CASE UNCHANGED open BY <1>1, <2>1, <2>2
    <2>3. CASE open' = Idle BY <1>1, <2>1, <2>3 DEF Idle
    <2>4. CASE open.at # "idle" /\ RetryOrGiveUp
        <3>1. open'.at # "sent" BY <2>4, InProgress DEF RetryOrGiveUp, Idle, Request
        <3>2. QED BY <1>1, <2>1, <3>1
    <2>5. ASSUME NEW m \in Markets, Open(m) PROVE FillInv' /\ DoubledOnlyUnseen'
        <3>1. open'.at # "sent" BY <2>5 DEF Open
        <3>2. QED BY <1>1, <2>1, <3>1
    <2>6. CASE Wake \/ \E view \in View : Admit(view)
        <3>1. open.at # "idle" BY <2>6 DEF Wake, Admit
        <3>2. open \in Request BY <3>1, InProgress
        <3>3. Wake => open'.at # "sent"
            BY <3>2 DEF Wake, Request
        <3>4. ASSUME NEW view \in View, Admit(view) PROVE open'.at # "sent"
            <4>1. \/ open' = [open EXCEPT !.at = "checking", !.attempt = 1, !.count = CountIn(view)]
                  \/ open' = Idle
                BY <3>4 DEF Admit, GiveUp
            <4>2. open' = Idle => open'.at = "idle" BY DEF Idle
            <4>3. ASSUME NEW r \in Request, NEW n
                  PROVE  [r EXCEPT !.at = "checking", !.attempt = 1, !.count = n].at = "checking"
                BY DEF Request
            <4>4. QED BY <3>2, <4>1, <4>2, <4>3
        <3>5. QED BY <1>1, <2>1, <2>6, <3>3, <3>4
    <2>7. CASE ClientDown \/ SendFails \/ NotAdopted
        <3>1. open.at # "idle" BY <2>7 DEF ClientDown, SendFails, NotAdopted
        <3>2. open' = Idle \/ RetryOrGiveUp
            BY <2>7 DEF ClientDown, SendFails, NotAdopted, GiveUp
        <3>3. QED BY <2>3, <2>4, <3>1, <3>2
    <2>8. CASE \/ ClientRefuses \/ Unchecked \/ Duplicate \/ InsufficientCollateral
               \/ MarketNotFound \/ Adopt
        BY <2>3, <2>8 DEF ClientRefuses, Unchecked, Duplicate, InsufficientCollateral,
                          MarketNotFound, Adopt, GiveUp, Succeed
    <2>9. CASE \/ \E m \in Markets : Expire(m) \/ EnableMarket(m)
               \/ Refresh \/ SyncPositions \/ ForceReleaseCollateralLock \/ Tick \/ UNCHANGED vars
        BY <2>2, <2>9 DEF Expire, EnableMarket, Refresh, SyncPositions, ForceReleaseCollateralLock,
                          Tick, vars
    <2>10. QED BY <1>6, <2>5, <2>6, <2>7, <2>8, <2>9
<1>7. QED BY <1>2, <1>3, <1>4, <1>5, <1>6 DEF Next, Progress

-----------------------------------------------------------------------------
(* Orders under a held lock *)

\* The orders the request in progress may still send.
Left ==
    IF open.at = "checking" THEN OpenRetries - open.attempt + 1
    ELSE IF open.at \in {"sent", "verifying", "sleeping"} THEN OpenRetries - open.attempt
    ELSE 0

\* What was sent and what may still be sent are granted.
SendsInv == active => lockedSends + Left <= OpenRetries * admits

\* What is left is a number, and no attempts are left outside the retry loop.
LEMMA LeftType ==
    ASSUME TypeOK, Attempts
    PROVE  Left \in Nat
<1>1. open \in Request \/ open = Idle BY DEF TypeOK
<1>2. CASE open.at \in {"checking", "sent", "verifying"}
    BY <1>2, Parameters DEF Attempts, Left
<1>3. CASE open.at = "sleeping"
    BY <1>3, Parameters DEF Attempts, Left
<1>4. CASE open.at \notin {"checking", "sent", "verifying", "sleeping"}
    BY <1>4 DEF Left
<1>5. QED BY <1>2, <1>3, <1>4

\* A request that ends, or backs off, may send no more than before.
LEMMA LeftShrinks ==
    ASSUME TypeOK, Attempts,
           \/ open' = open
           \/ open' = Idle
           \/ /\ open.at \in {"checking", "sent", "verifying"}
              /\ RetryOrGiveUp
           \/ TimedOut \/ Wake
           \/ \E m \in Markets : Open(m)
    PROVE  Left' <= Left
<1>0. Left \in Nat BY LeftType
<1>1. CASE open' = open BY <1>0, <1>1 DEF Left
<1>2. CASE open' = Idle BY <1>0, <1>2 DEF Left, Idle
<1>3. CASE /\ open.at \in {"checking", "sent", "verifying"}
           /\ open' # Idle
           /\ RetryOrGiveUp
    <2>1. open \in Request BY <1>3, InProgress
    <2>2. open' = [open EXCEPT !.at = "sleeping"]
        BY <1>3 DEF RetryOrGiveUp
    <2>3. open'.at = "sleeping" /\ open'.attempt = open.attempt BY <2>1, <2>2 DEF Request
    <2>4. open.attempt \in 1 .. OpenRetries BY <1>3 DEF Attempts
    <2>5. Left' = OpenRetries - open.attempt BY <2>3 DEF Left
    <2>6. QED BY <1>3, <2>4, <2>5, Parameters DEF Left
<1>4. CASE TimedOut
    <2>1. open.at = "sent" /\ open' = [open EXCEPT !.at = "verifying"] BY <1>4 DEF TimedOut
    <2>2. open \in Request BY <2>1, InProgress
    <2>3. open'.at = "verifying" /\ open'.attempt = open.attempt BY <2>1, <2>2 DEF Request
    <2>4. Left' = Left BY <2>1, <2>3 DEF Left
    <2>5. QED BY <1>0, <2>4
<1>5. CASE Wake
    <2>1. open.at = "sleeping" /\ open' = [open EXCEPT !.at = "checking", !.attempt = @ + 1]
        BY <1>5 DEF Wake
    <2>2. open \in Request BY <2>1, InProgress
    <2>3. open'.at = "checking" /\ open'.attempt = open.attempt + 1 BY <2>1, <2>2 DEF Request
    <2>4. open.attempt \in 1 .. OpenRetries - 1 BY <2>1 DEF Attempts
    <2>5. QED BY <2>1, <2>3, <2>4, Parameters DEF Left
<1>6. CASE \E m \in Markets : Open(m)
    <2>1. open'.at = "counting" BY <1>6 DEF Open
    <2>2. Left' = 0 BY <2>1 DEF Left
    <2>3. QED BY <1>0, <2>2
<1>7. QED BY <1>1, <1>2, <1>3, <1>4, <1>5, <1>6

\* A grant is worth one more request.
LEMMA OneMoreGrant ==
    ASSUME NEW n \in Nat
    PROVE  /\ OpenRetries * n \in Nat
           /\ OpenRetries * (n + 1) = OpenRetries * n + OpenRetries
BY Parameters, SMT

\* Every step keeps the orders within the grants.
LEMMA SendsStep ==
    ASSUME TypeOK, Attempts, SendsInv, [Next]_vars
    PROVE  SendsInv'
<1>0. lockedSends \in Nat /\ admits \in Nat /\ Left \in Nat
    BY LeftType DEF TypeOK, Lock!TypeOK
<1>1. OpenRetries * admits \in Nat BY <1>0, OneMoreGrant
<1>2. ASSUME active' => active, admits' = admits, lockedSends' = lockedSends,
             Left' \in Nat, Left' <= Left
      PROVE  SendsInv'
    <2> SUFFICES ASSUME active' PROVE (lockedSends + Left <= OpenRetries * admits)'
        BY DEF SendsInv
    <2>1. active BY <1>2
    <2>2. lockedSends + Left <= OpenRetries * admits BY <2>1 DEF SendsInv
    <2>3. QED BY <1>0, <1>1, <1>2, <2>2
<1>3. TypeOK' /\ Attempts' BY TypeStep
<1>4. Left' \in Nat
    <2>1. OpenRetries' = OpenRetries OBVIOUS
    <2>2. open'.at \in {"checking", "sent", "verifying"} => open'.attempt \in 1 .. OpenRetries
        BY <1>3 DEF Attempts
    <2>3. open'.at = "sleeping" => open'.attempt \in 1 .. OpenRetries - 1
        BY <1>3 DEF Attempts
    <2>4. QED BY <2>2, <2>3, Parameters DEF Left
<1>5. CASE ~active' BY <1>5 DEF SendsInv
<1>6. CASE SendOrder
    <2>1. /\ open.at = "checking" /\ open' = [open EXCEPT !.at = "sent"]
          /\ active' = active /\ admits' = admits
          /\ lockedSends' = IF active' /\ active THEN lockedSends + 1 ELSE 0
        BY <1>6 DEF SendOrder, lockVars, KeepHistory
    <2>2. open \in Request BY <2>1, InProgress
    <2>3. open'.at = "sent" /\ open'.attempt = open.attempt BY <2>1, <2>2 DEF Request
    <2>4. open.attempt \in 1 .. OpenRetries BY <2>1 DEF Attempts
    <2>5. Left' + 1 = Left BY <2>1, <2>3, <2>4, Parameters DEF Left
    <2> SUFFICES ASSUME active' PROVE (lockedSends + Left <= OpenRetries * admits)'
        BY DEF SendsInv
    <2>6. active /\ lockedSends' = lockedSends + 1 BY <2>1
    <2>7. lockedSends + Left <= OpenRetries * admits BY <2>6 DEF SendsInv
    <2>8. QED BY <1>0, <1>1, <1>4, <2>1, <2>5, <2>6, <2>7
<1>7. CASE InsufficientCollateral
    <2>1. open' = Idle /\ Lock!AcquireLock(open.count) /\ KeepHistory(0)
        BY <1>7 DEF InsufficientCollateral, GiveUp
    <2>2. Left' = 0 BY <2>1 DEF Left, Idle
    <2>3. CASE active /\ UNCHANGED Lock!lockVars
        <3>1. active' = active /\ admits' = admits BY <2>3 DEF Lock!lockVars
        <3>2. lockedSends' = IF active THEN lockedSends + 0 ELSE 0
            BY <2>1, <3>1, Zenon DEF KeepHistory
        <3>3. lockedSends' = lockedSends BY <1>0, <2>3, <3>2
        <3>4. QED BY <1>0, <1>2, <1>4, <2>2, <3>1, <3>3
    <2>4. CASE ~active /\ active'
        <3>1. lockedSends' = 0 BY <2>1, <2>4 DEF KeepHistory
        <3>2. admits' = 0 BY <2>1, <2>4 DEF Lock!AcquireLock, Lock!lockVars
        <3>3. QED BY <2>2, <3>1, <3>2, Parameters DEF SendsInv
    <2>5. QED BY <1>5, <2>1, <2>3, <2>4 DEF Lock!AcquireLock
<1>8. ASSUME NEW view \in View, Admit(view), active'
      PROVE  SendsInv'
    <2> DEFINE n == CountIn(view)
    <2>1. /\ open.at = "counting" /\ Lock!CanOpen(n) /\ KeepHistory(0)
          /\ \/ /\ Lock!OpenAllowed(n)
                /\ open' = [open EXCEPT !.at = "checking", !.attempt = 1, !.count = n]
             \/ open' = Idle
        BY <1>8 DEF Admit, GiveUp
    <2>2. Left = 0 BY <2>1 DEF Left
    <2>3. active /\ ~Lock!Releasable(n)
        BY <1>8, <2>1 DEF Lock!CanOpen, Lock!ReleaseLock, Lock!lockVars
    <2>4. lockedSends' = lockedSends BY <1>0, <1>8, <2>1, <2>3 DEF KeepHistory
    <2>5. lockedSends <= OpenRetries * admits BY <1>0, <1>1, <2>2, <2>3 DEF SendsInv
    <2>6. CASE Lock!CooldownDue
        <3>1. admits' = admits + 1 BY <2>1, <2>3, <2>6 DEF Lock!CanOpen
        <3>2. Left' <= OpenRetries
            <4>1. CASE open' = Idle BY <4>1, Parameters DEF Left, Idle
            <4>2. CASE open' = [open EXCEPT !.at = "checking", !.attempt = 1, !.count = n]
                <5>1. open \in Request BY <2>1, InProgress
                <5>2. open'.at = "checking" /\ open'.attempt = 1 BY <4>2, <5>1 DEF Request
                <5>3. QED BY <5>2, Parameters DEF Left
            <4>3. QED BY <2>1, <4>1, <4>2
        <3>3. OpenRetries * admits' = OpenRetries * admits + OpenRetries
            BY <1>0, <3>1, OneMoreGrant
        <3>4. QED BY <1>0, <1>1, <1>4, <2>4, <2>5, <3>2, <3>3, Parameters DEF SendsInv
    <2>7. CASE ~Lock!CooldownDue
        <3>1. admits' = admits BY <2>1, <2>3, <2>7 DEF Lock!CanOpen, Lock!lockVars
        <3>2. open' = Idle BY <2>1, <2>3, <2>7 DEF Lock!OpenAllowed
        <3>3. Left' = 0 BY <3>2 DEF Left, Idle
        <3>4. QED BY <1>0, <1>1, <2>4, <2>5, <3>1, <3>3 DEF SendsInv
    <2>8. QED BY <2>6, <2>7
<1>9. CASE Duplicate \/ Filled \/ Adopt \/ ForceReleaseCollateralLock
    <2>1. Lock!ForceRelease
        BY <1>9 DEF Duplicate, Filled, Adopt, Succeed, ForceReleaseCollateralLock
    <2>2. ~active' \/ (~active /\ active' = active)
        BY <2>1 DEF Lock!ForceRelease, Lock!ReleaseLock, Lock!lockVars
    <2>3. QED BY <1>5, <2>2
<1>10. CASE \/ ClientDown \/ ClientRefuses \/ Unchecked \/ MarketNotFound \/ SendFails
            \/ TimedOut \/ NotAdopted \/ Wake
            \/ \E m \in Markets : Open(m) \/ Land(m) \/ Expire(m) \/ EnableMarket(m)
            \/ \E m \in Markets, seen \in BOOLEAN : Close(m, seen)
            \/ Refresh \/ SyncPositions \/ Tick \/ UNCHANGED vars
    <2>1. active' = active /\ admits' = admits /\ lockedSends' = lockedSends
        BY <1>10, Zenon DEF ClientDown, ClientRefuses, Unchecked, MarketNotFound, SendFails,
            TimedOut, NotAdopted, Wake, Open, Land, Expire, EnableMarket,
            Close, Refresh, SyncPositions, Tick, Lock!Tick, vars, lockVars
    <2>2. CASE ClientDown \/ SendFails \/ NotAdopted
        <3>1. open.at \in {"checking", "sent", "verifying"}
            BY <2>2 DEF ClientDown, SendFails, NotAdopted
        <3>2. open' = Idle \/ RetryOrGiveUp
            BY <2>2 DEF ClientDown, SendFails, NotAdopted, GiveUp
        <3>3. Left' <= Left BY <3>1, <3>2, LeftShrinks
        <3>4. QED BY <1>2, <1>4, <2>1, <3>3
    <2>3. CASE \/ ClientRefuses \/ Unchecked \/ MarketNotFound <3>1. open' = Idle
            BY <2>3 DEF ClientRefuses, Unchecked, MarketNotFound, GiveUp
        <3>2. Left' <= Left BY <3>1, LeftShrinks
        <3>3. QED BY <1>2, <1>4, <2>1, <3>2
    <2>4. CASE TimedOut \/ Wake \/ \E m \in Markets : Open(m)
        <3>1. Left' <= Left BY <2>4, LeftShrinks
        <3>2. QED BY <1>2, <1>4, <2>1, <3>1
    <2>5. CASE \/ \E m \in Markets : Land(m) \/ Expire(m) \/ EnableMarket(m)
               \/ \E m \in Markets, seen \in BOOLEAN : Close(m, seen)
               \/ Refresh \/ SyncPositions \/ Tick \/ UNCHANGED vars
        <3>1. open' = open
            BY <2>5 DEF Land, Expire, EnableMarket, Close, Refresh, SyncPositions, Tick, vars
        <3>2. Left' <= Left BY <3>1, LeftShrinks
        <3>3. QED BY <1>2, <1>4, <2>1, <3>2
    <2>6. QED BY <1>10, <2>2, <2>3, <2>4, <2>5
<1>11. QED BY <1>5, <1>6, <1>7, <1>8, <1>9, <1>10 DEF Next, Progress

-----------------------------------------------------------------------------
(* The theorems *)

IInv == /\ TypeOK
        /\ Attempts
        /\ FillInv
        /\ DoubledOnlyUnseen
        /\ SendsInv

\* The invariant holds when the bot starts.
LEMMA InitInvariant ==
    ASSUME Init
    PROVE  IInv
<1>1. Lock!TypeOK
    <2>1. active \in BOOLEAN BY DEF Init, Lock!Init
    <2>2. /\ lockAge \in 0 .. MaxLockDuration + 1
          /\ lockedAtCount \in Lock!Counts
          /\ sinceLock \in 0 .. MinLockInterval
          /\ sinceRetry \in 0 .. CooldownRetry
          /\ admits \in Nat
        BY Parameters DEF Init, Lock!Init, Lock!Counts
    <2>3. QED BY <2>1, <2>2, Zenon DEF Lock!TypeOK
<1>2. TypeOK BY <1>1 DEF Init, TypeOK
<1>3. open.at = "idle" /\ ~active BY DEF Init, Lock!Init, Idle
<1>4. DoubledOnlyUnseen BY DEF Init, DoubledOnlyUnseen
<1>5. QED
    BY <1>2, <1>3, <1>4 DEF IInv, Attempts, FillInv, SendsInv

\* Every reachable state satisfies the invariant.
LEMMA Invariant == Spec => []IInv
<1>1. Init => IInv BY InitInvariant
<1>2. IInv /\ [Next]_vars => IInv'
    BY TypeStep, DoubledStep, SendsStep DEF IInv
<1>3. QED BY <1>1, <1>2, PTL DEF Spec

\* Every variable of the executor, the client, the lock and the chain keeps
\* its type.
THEOREM TypeCorrect == Spec => []TypeOK
<1>1. IInv => TypeOK BY DEF IInv
<1>2. QED BY <1>1, Invariant, PTL

\* A position is at most one order of the bot's, the strays that landed in it and
\* the orders sent while the answered snapshot did not show it.
THEOREM DoubledUnseenOnly == Spec => []DoubledOnlyUnseen
<1>1. IInv => DoubledOnlyUnseen BY DEF IInv
<1>2. QED BY <1>1, Invariant, PTL

\* Under a held lock at most OpenRetries orders go out for each retry granted.
THEOREM SendsRationed == Spec => []LockedSendsAreRationed
<1>1. IInv => LockedSendsAreRationed
    <2> SUFFICES ASSUME IInv, active PROVE lockedSends <= OpenRetries * admits
        BY DEF LockedSendsAreRationed
    <2>1. /\ lockedSends \in Nat /\ admits \in Nat /\ Left \in Nat
          /\ lockedSends + Left <= OpenRetries * admits
        BY LeftType DEF IInv, SendsInv, TypeOK, Lock!TypeOK
    <2>2. OpenRetries * admits \in Nat BY <2>1, OneMoreGrant
    <2>3. QED BY <2>1, <2>2
<1>2. QED BY <1>1, Invariant, PTL

\* The executor's steps, seen through the variables of the lock, are a
\* behaviour of CollateralLock.
THEOREM ImplementsLock == Spec => LockIsUsedAsSpecified
<1>1. Init => Lock!Init BY DEF Init
<1>2. TypeOK /\ [Next]_vars => [Lock!Next]_(Lock!lockVars) BY LockStep
<1>3. QED BY <1>1, <1>2, TypeCorrect, PTL DEF Spec, LockIsUsedAsSpecified, Lock!Spec

-----------------------------------------------------------------------------
(***************************************************************************)
(* What the caps of limited live do bound.  The sum of the positions is    *)
(* not within the cap, because nobody reports an open or a close to the    *)
(* controller; what holds is a bound for each order.                       *)
(***************************************************************************)
Fits == Size <= MarketCap /\ Size <= TotalCap

Admitted == {"checking", "sent", "verifying", "sleeping"}

\* The gate sees no exposure, and only orders of a size within both caps were
\* ever let through.
CapInv ==
    /\ total = 0 /\ byMarket = [m \in Markets |-> 0]
    /\ \/ Fits
       \/ open.at \notin Admitted /\ \A m \in Markets : chain[m] = 0 /\ strays[m] = 0

\* The gate compares the size of the order alone with the caps.
LEMMA GateFits ==
    ASSUME CapInv, TypeOK, open.at # "idle", Gate!CanOpenPosition(open.market, Size)
    PROVE  Fits
<1>1. open.market \in Markets
    BY InProgress DEF Request
<1>2. byMarket[open.market] = 0 /\ total = 0
    BY <1>1 DEF CapInv
<1>3. Gate!CapOf(open.market) = MarketCap
    BY <1>1 DEF Gate!CapOf, Gate!Unset
<1>4. byMarket[open.market] + Size <= MarketCap /\ total + Size <= TotalCap
    BY <1>3 DEF Gate!CanOpenPosition
<1>5. Size \in Nat
    BY VenueExecutorAssumption DEF VenueExecutorAssumption
<1> QED
    BY <1>2, <1>4, <1>5 DEF Fits

LEMMA CapStep == TypeOK /\ CapInv /\ [Next]_vars => CapInv'
<1> SUFFICES ASSUME TypeOK, CapInv, [Next]_vars PROVE CapInv'
    OBVIOUS
<1>1. UNCHANGED gateVars
    BY DEF Next, Progress, Open, Admit, ClientDown, ClientRefuses, Unchecked, Duplicate,
           SendOrder, Filled, InsufficientCollateral, MarketNotFound, SendFails, TimedOut,
           Adopt, NotAdopted, Wake, Land, Expire, Refresh, Close, SyncPositions,
           EnableMarket, ForceReleaseCollateralLock, Tick, Succeed, RecordTrade, vars
<1>2. total' = 0 /\ byMarket' = [m \in Markets |-> 0]
    BY <1>1 DEF gateVars, CapInv
<1>3. CASE Fits
    BY <1>2, <1>3 DEF CapInv, Fits
<1>4. CASE ~Fits
    <2>1. /\ open.at \notin Admitted
          /\ \A m \in Markets : chain[m] = 0 /\ strays[m] = 0
        BY <1>4 DEF CapInv
    <2>2. ~ \E m \in Markets : chain[m] > 0 \/ strays[m] > 0
        BY <2>1
    <2> SUFFICES open'.at \notin Admitted /\ UNCHANGED <<chain, strays>>
        BY <1>2, <2>1 DEF CapInv
    <2>3. ASSUME NEW view \in View, Admit(view)
          PROVE  open'.at \notin Admitted /\ UNCHANGED <<chain, strays>>
        <3>1. ~Gate!CanOpenPosition(open.market, Size)
            BY <1>4, <2>3, GateFits DEF Admit
        <3>2. open' = Idle
            BY <2>3, <3>1 DEF Admit, GiveUp
        <3> QED
            BY <2>3, <3>2 DEF Admit, Idle, Admitted, chainVars
    <2>4. CASE \E m \in Markets : Open(m)
        BY <2>4 DEF Open, Admitted, chainVars
    <2>5. ~ (\/ ClientDown \/ ClientRefuses \/ Unchecked \/ Duplicate \/ SendOrder
             \/ Filled \/ InsufficientCollateral \/ MarketNotFound \/ SendFails
             \/ TimedOut \/ Adopt \/ NotAdopted \/ Wake)
        BY <2>1
        DEF Admitted, ClientDown, ClientRefuses, Unchecked, Duplicate, SendOrder, Filled,
            InsufficientCollateral, MarketNotFound, SendFails, TimedOut,
            Adopt, NotAdopted, Wake
    <2>6. /\ ~ \E m \in Markets : Land(m) \/ Expire(m)
          /\ ~ \E m \in Markets, seen \in BOOLEAN : Close(m, seen)
        BY <2>2 DEF Land, Expire, Close
    <2>7. CASE \/ Refresh \/ SyncPositions \/ ForceReleaseCollateralLock \/ Tick
               \/ \E m \in Markets : EnableMarket(m)
               \/ UNCHANGED vars
        BY <2>1, <2>7
        DEF Refresh, SyncPositions, ForceReleaseCollateralLock, Tick, EnableMarket, vars, chainVars
    <2> QED
        BY <2>3, <2>4, <2>5, <2>6, <2>7 DEF Next, Progress
<1> QED
    BY <1>3, <1>4

LEMMA CapHolds == Spec => []CapInv
<1>1. Init => CapInv
    BY DEF Init, CapInv, Idle, Admitted
<1> QED
    BY <1>1, CapStep, TypeCorrect, PTL DEF Spec

\* Orders that fit one by one.
LEMMA FitTimes ==
    ASSUME NEW n \in Nat, NEW k \in Nat, NEW s \in Nat, NEW c \in Nat, n <= k, s <= c
    PROVE  n * s <= k * c
<1>1. n * s <= k * s
    OBVIOUS
<1>2. k * s <= k * c
    OBVIOUS
<1>3. n * s \in Nat /\ k * s \in Nat /\ k * c \in Nat
    OBVIOUS
<1> QED
    BY <1>1, <1>2, <1>3

LEMMA NothingFits ==
    ASSUME NEW s \in Nat, NEW k \in Nat, NEW c \in Nat PROVE 0 * s <= k * c
<1>1. k * c \in Nat
    OBVIOUS
<1> QED
    BY <1>1

\* The strays in a position and the orders sent to it unseen.
Extra(m) == landed[m] + blind[m]

\* A market holds at most its cap, once for the order of the bot and once for
\* each stray and each order sent unseen; two markets at most twice the total
\* cap, and theirs.
ExposureFollowsOrders ==
    \A m \in Markets :
        /\ chain[m] * Size <= (1 + Extra(m)) * MarketCap
        /\ \A n \in Markets \ {m} :
              (chain[m] + chain[n]) * Size <= (2 + Extra(m) + Extra(n)) * TotalCap

\* What is left of ExposureWithinCap (executor 347-358, controller 248-307):
\* the total cap holds of every order and of no sum, so that each market adds
\* up to one cap of its own.
THEOREM CapsBoundSingleOrders == Spec => []ExposureFollowsOrders
<1>1. TypeOK /\ CapInv /\ DoubledOnlyUnseen => ExposureFollowsOrders
    <2> SUFFICES ASSUME TypeOK, CapInv, DoubledOnlyUnseen, NEW m \in Markets
                 PROVE  /\ chain[m] * Size <= (1 + Extra(m)) * MarketCap
                        /\ \A n \in Markets \ {m} :
                              (chain[m] + chain[n]) * Size <= (2 + Extra(m) + Extra(n)) * TotalCap
        BY DEF ExposureFollowsOrders
    <2>1. Size \in Nat /\ MarketCap \in Nat /\ TotalCap \in Nat
        BY VenueExecutorAssumption DEF VenueExecutorAssumption
    <2>2. ASSUME NEW n \in Markets
          PROVE  chain[n] \in Nat /\ Extra(n) \in Nat /\ chain[n] <= 1 + Extra(n)
        BY DEF TypeOK, DoubledOnlyUnseen, Extra
    <2>3. CASE Fits
        <3>1. chain[m] * Size <= (1 + Extra(m)) * MarketCap
            BY <2>1, <2>2, <2>3, FitTimes DEF Fits
        <3>2. ASSUME NEW n \in Markets \ {m}
              PROVE  (chain[m] + chain[n]) * Size <= (2 + Extra(m) + Extra(n)) * TotalCap
            <4> DEFINE orders == chain[m] + chain[n]
                       bound == 2 + Extra(m) + Extra(n)
            <4>1. orders \in Nat /\ bound \in Nat /\ orders <= bound
                BY <2>2
            <4> HIDE DEF orders, bound
            <4>2. orders * Size <= bound * TotalCap
                BY <2>1, <2>3, <4>1, FitTimes DEF Fits
            <4> QED
                BY <4>2 DEF orders, bound
        <3> QED
            BY <3>1, <3>2
    <2>4. CASE ~Fits
        <3>1. ASSUME NEW n \in Markets PROVE chain[n] = 0
            BY <2>4 DEF CapInv
        <3>2. chain[m] * Size <= (1 + Extra(m)) * MarketCap
            <4> DEFINE bound == 1 + Extra(m)
            <4>1. bound \in Nat
                BY <2>2
            <4> HIDE DEF bound
            <4>2. 0 * Size <= bound * MarketCap
                BY <2>1, <4>1, NothingFits
            <4> QED
                BY <3>1, <4>2 DEF bound
        <3>3. ASSUME NEW n \in Markets \ {m}
              PROVE  (chain[m] + chain[n]) * Size <= (2 + Extra(m) + Extra(n)) * TotalCap
            <4> DEFINE bound == 2 + Extra(m) + Extra(n)
            <4>1. bound \in Nat
                BY <2>2
            <4>2. chain[m] + chain[n] = 0
                BY <3>1
            <4> HIDE DEF bound
            <4>3. 0 * Size <= bound * TotalCap
                BY <2>1, <4>1, NothingFits
            <4> QED
                BY <4>2, <4>3 DEF bound
        <3> QED
            BY <3>2, <3>3
    <2> QED
        BY <2>3, <2>4
<1> QED
    BY <1>1, TypeCorrect, CapHolds, DoubledUnseenOnly, PTL

-----------------------------------------------------------------------------
(***************************************************************************)
(* Composition: the executor implements the lock, so what is proved of the *)
(* lock alone holds of the lock in the executor.                           *)
(***************************************************************************)
LockProofs == INSTANCE CollateralLockProofs WITH MaxPositions <- Cardinality(Markets)

\* The lock as the executor and as the proofs instantiate it is the same.
LEMMA SameLock ==
    /\ Lock!Init <=> LockProofs!Init
    /\ Lock!Next <=> LockProofs!Next
    /\ Lock!lockVars = LockProofs!lockVars
<1>1. Lock!lockVars = LockProofs!lockVars
    BY DEF Lock!lockVars, LockProofs!lockVars
<1>2. Lock!Init <=> LockProofs!Init
    BY DEF Lock!Init, LockProofs!Init
<1>3. /\ Lock!Tick <=> LockProofs!Tick
      /\ Lock!QueryIsLocked <=> LockProofs!QueryIsLocked
      /\ Lock!ForceRelease <=> LockProofs!ForceRelease
    BY DEF Lock!Tick, LockProofs!Tick, Lock!QueryIsLocked, LockProofs!QueryIsLocked,
           Lock!ForceRelease, LockProofs!ForceRelease, Lock!ReleaseLock, LockProofs!ReleaseLock,
           Lock!Expired, LockProofs!Expired, Lock!lockVars, LockProofs!lockVars
<1>4. Lock!Counts = LockProofs!Counts
    BY DEF Lock!Counts, LockProofs!Counts
<1>5. ASSUME NEW n PROVE Lock!AcquireLock(n) <=> LockProofs!AcquireLock(n)
    BY DEF Lock!AcquireLock, LockProofs!AcquireLock, Lock!lockVars, LockProofs!lockVars
<1>6. ASSUME NEW n PROVE Lock!CanOpen(n) <=> LockProofs!CanOpen(n)
    <2>1. /\ Lock!Releasable(n) <=> LockProofs!Releasable(n)
          /\ Lock!CooldownDue <=> LockProofs!CooldownDue
          /\ Lock!ReleaseLock <=> LockProofs!ReleaseLock
        BY DEF Lock!Releasable, LockProofs!Releasable, Lock!PositionClosed, LockProofs!PositionClosed,
               Lock!ZeroCooldownElapsed, LockProofs!ZeroCooldownElapsed, Lock!Expired, LockProofs!Expired,
               Lock!CooldownDue, LockProofs!CooldownDue, Lock!ReleaseLock, LockProofs!ReleaseLock
    <2> QED
        BY <2>1 DEF Lock!CanOpen, LockProofs!CanOpen, Lock!lockVars, LockProofs!lockVars
<1> QED
    BY <1>1, <1>2, <1>3, <1>4, <1>5, <1>6 DEF Lock!Next, LockProofs!Next

\* What is proved of every user of the lock is so of the executor.
LEMMA LockTheorems == Spec => []LockProofs!RetriesAreRationed
<1>1. LockProofs!LockOptionsAssumption
    BY Parameters DEF LockProofs!LockOptionsAssumption
<1>2. LockProofs!Spec => []LockProofs!RetriesAreRationed
    BY <1>1, LockProofs!RetriesRationed
<1>3. [Lock!Next]_(Lock!lockVars) => [LockProofs!Next]_(LockProofs!lockVars)
    BY SameLock DEF Lock!lockVars, LockProofs!lockVars
<1>4. Lock!Spec => LockProofs!Spec
    BY SameLock, <1>3, PTL DEF Lock!Spec, LockProofs!Spec
<1> QED
    BY <1>2, <1>4, ImplementsLock, PTL DEF LockIsUsedAsSpecified

\* Orders that fit in the grants, grants that fit in the time.
LEMMA OrdersInTime ==
    ASSUME NEW n \in Nat, NEW a \in Nat, NEW r \in Nat, NEW c \in Nat, NEW t \in Nat,
           n <= r * a, a * c <= t
    PROVE  n * c <= r * t
<1>1. n * c <= (r * a) * c
    OBVIOUS
<1>2. (r * a) * c = r * (a * c)
    OBVIOUS
<1>3. r * (a * c) <= r * t
    OBVIOUS
<1> QED
    BY <1>1, <1>2, <1>3

\* The lock and the retry loop together (lock 8-9, 194-195; executor 262-274,
\* 323-439): under a held lock no more order commands go out than OpenRetries
\* for each full cooldown of the time it has been held.
OrdersFollowTime ==
    active => lockedSends * CooldownRetry <= OpenRetries * lockAge

\* Neither module says this alone: CollateralLock knows no orders, and the
\* bound on orders of VenueExecutor counts grants, not time.
THEOREM OrdersAreRationedByTime == Spec => []OrdersFollowTime
<1>1. TypeOK /\ LockedSendsAreRationed /\ LockProofs!RetriesAreRationed => OrdersFollowTime
    <2> SUFFICES ASSUME TypeOK, LockedSendsAreRationed, LockProofs!RetriesAreRationed, active
                 PROVE  lockedSends * CooldownRetry <= OpenRetries * lockAge
        BY DEF OrdersFollowTime
    <2>1. /\ lockedSends \in Nat /\ admits \in Nat /\ lockAge \in Nat
          /\ OpenRetries \in Nat /\ CooldownRetry \in Nat
        BY Parameters DEF TypeOK, Lock!TypeOK
    <2>2. /\ lockedSends <= OpenRetries * admits
          /\ admits * CooldownRetry <= lockAge
        BY DEF LockedSendsAreRationed, LockProofs!RetriesAreRationed
    <2> QED
        BY <2>1, <2>2, OrdersInTime
<1> QED
    BY <1>1, TypeCorrect, SendsRationed, LockTheorems, PTL

=============================================================================
