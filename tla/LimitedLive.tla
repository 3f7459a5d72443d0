---------------------------- MODULE LimitedLive ----------------------------
(***************************************************************************)
(* utils/limited-live.js: the controller that lets Drift trade live, one   *)
(* market and one cap at a time, and takes it back ("rollback") when the   *)
(* losses it is told about pass a gate.                                    *)
(*                                                                         *)
(* Amounts are small integers.  A cap is scaled by a whole factor, where   *)
(* the code defaults to 1.5.                                               *)
(***************************************************************************)
EXTENDS Integers, FiniteSetsExt

CONSTANTS
    Markets,
    Tradeable,          \* the markets driftLookup knows and marks tradeable
    MaxLossPerTrade,
    MaxLossPerDay,
    MaxConsecutive,     \* maxConsecutiveLosses
    Day,                \* 24 h in ticks
    GatesEnabled,       \* rollbackGates.enabled
    InitialCap,         \* positionCaps.default
    InitialTotalCap,    \* totalExposureCap
    Sizes,              \* the position sizes that occur
    Caps,               \* the caps an operator sets
    Pnls,               \* the profits and losses that occur
    CapBound,           \* bound: no cap grows past it
    ExposureBound,      \* bound: no recorded exposure grows past it
    LossBound           \* bound on the losses, and on the run of losses, told

ASSUME LimitedLiveAssumption ==
    /\ IsFiniteSet(Markets) /\ Tradeable \subseteq Markets
    /\ {MaxLossPerTrade, MaxLossPerDay, Day, LossBound, CapBound, ExposureBound} \subseteq Nat
    /\ {InitialCap, InitialTotalCap} \subseteq 0 .. CapBound
    /\ MaxConsecutive \in Nat \ {0}
    /\ GatesEnabled \in BOOLEAN
    /\ Sizes \subseteq Nat
    /\ Caps \subseteq 0 .. CapBound
    /\ Pnls \subseteq Int

VARIABLES
    state,          \* a LiveState
    enabled,        \* enabledMarkets
    defaultCap,     \* positionCaps.default
    marketCap,      \* positionCaps.perMarket, Unset where it has no entry
    totalCap,       \* totalExposureCap
    total,          \* currentExposure.total
    byMarket,       \* currentExposure.byMarket
    dailyLoss,      \* rollbackMetrics.dailyLoss
    sinceReset,     \* now - dailyLossResetAt, up to Day + 1
    streak,         \* rollbackMetrics.consecutiveLosses
    rollback,       \* rollbackMetrics.rollbackTriggered
    toldLoss,       \* history: losses told since the gates were last reset
    toldRun         \* history: losing trades told in a row since then

capVars == <<enabled, defaultCap, marketCap, totalCap>>
exposureVars == <<total, byMarket>>
gateVars == <<dailyLoss, sinceReset, streak, rollback, toldLoss, toldRun>>
liveVars == <<state, capVars, exposureVars, gateVars>>

Unset == -1
LiveStates == {"disabled", "shadow_only", "limited_live", "full_live"}
Live == state \in {"limited_live", "full_live"}

TypeOK ==
    /\ state \in LiveStates
    /\ enabled \subseteq Markets
    /\ defaultCap \in 0 .. CapBound
    /\ marketCap \in [Markets -> {Unset} \union 0 .. CapBound]
    /\ totalCap \in 0 .. CapBound
    /\ total \in Nat
    /\ byMarket \in [Markets -> Nat]
    /\ dailyLoss \in Nat
    /\ sinceReset \in 0 .. Day + 1
    /\ streak \in Nat
    /\ rollback \in BOOLEAN
    /\ toldLoss \in Nat
    /\ toldRun \in Nat

Init ==
    /\ state \in LiveStates
    /\ enabled \in SUBSET Markets
    /\ defaultCap = InitialCap
    /\ marketCap = [m \in Markets |-> Unset]
    /\ totalCap = InitialTotalCap
    /\ total = 0
    /\ byMarket = [m \in Markets |-> 0]
    /\ dailyLoss = 0
    /\ sinceReset = 0
    /\ streak = 0
    /\ rollback = FALSE
    /\ toldLoss = 0
    /\ toldRun = 0

-----------------------------------------------------------------------------
(* The queries the executor asks *)

CapOf(m) == IF marketCap[m] = Unset THEN defaultCap ELSE marketCap[m]

CanTradeLive(m) ==
    /\ Live
    /\ ~rollback
    /\ state = "limited_live" => m \in enabled

\* The total cap is skipped in full_live.
CanOpenPosition(m, size) ==
    /\ CanTradeLive(m)
    /\ byMarket[m] + size <= CapOf(m)
    /\ state = "full_live" \/ total + size <= totalCap

-----------------------------------------------------------------------------
(* Exposure and the rollback gates *)

RecordPositionOpened(m, size) ==
    /\ total + size <= ExposureBound /\ byMarket[m] + size <= ExposureBound
    /\ total' = total + size
    /\ byMarket' = [byMarket EXCEPT ![m] = @ + size]
    /\ UNCHANGED <<state, capVars, gateVars>>

\* _triggerRollback
TriggerRollback ==
    /\ rollback' = TRUE
    /\ state' = "shadow_only"

\* Mutant: the run of losses is compared with > instead of >=.
CheckRollbackGates_RunOffByOne(pnl) ==
    LET newDay == sinceReset > Day
        soFar == IF newDay THEN 0 ELSE dailyLoss
        loss == -pnl
        overTrade == loss > MaxLossPerTrade
        overDay == soFar + loss > MaxLossPerDay
        overRun == streak + 1 > MaxConsecutive
    IN  /\ sinceReset' = IF newDay THEN 0 ELSE sinceReset
        /\ dailyLoss' = IF pnl < 0 /\ ~overTrade THEN soFar + loss ELSE soFar
        /\ streak' = IF pnl >= 0 THEN 0
                     ELSE IF overTrade \/ overDay THEN streak ELSE streak + 1
        /\ IF pnl < 0 /\ (overTrade \/ overDay \/ overRun)
           THEN TriggerRollback
           ELSE UNCHANGED <<rollback, state>>

\* Mutant: a win resets the rollback along with the run of losses.
CheckRollbackGates_WinClears(pnl) ==
    LET newDay == sinceReset > Day
        soFar == IF newDay THEN 0 ELSE dailyLoss
        loss == -pnl
        overTrade == loss > MaxLossPerTrade
        overDay == soFar + loss > MaxLossPerDay
        overRun == streak + 1 >= MaxConsecutive
    IN  /\ sinceReset' = IF newDay THEN 0 ELSE sinceReset
        /\ dailyLoss' = IF pnl < 0 /\ ~overTrade THEN soFar + loss ELSE soFar
        /\ streak' = IF pnl >= 0 THEN 0
                     ELSE IF overTrade \/ overDay THEN streak ELSE streak + 1
        /\ IF pnl < 0 /\ (overTrade \/ overDay \/ overRun)
           THEN TriggerRollback
           ELSE rollback' = (rollback /\ pnl < 0) /\ UNCHANGED state

\* _checkRollbackGates: a gate that fires returns before the later metrics are
\* updated.
CheckRollbackGates(pnl) ==
    LET newDay == sinceReset > Day
        soFar == IF newDay THEN 0 ELSE dailyLoss
        loss == -pnl
        overTrade == loss > MaxLossPerTrade
        overDay == soFar + loss > MaxLossPerDay
        overRun == streak + 1 >= MaxConsecutive
    IN  /\ sinceReset' = IF newDay THEN 0 ELSE sinceReset
        /\ dailyLoss' = IF pnl < 0 /\ ~overTrade THEN soFar + loss ELSE soFar
        /\ streak' = IF pnl >= 0 THEN 0
                     ELSE IF overTrade \/ overDay THEN streak ELSE streak + 1
        /\ IF pnl < 0 /\ (overTrade \/ overDay \/ overRun)
           THEN TriggerRollback
           ELSE UNCHANGED <<rollback, state>>

\* The history of what the controller was told.
Tell(pnl) ==
    LET soFar == IF GatesEnabled /\ sinceReset > Day THEN 0 ELSE toldLoss
    IN  /\ toldLoss' = IF pnl < 0 THEN soFar - pnl ELSE soFar
        /\ toldRun' = IF pnl < 0 THEN toldRun + 1 ELSE 0
        /\ toldLoss' <= LossBound
        /\ toldRun' <= LossBound

\* Mutants: the total is forgotten; neither exposure is clamped.
RecordPositionClosed_MarketOnly(m, size, pnl) ==
    /\ byMarket' = [byMarket EXCEPT ![m] = IF @ > size THEN @ - size ELSE 0]
    /\ Tell(pnl)
    /\ IF GatesEnabled
       THEN CheckRollbackGates(pnl)
       ELSE UNCHANGED <<dailyLoss, sinceReset, streak, rollback, state>>
    /\ UNCHANGED <<total, capVars>>

RecordPositionClosed_Unclamped(m, size, pnl) ==
    /\ total' = total - size
    /\ byMarket' = [byMarket EXCEPT ![m] = @ - size]
    /\ Tell(pnl)
    /\ IF GatesEnabled
       THEN CheckRollbackGates(pnl)
       ELSE UNCHANGED <<dailyLoss, sinceReset, streak, rollback, state>>
    /\ UNCHANGED capVars

\* recordPositionClosed: both exposures are clamped at zero.
RecordPositionClosed(m, size, pnl) ==
    /\ total' = IF total > size THEN total - size ELSE 0
    /\ byMarket' = [byMarket EXCEPT ![m] = IF @ > size THEN @ - size ELSE 0]
    /\ Tell(pnl)
    /\ IF GatesEnabled
       THEN CheckRollbackGates(pnl)
       ELSE UNCHANGED <<dailyLoss, sinceReset, streak, rollback, state>>
    /\ UNCHANGED capVars

-----------------------------------------------------------------------------
(* The operator *)

\* enableMarket throws on a market that is unknown or not tradeable.
EnableMarket(m) ==
    /\ m \in Tradeable
    /\ enabled' = enabled \union {m}
    /\ UNCHANGED <<state, defaultCap, marketCap, totalCap, exposureVars, gateVars>>

DisableMarket(m) ==
    /\ enabled' = enabled \ {m}
    /\ UNCHANGED <<state, defaultCap, marketCap, totalCap, exposureVars, gateVars>>

SetMarketCap(m, cap) ==
    /\ marketCap' = [marketCap EXCEPT ![m] = cap]
    /\ UNCHANGED <<state, enabled, defaultCap, totalCap, exposureVars, gateVars>>

\* setState: anything but "disabled" resets the rollback and its metrics.
SetState(new) ==
    /\ state' = new
    /\ IF new = "disabled"
       THEN UNCHANGED gateVars
       ELSE /\ rollback' = FALSE
            /\ streak' = 0
            /\ dailyLoss' = 0
            /\ sinceReset' = 0
            /\ toldLoss' = 0
            /\ toldRun' = 0
    /\ UNCHANGED <<capVars, exposureVars>>

\* progressiveIncrease, refused while rolled back.
ProgressiveIncrease(factor) ==
    /\ ~rollback
    /\ \A cap \in {defaultCap, totalCap} \union {marketCap[m] : m \in Markets} :
          cap * factor <= CapBound
    /\ defaultCap' = defaultCap * factor
    /\ totalCap' = totalCap * factor
    /\ marketCap' = [m \in Markets |->
                       IF marketCap[m] = Unset THEN Unset ELSE marketCap[m] * factor]
    /\ UNCHANGED <<state, enabled, exposureVars, gateVars>>

Tick ==
    /\ sinceReset <= Day
    /\ sinceReset' = sinceReset + 1
    /\ UNCHANGED <<state, capVars, exposureVars, dailyLoss, streak, rollback, toldLoss, toldRun>>

Operate ==
    \/ \E m \in Markets : EnableMarket(m) \/ DisableMarket(m)
    \/ \E m \in Markets, cap \in Caps : SetMarketCap(m, cap)
    \/ \E new \in LiveStates : SetState(new)
    \/ ProgressiveIncrease(2)

Next ==
    \/ \E m \in Markets, size \in Sizes : RecordPositionOpened(m, size)
    \/ \E m \in Markets, size \in Sizes, pnl \in Pnls : RecordPositionClosed(m, size, pnl)
    \/ Operate
    \/ Tick

Spec == Init /\ [][Next]_liveVars

-----------------------------------------------------------------------------
(* Properties *)

\* A rollback is latched.  Nothing the controller is told (wins, closes, new
\* days, bigger caps) clears the flag: only an operator's setState does, and
\* until then no step makes Drift live (lines 103-111, 245-255, 289-293,
\* 334-342).
RollbackIsLatched ==
    [][ /\ rollback' => ~Live'
        /\ rollback /\ ~rollback' => \E new \in LiveStates : SetState(new)]_liveVars

\* While Drift is live, everything lost since the gates were last reset fits
\* in the gates: the day's losses, every one of them, and the losing run.  The
\* early returns of _checkRollbackGates leave losses out of the metrics, but
\* only of a rolled-back controller.
LiveWithinGates ==
    GatesEnabled /\ Live =>
        /\ toldLoss <= MaxLossPerDay
        /\ toldRun < MaxConsecutive

\* Closing more than was recorded clamps per market and in total.  The total
\* then falls short of the markets' sum, and never passes it: the total cap is
\* weaker than it looks, never stronger.
TotalNeverAboveMarkets ==
    total <= MapThenSumSet(LAMBDA m : byMarket[m], Markets)

=============================================================================
