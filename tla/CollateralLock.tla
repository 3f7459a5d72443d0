--------------------------- MODULE CollateralLock ---------------------------
(***************************************************************************)
(* utils/drift-collateral-lock.js: the lock the Drift side of the trade    *)
(* executor takes when the venue answers InsufficientCollateral.  While it *)
(* is held, opens are refused, except for one "cooldown retry" per         *)
(* cooldown period.                                                        *)
(*                                                                         *)
(* Date.now() differences are kept as ages.  The code compares an age with *)
(* one threshold only, so an age stops growing once it is past the         *)
(* threshold it is compared with; no behaviour of the code is lost and     *)
(* time needs no horizon.                                                  *)
(***************************************************************************)
EXTENDS Integers

CONSTANTS
    MaxLockDuration,    \* options.maxLockDurationMs
    MinLockInterval,    \* options.minLockIntervalMs
    CooldownRetry,      \* options.cooldownRetryMs
    MaxPositions        \* bound on the position counts the callers pass in

\* The constructor replaces a zero option by its default, so none is zero.
ASSUME LockOptionsAssumption ==
    /\ MaxLockDuration \in Nat \ {0}
    /\ MinLockInterval \in Nat \ {0}
    /\ CooldownRetry \in Nat \ {0}
    /\ MaxPositions \in Nat

VARIABLES
    active,         \* _lock.active
    lockAge,        \* now - _lock.lockedAt while active, else 0
    lockedAtCount,  \* _lock.lockedAtOpenPositionsCount while active, else 0
    sinceLock,      \* now - _lock.lastLockAt, up to MinLockInterval
    sinceRetry,     \* now - _lock.lastCooldownRetryAt, up to CooldownRetry
    admits          \* history: cooldown retries granted under the held lock

lockVars == <<active, lockAge, lockedAtCount, sinceLock, sinceRetry, admits>>

Counts == 0 .. MaxPositions

TypeOK ==
    /\ active \in BOOLEAN
    /\ lockAge \in 0 .. MaxLockDuration + 1
    /\ lockedAtCount \in Counts
    /\ sinceLock \in 0 .. MinLockInterval
    /\ sinceRetry \in 0 .. CooldownRetry
    /\ admits \in Nat

-----------------------------------------------------------------------------

\* lastLockAt and lastCooldownRetryAt start at 0, i.e. in 1970.
Init ==
    /\ active = FALSE
    /\ lockAge = 0
    /\ lockedAtCount = 0
    /\ sinceLock = MinLockInterval
    /\ sinceRetry = CooldownRetry
    /\ admits = 0

\* One unit of time.
Tick ==
    /\ lockAge' = IF active /\ lockAge <= MaxLockDuration THEN lockAge + 1 ELSE lockAge
    /\ sinceLock' = IF sinceLock < MinLockInterval THEN sinceLock + 1 ELSE sinceLock
    /\ sinceRetry' = IF sinceRetry < CooldownRetry THEN sinceRetry + 1 ELSE sinceRetry
    /\ UNCHANGED <<active, lockedAtCount, admits>>

Expired == lockAge > MaxLockDuration

\* The two release rules of tryRelease that look at the position count.
PositionClosed(count) == count < lockedAtCount
ZeroCooldownElapsed(count) ==
    lockedAtCount = 0 /\ count = 0 /\ lockAge >= CooldownRetry

Releasable(count) ==
    PositionClosed(count) \/ ZeroCooldownElapsed(count) \/ Expired

\* _releaseLock: it forgets the lock but neither of the two timestamps.
ReleaseLock ==
    /\ active' = FALSE
    /\ lockAge' = 0
    /\ lockedAtCount' = 0
    /\ admits' = 0
    /\ UNCHANGED <<sinceLock, sinceRetry>>

\* isLocked(): a query that expires the lock as a side effect.
IsLocked == active /\ ~Expired
QueryIsLocked == IF active /\ Expired THEN ReleaseLock ELSE UNCHANGED lockVars

\* Mutants: the position that could not be opened is counted as open; a further
\* InsufficientCollateral locks anew while the lock is held.
AcquireLock_CountsTheFailedOpen(count) ==
    IF ~active /\ sinceLock >= MinLockInterval
    THEN /\ active' = TRUE
         /\ lockAge' = 0
         /\ lockedAtCount' = count + 1
         /\ sinceLock' = 0
         /\ admits' = 0
         /\ UNCHANGED sinceRetry
    ELSE UNCHANGED lockVars

AcquireLock_NoActiveCheck(count) ==
    IF sinceLock >= MinLockInterval
    THEN /\ active' = TRUE
         /\ lockAge' = 0
         /\ lockedAtCount' = count
         /\ sinceLock' = 0
         /\ admits' = 0
         /\ UNCHANGED sinceRetry
    ELSE UNCHANGED lockVars

\* acquireLock(count, error)
AcquireLock(count) ==
    IF ~active /\ sinceLock >= MinLockInterval
    THEN /\ active' = TRUE
         /\ lockAge' = 0
         /\ lockedAtCount' = count
         /\ sinceLock' = 0
         /\ admits' = 0
         /\ UNCHANGED sinceRetry
    ELSE UNCHANGED lockVars

\* Mutants: the time since the previous retry is not looked at; the age of the
\* lock is not looked at.
CooldownDue_IgnoresLastRetry == lockAge >= CooldownRetry
CooldownDue_IgnoresLockAge == sinceRetry >= CooldownRetry

\* The outcomes of canOpen(count).
CooldownDue == lockAge >= CooldownRetry /\ sinceRetry >= CooldownRetry
OpenAllowed(count) == ~active \/ Releasable(count) \/ CooldownDue

\* canOpen(count): tryRelease first, then the cooldown retry, else refused.
CanOpen(count) ==
    IF active /\ Releasable(count) THEN ReleaseLock
    ELSE IF active /\ CooldownDue
    THEN /\ sinceRetry' = 0
         /\ admits' = admits + 1
         /\ UNCHANGED <<active, lockAge, lockedAtCount, sinceLock>>
    ELSE UNCHANGED lockVars

\* forceRelease(reason)
ForceRelease == IF active THEN ReleaseLock ELSE UNCHANGED lockVars

Next ==
    \/ Tick
    \/ QueryIsLocked
    \/ \E count \in Counts : AcquireLock(count)
    \/ \E count \in Counts : CanOpen(count)
    \/ ForceRelease

Spec == Init /\ [][Next]_lockVars

\* The executor keeps asking and time keeps passing.
FairSpec ==
    /\ Spec
    /\ WF_lockVars(Tick)
    /\ WF_lockVars(\E count \in Counts : CanOpen(count))

-----------------------------------------------------------------------------

\* No retry storm (lines 8-9, 194-195): under one held lock, opens are let
\* through at most once per full cooldown period of the lock's life, whatever
\* the position counts, the order of the calls and the retries granted under
\* earlier locks (whose timestamp is not reset by a release).  A lock expires
\* by age, so at most maxLockDuration / cooldown retries (6 with the default
\* options) get through in its life.
RetriesAreRationed == active => admits * CooldownRetry <= lockAge

\* Why the rationing holds: the last retry lies at least admits cooldowns
\* after the moment of locking.
RetryClock ==
    active /\ admits > 0 /\ lockAge <= MaxLockDuration
        => admits * CooldownRetry + sinceRetry <= lockAge

\* The lock can not wedge the account (lines 18-19): while opens go on being
\* attempted, opens are unlocked again and again, even when no position closes.
LockIsNotForever == []<>~active

=============================================================================
