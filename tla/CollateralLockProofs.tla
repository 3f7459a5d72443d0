------------------------ MODULE CollateralLockProofs ------------------------
(***************************************************************************)
(* Proofs about CollateralLock for every value of the three options.       *)
(* RetriesAreRationed is not inductive: that a retry is due says something *)
(* about the time since the previous retry, not about the number of them.  *)
(* RetryClock ties the two together, and LockIdle says that a released     *)
(* lock starts its next life with no retries.                              *)
(***************************************************************************)
EXTENDS CollateralLock, TLAPS

LockIdle == ~active => admits = 0

IInv == TypeOK /\ LockIdle /\ RetriesAreRationed /\ RetryClock

\* The options are positive and the position bound is a natural number.
LEMMA OptionTypes ==
    /\ MaxLockDuration \in Nat \ {0}
    /\ MinLockInterval \in Nat \ {0}
    /\ CooldownRetry \in Nat \ {0}
    /\ MaxPositions \in Nat
BY LockOptionsAssumption DEF LockOptionsAssumption

\* Granting one more retry adds one cooldown to the product.
LEMMA OneMoreCooldown ==
    ASSUME NEW n \in Nat, NEW c \in Nat
    PROVE  /\ (n + 1) * c = n * c + c
           /\ n * c \in Nat
           /\ 0 * c = 0
OBVIOUS

\* One unit of time moves both sides of RetryClock by at most, and exactly, one.
LEMMA ClockTick ==
    ASSUME NEW p \in Nat, NEW s \in Int, NEW t \in Nat, NEW a \in Int,
           p + s <= a, t <= s + 1
    PROVE  p + t <= a + 1
OBVIOUS

\* Without retries the product is zero.
LEMMA NoRetries ==
    ASSUME NEW n, n = 0
    PROVE  n * CooldownRetry = 0
<1>1. 0 * CooldownRetry = 0 BY OptionTypes
<1>2. QED BY <1>1

\* The initial, unlocked state satisfies the inductive invariant.
LEMMA InitIInv == Init => IInv
<1> SUFFICES ASSUME Init PROVE IInv
    OBVIOUS
<1>1. admits = 0 /\ active = FALSE BY DEF Init
<1>2. admits * CooldownRetry = 0 BY <1>1, NoRetries, Zenon
<1>3. TypeOK
    <2>1. active \in BOOLEAN BY <1>1
    <2>2. QED BY <2>1, OptionTypes DEF Init, TypeOK, Counts
<1>4. LockIdle /\ RetriesAreRationed /\ RetryClock
    BY <1>1 DEF LockIdle, RetriesAreRationed, RetryClock
<1>5. QED BY <1>3, <1>4 DEF IInv

\* A lock state without retries satisfies it: the state every release leads
\* to, and the one every successful acquisition starts from.
LEMMA FreshKeeps ==
    ASSUME TypeOK', admits' = 0
    PROVE  IInv'
<1>1. admits' * CooldownRetry = 0 BY NoRetries, Zenon
<1>2. lockAge' >= 0 BY OptionTypes DEF TypeOK
<1>3. LockIdle' /\ RetryClock' BY OptionTypes DEF LockIdle, RetryClock
<1>4. RetriesAreRationed' BY <1>1, <1>2 DEF RetriesAreRationed
<1>5. QED BY <1>3, <1>4 DEF IInv

\* Every release, for whatever reason, leads back to an idle lock.
LEMMA ReleaseKeeps == IInv /\ active /\ ReleaseLock => IInv'
<1> SUFFICES ASSUME IInv, ReleaseLock PROVE IInv'
    OBVIOUS
<1>1. TypeOK'
    <2>1. active' \in BOOLEAN BY DEF ReleaseLock
    <2>2. QED BY <2>1, OptionTypes DEF ReleaseLock, IInv, TypeOK, Counts
<1>2. QED BY <1>1, FreshKeeps DEF ReleaseLock

\* A call that changes nothing keeps everything.
LEMMA NoChangeKeeps == IInv /\ UNCHANGED lockVars => IInv'
BY DEF IInv, lockVars, TypeOK, LockIdle, RetriesAreRationed, RetryClock, Counts

\* The inductive invariant is preserved by every call and by time.
LEMMA NextIInv == IInv /\ [Next]_lockVars => IInv'
<1> SUFFICES ASSUME IInv, [Next]_lockVars PROVE IInv'
    OBVIOUS
<1> DEFINE Product == admits * CooldownRetry
<1>0. /\ admits \in Nat
      /\ CooldownRetry \in Nat \ {0}
      /\ MaxLockDuration \in Nat \ {0}
      /\ MinLockInterval \in Nat \ {0}
      /\ Product \in Nat
      /\ 0 * CooldownRetry = 0
    BY OneMoreCooldown, OptionTypes DEF IInv, TypeOK
<1>1. CASE Tick
    <2>1. TypeOK' BY <1>0, <1>1 DEF Tick, IInv, TypeOK, Counts
    <2>2. LockIdle' BY <1>1 DEF Tick, IInv, LockIdle
    <2>4. admits' = admits /\ (active' = active) /\ Product' = Product
        BY <1>1 DEF Tick
    <2>5. RetriesAreRationed'
        <3> HIDE DEF Product
        <3>1. active => Product <= lockAge
            BY DEF IInv, RetriesAreRationed, Product
        <3>2. lockAge' >= lockAge BY <1>1 DEF Tick, IInv, TypeOK
        <3>3. active' => Product' <= lockAge'
            BY <1>0, <2>4, <2>1, <3>1, <3>2 DEF IInv, TypeOK
        <3>4. QED BY <3>3 DEF RetriesAreRationed, Product
    <2>6. RetryClock'
        <3> HIDE DEF Product
        <3>1. active /\ admits > 0 /\ lockAge <= MaxLockDuration
                => Product + sinceRetry <= lockAge
            BY DEF IInv, RetryClock, Product
        <3>2. active /\ lockAge' <= MaxLockDuration
                => lockAge' = lockAge + 1 /\ lockAge <= MaxLockDuration
            BY <1>0, <1>1 DEF Tick, IInv, TypeOK
        <3>3. sinceRetry' <= sinceRetry + 1 /\ sinceRetry' \in Nat
            BY <1>0, <1>1, <2>1 DEF Tick, IInv, TypeOK
        <3>4. ASSUME active', admits' > 0, lockAge' <= MaxLockDuration
              PROVE  Product' + sinceRetry' <= lockAge'
            <4>1. active /\ admits > 0 BY <2>4, <3>4
            <4>2. lockAge' = lockAge + 1 BY <3>2, <3>4, <4>1
            <4>3. Product + sinceRetry <= lockAge BY <3>1, <3>2, <3>4, <4>1
            <4>4. sinceRetry \in Int /\ lockAge \in Int BY <1>0 DEF IInv, TypeOK
            <4>5. Product' = Product /\ Product \in Nat BY <1>0, <2>4
            <4>6. QED BY <3>3, <4>2, <4>3, <4>4, <4>5, ClockTick
        <3>5. QED BY <3>4 DEF RetryClock, Product
    <2>7. QED BY <2>1, <2>2, <2>5, <2>6 DEF IInv
<1>2. CASE QueryIsLocked
    BY <1>2, ReleaseKeeps, NoChangeKeeps DEF QueryIsLocked
<1>3. ASSUME NEW count \in Counts, AcquireLock(count) PROVE IInv'
    <2>1. CASE ~active /\ sinceLock >= MinLockInterval
        <3>1. TypeOK'
            BY <1>0, <1>3, <2>1 DEF AcquireLock, IInv, TypeOK, Counts
        <3>2. QED BY <1>3, <2>1, <3>1, FreshKeeps DEF AcquireLock
    <2>2. CASE ~(~active /\ sinceLock >= MinLockInterval)
        BY <1>3, <2>2, NoChangeKeeps DEF AcquireLock
    <2>3. QED BY <2>1, <2>2
<1>4. ASSUME NEW count \in Counts, CanOpen(count) PROVE IInv'
    <2>1. CASE active /\ Releasable(count)
        BY <1>4, <2>1, ReleaseKeeps DEF CanOpen
    <2>2. CASE active /\ ~Releasable(count) /\ CooldownDue
        <3>1. /\ sinceRetry' = 0
              /\ admits' = admits + 1
              /\ UNCHANGED <<active, lockAge, lockedAtCount, sinceLock>>
            BY <1>4, <2>2 DEF CanOpen
        <3>2. lockAge <= MaxLockDuration
            BY <2>2, <1>0 DEF Releasable, Expired, IInv, TypeOK
        <3>3. Product' = Product + CooldownRetry
            BY <3>1, <1>0, OneMoreCooldown
        <3>4. lockAge \in Nat /\ sinceRetry = CooldownRetry /\ lockAge >= CooldownRetry
            BY <2>2, <1>0 DEF CooldownDue, IInv, TypeOK
        <3>5. TypeOK' BY <3>1, <1>0 DEF IInv, TypeOK, Counts
        <3>6. Product + CooldownRetry <= lockAge
            <4> HIDE DEF Product
            <4>1. CASE admits = 0
                BY <4>1, <1>0, <3>4 DEF Product
            <4>2. CASE admits > 0
                <5>1. Product + sinceRetry <= lockAge
                    BY <4>2, <2>2, <3>2 DEF IInv, RetryClock, Product
                <5>2. QED BY <5>1, <3>4
            <4>3. QED BY <1>0, <4>1, <4>2
        <3>7. Product' <= lockAge' /\ Product' + sinceRetry' <= lockAge'
            <4> HIDE DEF Product
            <4>1. QED BY <1>0, <3>1, <3>2, <3>3, <3>4, <3>6
        <3>8. RetriesAreRationed' /\ RetryClock'
            BY <3>7 DEF RetriesAreRationed, RetryClock
        <3>9. LockIdle' BY <3>1, <2>2 DEF LockIdle
        <3>10. QED BY <3>5, <3>8, <3>9 DEF IInv
    <2>3. CASE ~(active /\ Releasable(count)) /\ ~(active /\ CooldownDue)
        BY <1>4, <2>3, NoChangeKeeps DEF CanOpen
    <2>4. QED BY <2>1, <2>2, <2>3
<1>5. CASE ForceRelease
    BY <1>5, ReleaseKeeps, NoChangeKeeps DEF ForceRelease
<1>6. CASE UNCHANGED lockVars
    BY <1>6, NoChangeKeeps
<1>7. QED BY <1>1, <1>2, <1>3, <1>4, <1>5, <1>6 DEF Next

\* The inductive invariant holds throughout.
LEMMA InvariantHolds == Spec => []IInv
<1>1. QED BY InitIInv, NextIInv, PTL DEF Spec

\* Type correctness of the lock for every choice of its options.
THEOREM TypeCorrect == Spec => []TypeOK
<1>1. IInv => TypeOK BY DEF IInv
<1>2. QED BY <1>1, InvariantHolds, PTL

\* Under a held lock at most one open per cooldown period is let through.
THEOREM RetriesRationed == Spec => []RetriesAreRationed
<1>1. IInv => RetriesAreRationed BY DEF IInv
<1>2. QED BY <1>1, InvariantHolds, PTL

\* The retries granted so far, each with its cooldown, and the time since the
\* last one fit in the age of the lock.
THEOREM RetryClockHolds == Spec => []RetryClock
<1>1. IInv => RetryClock BY DEF IInv
<1>2. QED BY <1>1, InvariantHolds, PTL

=============================================================================
