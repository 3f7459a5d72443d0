------------------------- MODULE InstanceLockProofs -------------------------
(***************************************************************************)
(* Proofs about InstanceLock for any set of processes, any threshold and   *)
(* any heartbeat period not longer than the threshold, with every fault.   *)
(*                                                                         *)
(* The argument: the row of a healthy owner is exactly as old as its last  *)
(* heartbeat (RowTracksBeat), so it is never stale and never cleaned up.   *)
(* A process that is about to insert has seen no live row, hence no        *)
(* healthy owner, when it checked.  Who checks after it, before it has     *)
(* inserted, is late; so whoever is not late and about to insert still has *)
(* no healthy owner beside it (InserterIsAlone).  The healthy processes    *)
(* that are not late have a mutex (module Mutex), and where no two         *)
(* processes ever stand between the check and the insert together          *)
(* (OneAtInsert), all healthy processes do: that window is the whole race. *)
(***************************************************************************)
EXTENDS InstanceLock, TLAPS

WaitCounts == \A p \in Procs : pc[p] = "wait" => attempt[p] < MaxAttempts

AsleepIsFaulty == asleep \subseteq faulty

RowTracksBeat ==
    \A p \in Healthy : pc[p] \in Owning =>
        beat[p] \in 0 .. HeartbeatEvery /\ row[p] = beat[p]

RowInv == TypeOK /\ WaitCounts /\ AsleepIsFaulty /\ RowTracksBeat

\* Whoever is about to insert and is not late is the only one who is not, and
\* nobody healthy owns the lock but late ones.
InserterIsAlone ==
    \A p \in Procs \ late, q \in Procs :
        pc[p] = "insert" =>
            /\ q \in Healthy \ late => pc[q] \notin Owning
            /\ pc[q] = "insert" /\ q # p => q \in late

AloneInv == InserterIsAlone /\ HealthyExclusion

\* What a transaction around the check and the insert would guarantee.
OneAtInsert ==
    \A p, q \in Procs : pc[p] = "insert" /\ pc[q] = "insert" => p = q

\* Without the race nobody who is late gets as far as the insert.
LateIsOut == \A p \in late : pc[p] \notin Owning /\ pc[p] # "insert"

\* The sets of program locations do not overlap.
LEMMA Locations ==
    /\ Booting \cap Owning = {}
    /\ \A x \in Booting : x # "new" /\ x # "dying" /\ x \notin Gone
    /\ \A x \in Owning : x # "new" /\ x # "dying" /\ x \notin Gone
BY DEF Booting, Owning, Gone

\* A heartbeat of HeartbeatEvery or less is not stale.
LEMMA BeatIsLive == ASSUME NEW b \in 0 .. HeartbeatEvery PROVE b \in 0 .. StaleAfter
BY InstanceLockAssumption DEF InstanceLockAssumption

\* The healthy owners' rows are live.
LEMMA TrackedIsLive == RowTracksBeat => HealthyOwnerHasLiveRow
BY BeatIsLive DEF RowTracksBeat, HealthyOwnerHasLiveRow

\* All processes start before the boot, without rows.
LEMMA InitInv == Init => RowInv /\ AloneInv /\ LateIsOut
<1> SUFFICES ASSUME Init PROVE RowInv /\ AloneInv /\ LateIsOut
    OBVIOUS
<1> USE DEF Init
<1>1. TypeOK BY InstanceLockAssumption DEF TypeOK, InstanceLockAssumption, Absent, Off
<1>2. WaitCounts /\ AsleepIsFaulty BY DEF WaitCounts, AsleepIsFaulty
<1>3. RowTracksBeat BY DEF RowTracksBeat, Owning, Healthy
<1>4. InserterIsAlone /\ HealthyExclusion /\ LateIsOut
    BY DEF InserterIsAlone, HealthyExclusion, LateIsOut, Owning, Healthy
<1>5. QED BY <1>1, <1>2, <1>3, <1>4 DEF RowInv, AloneInv

\* Releasing the lock keeps the types of rows and heartbeats.
LEMMA ReleaseTypes ==
    ASSUME TypeOK, NEW p \in Procs, ReleaseLock(p)
    PROVE  /\ beat' = [beat EXCEPT ![p] = Off]
           /\ beat' \in [Procs -> {Off} \union 0 .. HeartbeatEvery]
           /\ row' \in [Procs -> {Absent} \union 0 .. StaleAfter + 1]
           /\ \A q \in Procs : q # p => row'[q] = row[q] /\ beat'[q] = beat[q]
BY DEF TypeOK, ReleaseLock

\* A step of one process alone keeps the row invariant: what it has to be
\* shown about is that process only.
LEMMA OwnStepRow ==
    ASSUME RowInv, NEW p \in Procs, TypeOK',
           \A q \in Procs : q # p =>
               pc'[q] = pc[q] /\ attempt'[q] = attempt[q]
               /\ row'[q] = row[q] /\ beat'[q] = beat[q],
           pc'[p] = "wait" => attempt'[p] < MaxAttempts,
           asleep' \subseteq faulty', faulty \subseteq faulty',
           p \in Healthy' /\ pc'[p] \in Owning =>
               beat'[p] \in 0 .. HeartbeatEvery /\ row'[p] = beat'[p]
    PROVE  RowInv'
<1>1. WaitCounts' BY DEF RowInv, WaitCounts
<1>2. AsleepIsFaulty' BY DEF AsleepIsFaulty
<1>3. RowTracksBeat'
    <2> SUFFICES ASSUME NEW q \in Healthy', pc'[q] \in Owning
                 PROVE  beat'[q] \in 0 .. HeartbeatEvery /\ row'[q] = beat'[q]
        BY DEF RowTracksBeat
    <2>1. q \in Procs /\ q \in Healthy BY DEF Healthy
    <2>2. CASE q = p BY <2>2
    <2>3. CASE q # p BY <2>1, <2>3 DEF RowInv, RowTracksBeat
    <2>4. QED BY <2>2, <2>3
<1>4. QED BY <1>1, <1>2, <1>3 DEF RowInv

\* The steps of the boot sequence keep the row invariant.
LEMMA BootRow ==
    ASSUME RowInv, NEW p \in Procs, BootStep(p) \/ Start(p)
    PROVE  RowInv'
<1> USE DEF RowInv
<1>2. CASE Start(p)
    <2>1. TypeOK' BY <1>2, InstanceLockAssumption
        DEF TypeOK, Start, Goto, Booting, InstanceLockAssumption
    <2>2. QED BY <1>2, <2>1, OwnStepRow
        DEF TypeOK, Start, Goto, AsleepIsFaulty, Owning
<1>3. CASE Cleanup(p)
    <2>1. TypeOK' BY <1>3 DEF TypeOK, Cleanup, Goto, Booting
    <2>2. WaitCounts' /\ AsleepIsFaulty'
        BY <1>3 DEF TypeOK, WaitCounts, AsleepIsFaulty, Cleanup, Goto
    <2>3. ASSUME NEW q \in Healthy', pc'[q] \in Owning
          PROVE  beat'[q] \in 0 .. HeartbeatEvery /\ row'[q] = beat'[q]
        <3>1. q \in Healthy /\ q \in Procs /\ pc[q] \in Owning
            BY <1>3, <2>3 DEF Healthy, Cleanup, Goto, TypeOK, Owning
        <3>2. row[q] = beat[q] /\ beat[q] \in 0 .. HeartbeatEvery
            BY <3>1 DEF RowTracksBeat
        <3>3. row[q] \in 0 .. StaleAfter BY <3>2, BeatIsLive
        <3>4. row'[q] = row[q] /\ beat'[q] = beat[q]
            BY <1>3, <3>1, <3>3, InstanceLockAssumption
               DEF Cleanup, InstanceLockAssumption
        <3>5. QED BY <3>2, <3>4
    <2>4. QED BY <2>1, <2>2, <2>3 DEF RowTracksBeat
<1>4. CASE Check(p)
    <2>1. TypeOK' BY <1>4 DEF TypeOK, Check, Goto, Booting
    <2>2. QED BY <1>4, <2>1, OwnStepRow
        DEF TypeOK, Check, Goto, AsleepIsFaulty, Owning
<1>5. CASE Insert(p)
    <2>1. TypeOK' BY <1>5, InstanceLockAssumption
        DEF TypeOK, Insert, Goto, Owning, InstanceLockAssumption
    <2>2. row'[p] = 0 /\ beat'[p] = 0 /\ pc'[p] = "creating"
        BY <1>5 DEF Insert, Goto, TypeOK
    <2>3. 0 \in 0 .. HeartbeatEvery
        BY InstanceLockAssumption DEF InstanceLockAssumption
    <2>4. QED BY <1>5, <2>1, <2>2, <2>3, OwnStepRow
        DEF TypeOK, Insert, Goto, AsleepIsFaulty
<1>6. CASE Contend(p)
    <2>1. PICK where \in {"exited", "wait"} :
              /\ Goto(p, where)
              /\ where = "wait" => attempt[p] # MaxAttempts
        BY <1>6 DEF Contend
    <2>2. TypeOK' BY <1>6, <2>1 DEF TypeOK, Contend, Goto, Booting, Gone
    <2>3. pc'[p] = where BY <2>1 DEF Goto, TypeOK
    <2>4. where = "wait" => attempt'[p] < MaxAttempts
        BY <1>6, <2>1, InstanceLockAssumption
           DEF Contend, TypeOK, InstanceLockAssumption
    <2>5. QED BY <1>6, <2>1, <2>2, <2>3, <2>4, OwnStepRow
        DEF TypeOK, Contend, Goto, AsleepIsFaulty, Owning
<1>7. CASE TryAgain(p)
    <2>1. attempt[p] + 1 \in 0 .. MaxAttempts
        BY <1>7, InstanceLockAssumption
           DEF TryAgain, WaitCounts, TypeOK, InstanceLockAssumption
    <2>2. TypeOK' BY <1>7, <2>1 DEF TypeOK, TryAgain, Goto, Booting
    <2>3. QED BY <1>7, <2>2, OwnStepRow
        DEF TypeOK, TryAgain, Goto, AsleepIsFaulty, Owning
<1>8. CASE DbError(p)
    <2>1. PICK where \in {"exited", "wait"} :
              /\ Goto(p, where)
              /\ where = "wait" => attempt[p] # MaxAttempts
        BY <1>8 DEF DbError
    <2>2. TypeOK' BY <1>8, <2>1 DEF TypeOK, DbError, Goto, Booting, Gone
    <2>3. pc'[p] = where BY <2>1 DEF Goto, TypeOK
    <2>4. where = "wait" => attempt'[p] < MaxAttempts
        BY <1>8, <2>1, InstanceLockAssumption
           DEF DbError, TypeOK, InstanceLockAssumption
    <2>5. QED BY <1>8, <2>1, <2>2, <2>3, <2>4, OwnStepRow
        DEF TypeOK, DbError, Goto, AsleepIsFaulty, Owning
<1>9. QED BY <1>2, <1>3, <1>4, <1>5, <1>6, <1>7, <1>8 DEF BootStep

\* The steps of a process that has the lock keep the row invariant.
LEMMA LifeRow ==
    ASSUME RowInv, NEW p \in Procs, LifeStep(p)
    PROVE  RowInv'
<1> USE DEF RowInv
<1>1. CASE Created(p)
    <2>1. TypeOK' BY <1>1 DEF TypeOK, Created, Goto, Owning
    <2>2. p \in Healthy => beat[p] \in 0 .. HeartbeatEvery /\ row[p] = beat[p]
        BY <1>1 DEF Created, RowTracksBeat, Owning, Healthy
    <2>3. QED BY <1>1, <2>1, <2>2, OwnStepRow
        DEF TypeOK, Created, Goto, AsleepIsFaulty, Healthy
<1>2. CASE GiveUp(p)
    <2>1. TypeOK' BY <1>2, ReleaseTypes DEF TypeOK, GiveUp, Goto, Gone
    <2>2. pc'[p] = "exited" BY <1>2 DEF GiveUp, Goto, TypeOK
    <2>3. QED BY <1>2, <2>1, <2>2, ReleaseTypes, OwnStepRow
        DEF TypeOK, GiveUp, Goto, AsleepIsFaulty, Owning
<1>3. CASE Heartbeat(p)
    <2>1. TypeOK' BY <1>3, InstanceLockAssumption
        DEF TypeOK, Heartbeat, InstanceLockAssumption, Absent, Off
    <2>2. beat'[p] = 0 /\ 0 \in 0 .. HeartbeatEvery
        BY <1>3, InstanceLockAssumption DEF Heartbeat, TypeOK, InstanceLockAssumption
    <2>3. p \in Healthy' /\ pc'[p] \in Owning => row'[p] = 0
        BY <1>3, InstanceLockAssumption
           DEF Heartbeat, TypeOK, Healthy, RowTracksBeat, Absent, InstanceLockAssumption
    <2>4. QED BY <1>3, <2>1, <2>2, <2>3, OwnStepRow
        DEF TypeOK, Heartbeat, AsleepIsFaulty, WaitCounts
<1>4. CASE SigTerm(p)
    <2>1. TypeOK' BY <1>4 DEF TypeOK, SigTerm, Goto, Owning
    <2>2. p \in Healthy => beat[p] \in 0 .. HeartbeatEvery /\ row[p] = beat[p]
        BY <1>4 DEF SigTerm, RowTracksBeat, Owning, Healthy
    <2>3. QED BY <1>4, <2>1, <2>2, OwnStepRow
        DEF TypeOK, SigTerm, Goto, AsleepIsFaulty, Healthy
<1>5. CASE ShutdownDone(p)
    <2>1. TypeOK' BY <1>5, ReleaseTypes DEF TypeOK, ShutdownDone, Goto, Gone
    <2>2. pc'[p] = "exited" BY <1>5 DEF ShutdownDone, Goto, TypeOK
    <2>3. QED BY <1>5, <2>1, <2>2, ReleaseTypes, OwnStepRow
        DEF TypeOK, ShutdownDone, Goto, AsleepIsFaulty, Owning
<1>6. CASE UncaughtException(p)
    <2>1. pc' \in [Procs -> {"new", "dying"} \union Booting \union Owning \union Gone]
        BY <1>6 DEF TypeOK, UncaughtException, Goto
    <2>2. TypeOK' BY <1>6, <2>1, ReleaseTypes DEF TypeOK, UncaughtException
    <2>3. pc'[p] # "wait" /\ \A q \in Procs : q # p => pc'[q] = pc[q]
        BY <1>6 DEF TypeOK, UncaughtException, Goto, Owning
    <2>4. p \notin Healthy' BY <1>6 DEF UncaughtException, Healthy
    <2>5. asleep' \subseteq faulty' /\ faulty \subseteq faulty'
        BY <1>6 DEF UncaughtException, AsleepIsFaulty
    <2>6. attempt' = attempt BY <1>6 DEF UncaughtException
    <2>7. ReleaseLock(p) BY <1>6 DEF UncaughtException
    <2>8. QED BY <2>2, <2>3, <2>4, <2>5, <2>6, <2>7, ReleaseTypes, OwnStepRow
<1>7. CASE Die(p)
    <2>1. TypeOK' BY <1>7, ReleaseTypes DEF TypeOK, Die, Goto, Gone
    <2>2. pc'[p] = "exited" BY <1>7 DEF Die, Goto, TypeOK
    <2>3. QED BY <1>7, <2>1, <2>2, ReleaseTypes, OwnStepRow
        DEF TypeOK, Die, Goto, AsleepIsFaulty, Owning
<1>8. CASE UnhandledRejection(p)
    <2>1. TypeOK' BY <1>8, ReleaseTypes DEF TypeOK, UnhandledRejection
    <2>2. p \notin Healthy' BY <1>8 DEF UnhandledRejection, Healthy
    <2>3. asleep' \subseteq faulty' /\ faulty \subseteq faulty'
        BY <1>8 DEF UnhandledRejection, AsleepIsFaulty
    <2>4. pc'[p] # "wait" BY <1>8 DEF UnhandledRejection, Owning
    <2>5. ReleaseLock(p) /\ pc' = pc /\ attempt' = attempt
        BY <1>8 DEF UnhandledRejection
    <2>6. QED BY <2>1, <2>2, <2>3, <2>4, <2>5, ReleaseTypes, OwnStepRow
<1>9. QED BY <1>1, <1>2, <1>3, <1>4, <1>5, <1>6, <1>7, <1>8 DEF LifeStep

\* Kills, stalls, awakenings and time keep the row invariant.
LEMMA EnvRow ==
    ASSUME RowInv, NEW p \in Procs, Kill(p) \/ Stall(p) \/ WakeUp(p)
    PROVE  RowInv'
<1> USE DEF RowInv
<1>1. CASE Kill(p)
    <2>1. TypeOK' BY <1>1 DEF TypeOK, Kill, Goto, Gone
    <2>2. asleep' \subseteq faulty' BY <1>1 DEF Kill, AsleepIsFaulty
    <2>3. pc'[p] = "killed" BY <1>1 DEF Kill, Goto, TypeOK
    <2>4. QED BY <1>1, <2>1, <2>2, <2>3, OwnStepRow
        DEF TypeOK, Kill, Goto, Owning
<1>2. CASE Stall(p)
    <2>1. TypeOK' BY <1>2 DEF TypeOK, Stall
    <2>2. p \notin Healthy' BY <1>2 DEF Stall, Healthy
    <2>3. asleep' \subseteq faulty' /\ faulty \subseteq faulty'
        BY <1>2 DEF Stall, AsleepIsFaulty
    <2>4. QED BY <1>2, <2>1, <2>2, <2>3, OwnStepRow DEF TypeOK, Stall, WaitCounts
<1>3. CASE WakeUp(p)
    <2>1. TypeOK' BY <1>3 DEF TypeOK, WakeUp
    <2>2. asleep' \subseteq faulty' BY <1>3 DEF WakeUp, AsleepIsFaulty
    <2>3. p \notin Healthy' BY <1>3 DEF WakeUp, AsleepIsFaulty, Healthy
    <2>4. QED BY <1>3, <2>1, <2>2, <2>3, OwnStepRow DEF TypeOK, WakeUp, WaitCounts
<1>4. QED BY <1>1, <1>2, <1>3

\* Time moves a healthy owner's row and heartbeat together.
LEMMA TickRow == RowInv /\ Tick => RowInv'
<1> SUFFICES ASSUME RowInv, Tick PROVE RowInv'
    OBVIOUS
<1> USE DEF RowInv
<1>1. row' \in [Procs -> {Absent} \union 0 .. StaleAfter + 1]
    BY InstanceLockAssumption DEF TypeOK, Tick, Absent, InstanceLockAssumption
<1>2. beat' \in [Procs -> {Off} \union 0 .. HeartbeatEvery]
    BY InstanceLockAssumption DEF TypeOK, Tick, Off, InstanceLockAssumption
<1>3. TypeOK' BY <1>1, <1>2 DEF TypeOK, Tick
<1>4. WaitCounts' /\ AsleepIsFaulty' BY DEF WaitCounts, AsleepIsFaulty, Tick
<1>5. ASSUME NEW p \in Healthy', pc'[p] \in Owning
      PROVE  beat'[p] \in 0 .. HeartbeatEvery /\ row'[p] = beat'[p]
    <2>1. p \in Healthy /\ p \in Procs /\ pc[p] \in Owning
        BY <1>5 DEF Healthy, Tick
    <2>2. row[p] = beat[p] /\ beat[p] \in 0 .. HeartbeatEvery
        BY <2>1 DEF RowTracksBeat
    <2>3. Awake(p) BY <2>1 DEF Awake, AsleepIsFaulty, Healthy
    <2>4. beat[p] < HeartbeatEvery BY <2>1, <2>3 DEF Tick
    <2>5. beat[p] \in 0 .. HeartbeatEvery - 1 /\ row[p] \in 0 .. StaleAfter
        BY <2>2, <2>4, InstanceLockAssumption DEF InstanceLockAssumption
    <2>6. beat'[p] = beat[p] + 1 /\ row'[p] = row[p] + 1
        BY <2>1, <2>5 DEF Tick
    <2>7. QED BY <2>2, <2>4, <2>6, InstanceLockAssumption DEF InstanceLockAssumption
<1>6. QED BY <1>3, <1>4, <1>5 DEF RowTracksBeat

\* The row invariant is inductive.
LEMMA NextRow == RowInv /\ [Next]_vars => RowInv'
<1> SUFFICES ASSUME RowInv, [Next]_vars PROVE RowInv'
    OBVIOUS
<1>1. CASE Tick BY <1>1, TickRow
<1>2. ASSUME NEW p \in Procs, BootStep(p) \/ Start(p) PROVE RowInv'
    BY <1>2, BootRow
<1>3. ASSUME NEW p \in Procs, LifeStep(p) PROVE RowInv'
    BY <1>3, LifeRow
<1>4. ASSUME NEW p \in Procs, Kill(p) \/ Stall(p) \/ WakeUp(p) PROVE RowInv'
    BY <1>4, EnvRow
<1>5. CASE UNCHANGED vars
    BY <1>5 DEF vars, RowInv, TypeOK, WaitCounts, AsleepIsFaulty,
                RowTracksBeat, Healthy
<1>6. QED BY <1>1, <1>2, <1>3, <1>4, <1>5 DEF Next, EnvStep

-----------------------------------------------------------------------------

\* Who is where after a step of one process, and who is late.
LEMMA OthersStay ==
    ASSUME RowInv, NEW p \in Procs, BootStep(p) \/ LifeStep(p) \/ EnvStep(p)
    PROVE  /\ \A q \in Procs : q # p => pc'[q] = pc[q] /\ (q \in late' <=> q \in late)
           /\ Healthy' \subseteq Healthy
           /\ pc'[p] \in Owning => late' = late /\ (pc[p] \in Owning \/ Insert(p))
           /\ pc'[p] = "insert" => \/ pc[p] = "insert" /\ late' = late
                                   \/ LiveRows = {} /\ pc[p] = "check"
           /\ pc[p] = "check" /\ late' # late =>
                  (p \in late' <=> \E q \in Procs : pc[q] = "insert")
           /\ pc[p] = "check" /\ pc'[p] = "insert" =>
                  (p \in late' <=> \E q \in Procs : pc[q] = "insert")
           /\ pc[p] # "check" => late' = late
<1> USE DEF RowInv, TypeOK, Goto, Owning, Booting, Gone, Healthy
<1>1. CASE BootStep(p)
    <2>1. CASE Cleanup(p) BY <2>1 DEF Cleanup
    <2>2. CASE Check(p)
        <3>1. PICK where \in {"insert", "contend"} :
                  /\ pc' = [pc EXCEPT ![p] = where]
                  /\ where = "insert" => LiveRows = {}
            BY <2>2 DEF Check
        <3>2. pc'[p] = where /\ pc[p] = "check" /\ Healthy' = Healthy
            BY <2>2, <3>1 DEF Check
        <3>3. /\ \A q \in Procs : q # p => (q \in late' <=> q \in late)
              /\ p \in late' <=> \E q \in Procs : pc[q] = "insert"
            BY <2>2 DEF Check
        <3>4. QED BY <3>1, <3>2, <3>3
    <2>3. CASE Insert(p) BY <2>3 DEF Insert
    <2>4. CASE Contend(p) BY <2>4 DEF Contend
    <2>5. CASE TryAgain(p) BY <2>5 DEF TryAgain
    <2>6. CASE DbError(p) BY <2>6 DEF DbError
    <2>7. QED BY <1>1, <2>1, <2>2, <2>3, <2>4, <2>5, <2>6 DEF BootStep
<1>2. CASE LifeStep(p)
    <2>1. CASE Created(p) BY <2>1 DEF Created
    <2>2. CASE GiveUp(p) BY <2>2 DEF GiveUp
    <2>3. CASE Heartbeat(p) BY <2>3 DEF Heartbeat
    <2>4. CASE SigTerm(p) BY <2>4 DEF SigTerm
    <2>5. CASE ShutdownDone(p) BY <2>5 DEF ShutdownDone
    <2>6. CASE UncaughtException(p) BY <2>6 DEF UncaughtException
    <2>7. CASE Die(p) BY <2>7 DEF Die
    <2>8. CASE UnhandledRejection(p) BY <2>8 DEF UnhandledRejection
    <2>9. QED BY <1>2, <2>1, <2>2, <2>3, <2>4, <2>5, <2>6, <2>7, <2>8 DEF LifeStep
<1>3. CASE EnvStep(p)
    <2>1. CASE Start(p) BY <2>1 DEF Start
    <2>2. CASE Kill(p) BY <2>2 DEF Kill
    <2>3. CASE Stall(p) BY <2>3 DEF Stall
    <2>4. CASE WakeUp(p) BY <2>4 DEF WakeUp
    <2>5. QED BY <1>3, <2>1, <2>2, <2>3, <2>4 DEF EnvStep
<1>4. QED BY <1>1, <1>2, <1>3

\* Exclusion is inductive next to the row invariant, however many processes
\* boot and however their statements interleave.
LEMMA NextAlone ==
    ASSUME RowInv, AloneInv, [Next]_vars
    PROVE  AloneInv'
<1> USE DEF AloneInv
<1>1. CASE pc' = pc /\ faulty' = faulty /\ late' = late
    BY <1>1 DEF InserterIsAlone, HealthyExclusion, Healthy
<1>2. ASSUME NEW p \in Procs, BootStep(p) \/ LifeStep(p) \/ EnvStep(p)
      PROVE  AloneInv'
    <2>1. /\ \A q \in Procs : q # p => pc'[q] = pc[q] /\ (q \in late' <=> q \in late)
          /\ Healthy' \subseteq Healthy
          /\ pc'[p] \in Owning => late' = late /\ (pc[p] \in Owning \/ pc[p] = "insert")
          /\ pc'[p] = "insert" => \/ pc[p] = "insert" /\ late' = late
                                  \/ LiveRows = {} /\ pc[p] = "check"
          /\ pc[p] = "check" /\ pc'[p] = "insert" =>
                 (p \in late' <=> \E q \in Procs : pc[q] = "insert")
        BY <1>2, OthersStay DEF Insert
    <2>2. LiveRows = {} => \A q \in Healthy : pc[q] \notin Owning
        BY TrackedIsLive DEF RowInv, HealthyOwnerHasLiveRow, LiveRows, Healthy
    <2>3. "insert" \notin Owning /\ Healthy \subseteq Procs
        BY DEF Owning, Healthy
    <2>4. ASSUME NEW q \in Procs \ late', NEW r \in Healthy' \ late',
                 pc'[q] = "insert", pc'[r] \in Owning
          PROVE  FALSE
        <3>1. q # r /\ r \in Healthy /\ r \in Procs
            BY <2>1, <2>3, <2>4
        <3>2. CASE q = p
            <4>1. r \notin late /\ pc[r] \in Owning
                BY <2>1, <2>4, <3>1, <3>2
            <4> QED
                BY <2>1, <2>2, <2>4, <3>1, <3>2, <4>1 DEF InserterIsAlone
        <3>3. CASE r = p
            <4>1. q \notin late /\ pc[q] = "insert" /\ r \notin late
                BY <2>1, <2>4, <3>1, <3>3
            <4> QED
                BY <2>1, <2>4, <3>1, <3>3, <4>1 DEF InserterIsAlone
        <3>4. CASE q # p /\ r # p
            BY <2>1, <2>4, <3>1, <3>4 DEF InserterIsAlone
        <3> QED
            BY <3>2, <3>3, <3>4
    <2>5. ASSUME NEW q \in Procs \ late', NEW r \in Procs,
                 pc'[q] = "insert", pc'[r] = "insert", q # r
          PROVE  r \in late'
        <3>1. CASE q = p
            <4>1. pc[r] = "insert" /\ (r \in late' <=> r \in late)
                BY <2>1, <2>5, <3>1
            <4> QED
                BY <2>1, <2>5, <3>1, <4>1 DEF InserterIsAlone
        <3>2. CASE r = p
            <4>1. pc[q] = "insert" /\ q \notin late
                BY <2>1, <2>5, <3>2
            <4> QED
                BY <2>1, <2>5, <3>2, <4>1 DEF InserterIsAlone
        <3>3. CASE q # p /\ r # p
            BY <2>1, <2>5, <3>3 DEF InserterIsAlone
        <3> QED
            BY <3>1, <3>2, <3>3
    <2>6. InserterIsAlone'
        BY <2>4, <2>5 DEF InserterIsAlone
    <2>7. HealthyExclusion'
        <3> SUFFICES ASSUME NEW q \in Healthy' \ late', NEW r \in Healthy' \ late',
                            pc'[q] \in Owning, pc'[r] \in Owning, q # r
                     PROVE  FALSE
            BY DEF HealthyExclusion
        <3>1. q \in Healthy \ late /\ r \in Healthy \ late /\ q \in Procs /\ r \in Procs
            BY <2>1, <2>3
        <3>2. CASE pc[q] \in Owning /\ pc[r] \in Owning
            BY <3>1, <3>2 DEF HealthyExclusion
        <3>3. CASE pc[q] \notin Owning
            <4>1. q = p /\ pc[q] = "insert" /\ pc[r] \in Owning
                BY <2>1, <3>1, <3>3
            <4>2. QED BY <3>1, <4>1 DEF InserterIsAlone
        <3>4. CASE pc[r] \notin Owning
            <4>1. r = p /\ pc[r] = "insert" /\ pc[q] \in Owning
                BY <2>1, <3>1, <3>4
            <4>2. QED BY <3>1, <4>1 DEF InserterIsAlone
        <3>5. QED BY <3>2, <3>3, <3>4
    <2>8. QED BY <2>6, <2>7
<1>3. QED BY <1>1, <1>2 DEF Next, Tick, vars

\* Both invariants hold throughout.
LEMMA InvariantHolds == Spec => [](RowInv /\ AloneInv)
<1>1. RowInv /\ AloneInv /\ [Next]_vars => RowInv' /\ AloneInv'
    BY NextRow, NextAlone
<1>2. QED BY InitInv, <1>1, PTL DEF Spec

\* The state of every process, row and timer stays in its type, and the boot
\* loop never counts past its last attempt.
THEOREM TypeCorrect == Spec => []TypeOK
<1>1. RowInv => TypeOK BY DEF RowInv
<1>2. QED BY <1>1, InvariantHolds, PTL

\* With any number of processes booting at any time and every fault around it,
\* a healthy owner's row is never absent and never stale.
THEOREM HealthyRowLive == Spec => []HealthyOwnerHasLiveRow
<1>1. RowInv => HealthyOwnerHasLiveRow BY TrackedIsLive DEF RowInv
<1>2. QED BY <1>1, InvariantHolds, PTL

\* Any number of processes may boot at any time, hang, be killed and lose
\* their database: two healthy ones own the lock together only if one of them
\* did its SELECT between the other's SELECT and INSERT (db.js 1268-1297).
THEOREM ExclusionButForTheRace == Spec => []HealthyExclusion
<1>1. AloneInv => HealthyExclusion BY DEF AloneInv
<1>2. QED BY <1>1, InvariantHolds, PTL

-----------------------------------------------------------------------------

\* Without the race nobody who is late gets to insert.
LEMMA NextLateIsOut ==
    ASSUME RowInv, LateIsOut, OneAtInsert', [Next]_vars
    PROVE  LateIsOut'
<1>1. CASE pc' = pc /\ late' = late
    BY <1>1 DEF LateIsOut
<1>2. ASSUME NEW p \in Procs, BootStep(p) \/ LifeStep(p) \/ EnvStep(p)
      PROVE  LateIsOut'
    <2>1. /\ \A q \in Procs : q # p => pc'[q] = pc[q] /\ (q \in late' <=> q \in late)
          /\ pc'[p] \in Owning => late' = late /\ (pc[p] \in Owning \/ pc[p] = "insert")
          /\ pc'[p] = "insert" => \/ pc[p] = "insert" /\ late' = late
                                  \/ pc[p] = "check"
          /\ pc[p] = "check" /\ pc'[p] = "insert" =>
                 (p \in late' <=> \E q \in Procs : pc[q] = "insert")
        BY <1>2, OthersStay DEF Insert
    <2>2. late' \subseteq Procs
        BY <1>2, NextRow DEF RowInv, TypeOK, Next
    <2>3. ASSUME NEW q \in late', q # p PROVE pc'[q] \notin Owning /\ pc'[q] # "insert"
        BY <2>1, <2>2, <2>3 DEF LateIsOut
    <2>4. ASSUME p \in late', pc'[p] \in Owning PROVE FALSE
        BY <2>1, <2>4 DEF LateIsOut
    <2>5. ASSUME p \in late', pc'[p] = "insert" PROVE FALSE
        <3>1. CASE pc[p] = "insert" /\ late' = late
            BY <2>5, <3>1 DEF LateIsOut
        <3>2. CASE pc[p] = "check"
            <4>1. PICK q \in Procs : pc[q] = "insert"
                BY <2>1, <2>5, <3>2
            <4>2. q # p /\ pc'[q] = "insert"
                BY <2>1, <3>2, <4>1
            <4> QED
                BY <2>5, <4>2 DEF OneAtInsert
        <3> QED
            BY <2>1, <2>5, <3>1, <3>2
    <2> QED
        BY <2>3, <2>4, <2>5 DEF LateIsOut
<1> QED
    BY <1>1, <1>2 DEF Next, Tick, vars

\* Where no two processes ever stand between the SELECT and the INSERT of
\* acquireInstanceLock together, no two healthy ones ever own the lock
\* (db.js 1268-1297).  A transaction around the two statements would make the
\* hypothesis true and the exclusion unconditional.
THEOREM ExclusionUnlessInsertsMeet ==
    Spec /\ []OneAtInsert =>
        [](\A p, q \in Healthy : pc[p] \in Owning /\ pc[q] \in Owning => p = q)
<1>1. RowInv /\ LateIsOut /\ OneAtInsert' /\ [Next]_vars => LateIsOut'
    BY NextLateIsOut
<1>2. AloneInv /\ LateIsOut
      => \A p, q \in Healthy : pc[p] \in Owning /\ pc[q] \in Owning => p = q
    BY DEF AloneInv, HealthyExclusion, LateIsOut
<1> QED
    BY InitInv, <1>1, <1>2, InvariantHolds, PTL DEF Spec

-----------------------------------------------------------------------------
(***************************************************************************)
(* The table, the heartbeat and the handlers are a lock for the healthy    *)
(* processes that do not lose the race between the two statements.         *)
(***************************************************************************)
Owners == {p \in Healthy \ late : pc[p] \in Owning}

Lock == INSTANCE Mutex WITH owners <- Owners

\* A step of one process takes the free lock, gives it back, or neither.
LEMMA OwnersMove ==
    ASSUME RowInv, InserterIsAlone, HealthyExclusion,
           NEW p \in Procs, BootStep(p) \/ LifeStep(p) \/ EnvStep(p)
    PROVE  Lock!Acquire(p) \/ (\E q \in Procs : Lock!Release(q)) \/ UNCHANGED Owners
<1>1. /\ \A q \in Procs : q # p => pc'[q] = pc[q] /\ (q \in late' <=> q \in late)
      /\ Healthy' \subseteq Healthy
      /\ pc'[p] \in Owning => late' = late /\ (pc[p] \in Owning \/ Insert(p))
    BY OthersStay
<1>2. \A q, r \in Owners : q = r
    BY DEF Owners, HealthyExclusion
<1>3. \A q \in Owners' : q \in Owners \/ (q = p /\ Insert(p) /\ p \notin late)
    BY <1>1 DEF Owners, Healthy
<1>4. ASSUME Insert(p), p \notin late PROVE Owners = {}
    BY <1>4 DEF Insert, Owners, Healthy, InserterIsAlone
<1>5. CASE Owners' \subseteq Owners
    <2> SUFFICES ASSUME Owners' # Owners PROVE \E q \in Procs : Lock!Release(q)
        OBVIOUS
    <2>1. PICK q \in Owners : q \notin Owners'
        BY <1>5
    <2>2. Owners = {q} /\ Owners' = {} /\ q \in Procs
        BY <1>2, <1>5, <2>1 DEF Owners, Healthy
    <2> QED
        BY <2>2 DEF Lock!Release
<1>6. CASE ~(Owners' \subseteq Owners)
    <2>1. p \in Owners' /\ Insert(p) /\ p \notin late
        BY <1>3, <1>6
    <2>2. Owners = {} /\ Owners' = {p}
        BY <1>3, <1>4, <2>1
    <2> QED
        BY <2>2 DEF Lock!Acquire
<1> QED
    BY <1>5, <1>6

\* Every step of the system is one of the lock's or leaves it alone.
LEMMA MutexStep == RowInv /\ AloneInv /\ [Next]_vars => [Lock!Next]_Owners
<1> SUFFICES ASSUME RowInv, AloneInv, [Next]_vars PROVE [Lock!Next]_Owners
    OBVIOUS
<1>1. CASE Tick \/ UNCHANGED vars
    BY <1>1 DEF Tick, vars, Owners, Healthy
<1>2. ASSUME NEW p \in Procs, BootStep(p) \/ LifeStep(p) \/ EnvStep(p)
      PROVE  [Lock!Next]_Owners
    BY <1>2, OwnersMove DEF AloneInv, Lock!Next
<1> QED
    BY <1>1, <1>2 DEF Next

\* The boot sequence (db.js 1258-1300 with bot.js 11966-12066) takes the lock
\* only while no healthy process that came in time has it, whatever boots
\* beside it, is killed, stalls or throws meanwhile.
THEOREM ImplementsMutex == Spec => Lock!Spec
<1>1. Init => Lock!Init
    BY DEF Init, Lock!Init, Owners, Owning, Healthy
<1>2. RowInv /\ AloneInv /\ [Next]_vars => [Lock!Next]_Owners
    BY MutexStep
<1> QED
    BY <1>1, <1>2, InvariantHolds, PTL DEF Spec, Lock!Spec

=============================================================================
