--------------------- MODULE SubprocessSupervisorProofs ---------------------
(***************************************************************************)
(* Proofs that the supervision never lets two subprocesses run, and never  *)
(* lets a call through to one whose SDK is not initialised; that giving    *)
(* up is final; and which step alone takes the lock from a running bot.    *)
(***************************************************************************)
EXTENDS SubprocessSupervisor, TLAPS

\* The catch of initialize waits for a subprocess that is still there.
CleanupStops ==
    initPc = "cleanup" => Running(target["init"]) /\ startPc \in {"idle", "stopping"}

\* The subprocess a start waits for is the one the client knows.
BootedIsCurrent == startPc \in {"booting", "init"} => current = booted

\* A start that stops the old subprocess stops the one the client knows.
StopsCurrent == startPc = "stopping" /\ Running(current) => target["start"] = current

\* Nobody starts a subprocess unasked.
SomebodyWaits == startPc # "idle" => initPc = "starting" \/ restartPc = "starting"

\* initialize runs only while the client is not initialised.
InitPending == initPc # "idle" => ~initialized

\* A subprocess without its SDK is being started, or replaced after the
\* delay, or the client has given up.
NeedsSdk ==
    initialized /\ Running(current) /\ current \notin sdk
        => startPc # "idle" \/ restartPc = "sleep" \/ GaveUp

\* The inductive invariant.
SafeInv ==
    /\ OnlyCurrentRuns /\ CleanupStops /\ BootedIsCurrent /\ StopsCurrent
    /\ SomebodyWaits /\ InitPending /\ NeedsSdk

-----------------------------------------------------------------------------

\* An attempt is made after a delay, or the client gives up.
LEMMA NextAttemptTries ==
    ASSUME TypeOK, NextAttempt
    PROVE  /\ attempts' \in 0 .. MaxRestarts + 1
           /\ restartPc' = "sleep" \/ (restartPc' = "idle" /\ GaveUp')
BY SupervisorAssumption DEF TypeOK, CounterTypes, NextAttempt, GaveUp

LEMMA TypeInit == Init => TypeOK
<1> SUFFICES ASSUME Init PROVE TypeOK
    OBVIOUS
<1> USE SupervisorAssumption DEF Init
<1>1. ObjectTypes
    BY DEF ObjectTypes
<1>2. StepTypes
    BY DEF StepTypes
<1>3. FlagTypes
    BY DEF FlagTypes
<1>4. CounterTypes
    BY DEF CounterTypes
<1> QED
    BY <1>1, <1>2, <1>3, <1>4 DEF TypeOK

LEMMA TypeStep == TypeOK /\ [Next]_vars => TypeOK'
<1> SUFFICES ASSUME TypeOK, [Next]_vars PROVE TypeOK'
    OBVIOUS
<1> USE SupervisorAssumption
<1>1. CASE StartStopped
    <2>1. ObjectTypes'
        BY <1>1 DEF TypeOK, ObjectTypes, StepTypes, FlagTypes, CounterTypes, Running, Stoppers, StartStopped, Spawn, Unused, procVars, startVars, restartVars
    <2>2. StepTypes'
        BY <1>1 DEF TypeOK, StepTypes, StartStopped, Spawn, procVars, startVars, restartVars
    <2>3. FlagTypes'
        BY <1>1 DEF TypeOK, FlagTypes, StartStopped, procVars, startVars, restartVars
    <2>4. CounterTypes'
        BY <1>1 DEF TypeOK, CounterTypes, StartStopped, procVars, startVars, restartVars
    <2> QED
        BY <2>1, <2>2, <2>3, <2>4 DEF TypeOK
<1>2. CASE Ready
    <2>1. ObjectTypes'
        BY <1>2 DEF TypeOK, ObjectTypes, Ready, procVars, restartVars
    <2>2. StepTypes'
        BY <1>2 DEF TypeOK, StepTypes, Ready, restartVars
    <2>3. FlagTypes'
        BY <1>2 DEF TypeOK, FlagTypes, Ready, restartVars
    <2>4. CounterTypes'
        BY <1>2 DEF TypeOK, CounterTypes, Ready, restartVars
    <2> QED
        BY <2>1, <2>2, <2>3, <2>4 DEF TypeOK
<1>3. CASE StartSucceeds
    <2>1. ObjectTypes'
        BY <1>3 DEF TypeOK, ObjectTypes, Running, StartSucceeds, restartVars
    <2>2. StepTypes'
        BY <1>3 DEF TypeOK, StepTypes, StartSucceeds, restartVars
    <2>3. FlagTypes'
        BY <1>3 DEF TypeOK, FlagTypes, StartSucceeds, restartVars
    <2>4. CounterTypes'
        BY <1>3 DEF TypeOK, CounterTypes, StartSucceeds, restartVars
    <2> QED
        BY <2>1, <2>2, <2>3, <2>4 DEF TypeOK
<1>4. CASE StartTimeout
    <2>1. ObjectTypes'
        BY <1>4, NextAttemptTries DEF TypeOK, ObjectTypes, StepTypes, FlagTypes, CounterTypes, Running, Stoppers, StartTimeout, StartFails, InitFails, RestartFails, procVars, startVars, restartVars
    <2>2. StepTypes'
        BY <1>4, NextAttemptTries DEF TypeOK, ObjectTypes, StepTypes, FlagTypes, CounterTypes, Running, Stoppers, StartTimeout, StartFails, InitFails, RestartFails, procVars, startVars, restartVars
    <2>3. FlagTypes'
        BY <1>4, NextAttemptTries DEF TypeOK, ObjectTypes, StepTypes, FlagTypes, CounterTypes, Running, Stoppers, StartTimeout, StartFails, InitFails, RestartFails, procVars, startVars, restartVars
    <2>4. CounterTypes'
        BY <1>4, NextAttemptTries DEF TypeOK, CounterTypes, StartTimeout, StartFails, RestartFails, procVars, startVars, restartVars
    <2> QED
        BY <2>1, <2>2, <2>3, <2>4 DEF TypeOK
<1>5. CASE InitCommandFails
    <2>1. ObjectTypes'
        BY <1>5, NextAttemptTries DEF TypeOK, ObjectTypes, StepTypes, FlagTypes, CounterTypes, Running, Stoppers, InitCommandFails, StartFails, InitFails, RestartFails, procVars, startVars, restartVars
    <2>2. StepTypes'
        BY <1>5, NextAttemptTries DEF TypeOK, ObjectTypes, StepTypes, FlagTypes, CounterTypes, Running, Stoppers, InitCommandFails, StartFails, InitFails, RestartFails, procVars, startVars, restartVars
    <2>3. FlagTypes'
        BY <1>5, NextAttemptTries DEF TypeOK, ObjectTypes, StepTypes, FlagTypes, CounterTypes, Running, Stoppers, InitCommandFails, StartFails, InitFails, RestartFails, procVars, startVars, restartVars
    <2>4. CounterTypes'
        BY <1>5, NextAttemptTries DEF TypeOK, CounterTypes, InitCommandFails, StartFails, RestartFails, procVars, startVars, restartVars
    <2> QED
        BY <2>1, <2>2, <2>3, <2>4 DEF TypeOK
<1>6. ASSUME NEW x \in Procs, StopEnds(x) PROVE TypeOK'
    <2>1. ObjectTypes'
        BY <1>6 DEF TypeOK, ObjectTypes, StopEnds, Down, startVars, restartVars
    <2>2. StepTypes'
        BY <1>6 DEF TypeOK, StepTypes, StopEnds, Down, startVars, restartVars
    <2>3. FlagTypes'
        BY <1>6 DEF TypeOK, FlagTypes, StopEnds, Down, startVars, restartVars
    <2>4. CounterTypes'
        BY <1>6 DEF TypeOK, CounterTypes, StopEnds, startVars, restartVars
    <2> QED
        BY <2>1, <2>2, <2>3, <2>4 DEF TypeOK
<1>7. ASSUME NEW x \in Procs, Exits(x) PROVE TypeOK'
    <2>1. ObjectTypes'
        BY <1>7, NextAttemptTries DEF TypeOK, ObjectTypes, StepTypes, FlagTypes, CounterTypes, Running, Stoppers, Exits, HandleExit, Down, procVars, startVars, restartVars
    <2>2. StepTypes'
        BY <1>7, NextAttemptTries DEF TypeOK, ObjectTypes, StepTypes, FlagTypes, CounterTypes, Running, Stoppers, Exits, HandleExit, Down, procVars, startVars, restartVars
    <2>3. FlagTypes'
        BY <1>7, NextAttemptTries DEF TypeOK, ObjectTypes, StepTypes, FlagTypes, CounterTypes, Running, Stoppers, Exits, HandleExit, Down, procVars, startVars, restartVars
    <2>4. CounterTypes'
        BY <1>7, NextAttemptTries DEF TypeOK, CounterTypes, Exits, HandleExit, procVars, startVars, restartVars
    <2> QED
        BY <2>1, <2>2, <2>3, <2>4 DEF TypeOK
<1>8. ASSUME NEW x \in Procs, KilledExits(x) PROVE TypeOK'
    <2>1. ObjectTypes'
        BY <1>8, NextAttemptTries DEF TypeOK, ObjectTypes, KilledExits, HandleExit, startVars, restartVars
    <2>2. StepTypes'
        BY <1>8, NextAttemptTries DEF TypeOK, StepTypes, KilledExits, HandleExit, startVars, restartVars
    <2>3. FlagTypes'
        BY <1>8, NextAttemptTries DEF TypeOK, FlagTypes, KilledExits, startVars, restartVars
    <2>4. CounterTypes'
        BY <1>8, NextAttemptTries DEF TypeOK, CounterTypes, KilledExits, HandleExit, startVars, restartVars
    <2> QED
        BY <2>1, <2>2, <2>3, <2>4 DEF TypeOK
<1>9. CASE Initialize
    <2>1. ObjectTypes'
        BY <1>9 DEF TypeOK, ObjectTypes, StepTypes, FlagTypes, CounterTypes, Running, Stoppers, Initialize, StartSubprocess, Spawn, Unused, procVars, startVars, restartVars
    <2>2. StepTypes'
        BY <1>9 DEF TypeOK, ObjectTypes, StepTypes, FlagTypes, CounterTypes, Running, Stoppers, Initialize, StartSubprocess, Spawn, Unused, procVars, startVars, restartVars
    <2>3. FlagTypes'
        BY <1>9 DEF TypeOK, FlagTypes, Initialize, Unused, procVars, startVars, restartVars
    <2>4. CounterTypes'
        BY <1>9 DEF TypeOK, CounterTypes, Initialize, Unused, procVars, startVars, restartVars
    <2> QED
        BY <2>1, <2>2, <2>3, <2>4 DEF TypeOK
<1>10. CASE InitStopped
    <2>1. ObjectTypes'
        BY <1>10 DEF TypeOK, ObjectTypes, StepTypes, FlagTypes, CounterTypes, Running, Stoppers, InitStopped, StartSubprocess, Spawn, Unused, procVars, startVars, restartVars
    <2>2. StepTypes'
        BY <1>10 DEF TypeOK, ObjectTypes, StepTypes, FlagTypes, CounterTypes, Running, Stoppers, InitStopped, StartSubprocess, Spawn, Unused, procVars, startVars, restartVars
    <2>3. FlagTypes'
        BY <1>10 DEF TypeOK, FlagTypes, InitStopped, Unused, procVars, startVars, restartVars
    <2>4. CounterTypes'
        BY <1>10 DEF TypeOK, CounterTypes, InitStopped, Unused, procVars, startVars, restartVars
    <2> QED
        BY <2>1, <2>2, <2>3, <2>4 DEF TypeOK
<1>11. CASE RestartWakes
    <2>1. ObjectTypes'
        BY <1>11 DEF TypeOK, ObjectTypes, StepTypes, FlagTypes, CounterTypes, Running, Stoppers, RestartWakes, StartSubprocess, Spawn, Unused, procVars, startVars, restartVars
    <2>2. StepTypes'
        BY <1>11 DEF TypeOK, ObjectTypes, StepTypes, FlagTypes, CounterTypes, Running, Stoppers, RestartWakes, StartSubprocess, Spawn, Unused, procVars, startVars, restartVars
    <2>3. FlagTypes'
        BY <1>11 DEF TypeOK, FlagTypes, RestartWakes, Unused, procVars, startVars, restartVars
    <2>4. CounterTypes'
        BY <1>11 DEF TypeOK, CounterTypes, RestartWakes, Unused, procVars, startVars, restartVars
    <2> QED
        BY <2>1, <2>2, <2>3, <2>4 DEF TypeOK
<1>12. CASE Reconciled
    <2>1. ObjectTypes'
        BY <1>12 DEF TypeOK, ObjectTypes, StepTypes, FlagTypes, CounterTypes, Running, Stoppers, Reconciled, procVars, startVars, restartVars
    <2>2. StepTypes'
        BY <1>12 DEF TypeOK, ObjectTypes, StepTypes, FlagTypes, CounterTypes, Running, Stoppers, Reconciled, procVars, startVars, restartVars
    <2>3. FlagTypes'
        BY <1>12 DEF TypeOK, FlagTypes, Reconciled, restartVars
    <2>4. CounterTypes'
        BY <1>12 DEF TypeOK, CounterTypes, Reconciled, restartVars
    <2> QED
        BY <2>1, <2>2, <2>3, <2>4 DEF TypeOK
<1>13. CASE EnsureSubprocess
    <2>1. ObjectTypes'
        BY <1>13, NextAttemptTries DEF TypeOK, ObjectTypes, StepTypes, FlagTypes, CounterTypes, Running, Stoppers, EnsureSubprocess, procVars, startVars, restartVars
    <2>2. StepTypes'
        BY <1>13, NextAttemptTries DEF TypeOK, ObjectTypes, StepTypes, FlagTypes, CounterTypes, Running, Stoppers, EnsureSubprocess, procVars, startVars, restartVars
    <2>3. FlagTypes'
        BY <1>13, NextAttemptTries DEF TypeOK, FlagTypes, EnsureSubprocess, restartVars
    <2>4. CounterTypes'
        BY <1>13, NextAttemptTries DEF TypeOK, CounterTypes, EnsureSubprocess, restartVars
    <2> QED
        BY <2>1, <2>2, <2>3, <2>4 DEF TypeOK
<1>14. CASE Shutdown
    <2>1. ObjectTypes'
        BY <1>14 DEF TypeOK, ObjectTypes, StepTypes, FlagTypes, CounterTypes, Running, Stoppers, Shutdown, procVars, startVars, restartVars
    <2>2. StepTypes'
        BY <1>14 DEF TypeOK, ObjectTypes, StepTypes, FlagTypes, CounterTypes, Running, Stoppers, Shutdown, procVars, startVars, restartVars
    <2>3. FlagTypes'
        BY <1>14 DEF TypeOK, FlagTypes, Shutdown, restartVars
    <2>4. CounterTypes'
        BY <1>14 DEF TypeOK, CounterTypes, Shutdown, restartVars
    <2> QED
        BY <2>1, <2>2, <2>3, <2>4 DEF TypeOK
<1>15. CASE ShutdownStopped
    <2>1. ObjectTypes'
        BY <1>15 DEF TypeOK, ObjectTypes, StepTypes, FlagTypes, CounterTypes, Running, Stoppers, ShutdownStopped, procVars, startVars, restartVars
    <2>2. StepTypes'
        BY <1>15 DEF TypeOK, ObjectTypes, StepTypes, FlagTypes, CounterTypes, Running, Stoppers, ShutdownStopped, procVars, startVars, restartVars
    <2>3. FlagTypes'
        BY <1>15 DEF TypeOK, FlagTypes, ShutdownStopped, restartVars
    <2>4. CounterTypes'
        BY <1>15 DEF TypeOK, CounterTypes, ShutdownStopped, restartVars
    <2> QED
        BY <2>1, <2>2, <2>3, <2>4 DEF TypeOK
<1>16. CASE BotExits
    <2>1. ObjectTypes'
        BY <1>16 DEF TypeOK, ObjectTypes, StepTypes, FlagTypes, CounterTypes, Running, Stoppers, BotExits, procVars, startVars, restartVars
    <2>2. StepTypes'
        BY <1>16 DEF TypeOK, ObjectTypes, StepTypes, FlagTypes, CounterTypes, Running, Stoppers, BotExits, procVars, startVars, restartVars
    <2>3. FlagTypes'
        BY <1>16 DEF TypeOK, FlagTypes, BotExits, restartVars
    <2>4. CounterTypes'
        BY <1>16 DEF TypeOK, CounterTypes, BotExits, restartVars
    <2> QED
        BY <2>1, <2>2, <2>3, <2>4 DEF TypeOK
<1>17. CASE UNCHANGED vars
    BY <1>17 DEF TypeOK, ObjectTypes, StepTypes, FlagTypes, CounterTypes, vars, procVars, startVars, restartVars
<1> QED
    BY <1>1, <1>2, <1>3, <1>4, <1>5, <1>6, <1>7, <1>8, <1>9, <1>10, <1>11, <1>12, <1>13, <1>14, <1>15, <1>16, <1>17 DEF Next, StartNext, ProcNext

\* Every variable keeps its type; in particular the loop never goes beyond
\* its number of attempts, and a start, a stop and a shutdown each have a target.
THEOREM TypeCorrect == Spec => []TypeOK
<1>1. Init => TypeOK
    BY TypeInit
<1>2. TypeOK /\ [Next]_vars => TypeOK'
    BY TypeStep
<1> QED
    BY <1>1, <1>2, PTL DEF Spec

-----------------------------------------------------------------------------

LEMMA SafeInit == Init => SafeInv
BY SupervisorAssumption DEF Init, SafeInv, GaveUp, Running, OnlyCurrentRuns, CleanupStops, BootedIsCurrent, StopsCurrent, SomebodyWaits, InitPending, NeedsSdk

LEMMA SafeStep == TypeOK /\ SafeInv /\ [Next]_vars => SafeInv'
<1> SUFFICES ASSUME TypeOK, SafeInv, [Next]_vars PROVE SafeInv'
    OBVIOUS
<1> USE SupervisorAssumption
<1>1. CASE StartStopped
    <2>1. OnlyCurrentRuns'
        BY <1>1 DEF SafeInv, Running, OnlyCurrentRuns, StopsCurrent, SomebodyWaits, InitPending, NeedsSdk, StartStopped, Spawn, Unused, procVars, startVars, restartVars
    <2>2. CleanupStops'
        BY <1>1 DEF TypeOK, ObjectTypes, SafeInv, Running, Stoppers, OnlyCurrentRuns, CleanupStops, StopsCurrent, SomebodyWaits, InitPending, NeedsSdk, StartStopped, Spawn, Unused, procVars, startVars, restartVars
    <2>3. BootedIsCurrent'
        BY <1>1 DEF TypeOK, ObjectTypes, StepTypes, SafeInv, Running, Stoppers, GaveUp, OnlyCurrentRuns, CleanupStops, BootedIsCurrent, StopsCurrent, SomebodyWaits, InitPending, NeedsSdk, StartStopped, Spawn, Unused, procVars, startVars, restartVars
    <2>4. StopsCurrent'
        BY <1>1 DEF StopsCurrent, SomebodyWaits, InitPending, NeedsSdk, StartStopped, Spawn, Unused, procVars, startVars, restartVars
    <2>5. SomebodyWaits'
        BY <1>1 DEF SafeInv, StopsCurrent, SomebodyWaits, InitPending, NeedsSdk, StartStopped, Spawn, Unused, procVars, startVars, restartVars
    <2>6. InitPending'
        BY <1>1 DEF SafeInv, StopsCurrent, SomebodyWaits, InitPending, NeedsSdk, StartStopped, Spawn, Unused, procVars, startVars, restartVars
    <2>7. NeedsSdk'
        BY <1>1 DEF StopsCurrent, SomebodyWaits, InitPending, NeedsSdk, StartStopped, Spawn, Unused, procVars, startVars, restartVars
    <2> QED
        BY <2>1, <2>2, <2>3, <2>4, <2>5, <2>6, <2>7 DEF SafeInv
<1>2. CASE Ready
    <2>1. OnlyCurrentRuns'
        BY <1>2 DEF SafeInv, Running, OnlyCurrentRuns, StopsCurrent, SomebodyWaits, InitPending, NeedsSdk, Ready, procVars, startVars, restartVars
    <2>2. CleanupStops'
        BY <1>2 DEF SafeInv, CleanupStops, StopsCurrent, SomebodyWaits, InitPending, NeedsSdk, Ready, procVars, startVars, restartVars
    <2>3. BootedIsCurrent'
        BY <1>2 DEF TypeOK, ObjectTypes, StepTypes, SafeInv, Running, Stoppers, GaveUp, OnlyCurrentRuns, CleanupStops, BootedIsCurrent, StopsCurrent, SomebodyWaits, InitPending, NeedsSdk, Ready, procVars, startVars, restartVars
    <2>4. StopsCurrent'
        BY <1>2 DEF StopsCurrent, SomebodyWaits, InitPending, NeedsSdk, Ready, procVars, startVars, restartVars
    <2>5. SomebodyWaits'
        BY <1>2 DEF SafeInv, StopsCurrent, SomebodyWaits, InitPending, NeedsSdk, Ready, procVars, startVars, restartVars
    <2>6. InitPending'
        BY <1>2 DEF SafeInv, StopsCurrent, SomebodyWaits, InitPending, NeedsSdk, Ready, procVars, startVars, restartVars
    <2>7. NeedsSdk'
        BY <1>2 DEF StopsCurrent, SomebodyWaits, InitPending, NeedsSdk, Ready, procVars, startVars, restartVars
    <2> QED
        BY <2>1, <2>2, <2>3, <2>4, <2>5, <2>6, <2>7 DEF SafeInv
<1>3. CASE StartSucceeds
    <2>1. OnlyCurrentRuns'
        BY <1>3 DEF SafeInv, Running, OnlyCurrentRuns, StopsCurrent, SomebodyWaits, InitPending, NeedsSdk, StartSucceeds, procVars, startVars, restartVars
    <2>2. CleanupStops'
        BY <1>3 DEF SafeInv, CleanupStops, StopsCurrent, SomebodyWaits, InitPending, NeedsSdk, StartSucceeds, procVars, startVars, restartVars
    <2>3. BootedIsCurrent'
        BY <1>3 DEF TypeOK, ObjectTypes, StepTypes, SafeInv, Running, Stoppers, GaveUp, OnlyCurrentRuns, CleanupStops, BootedIsCurrent, StopsCurrent, SomebodyWaits, InitPending, NeedsSdk, StartSucceeds, procVars, startVars, restartVars
    <2>4. StopsCurrent'
        BY <1>3 DEF StopsCurrent, SomebodyWaits, InitPending, NeedsSdk, StartSucceeds, procVars, startVars, restartVars
    <2>5. SomebodyWaits'
        BY <1>3 DEF StopsCurrent, SomebodyWaits, InitPending, NeedsSdk, StartSucceeds, procVars, startVars, restartVars
    <2>6. InitPending'
        BY <1>3 DEF SafeInv, StopsCurrent, SomebodyWaits, InitPending, NeedsSdk, StartSucceeds, procVars, startVars, restartVars
    <2>7. NeedsSdk'
        BY <1>3 DEF TypeOK, ObjectTypes, StepTypes, SafeInv, Running, Stoppers, GaveUp, OnlyCurrentRuns, CleanupStops, BootedIsCurrent, StopsCurrent, SomebodyWaits, InitPending, NeedsSdk, StartSucceeds, procVars, startVars, restartVars
    <2> QED
        BY <2>1, <2>2, <2>3, <2>4, <2>5, <2>6, <2>7 DEF SafeInv
<1>4. CASE StartTimeout
    <2>1. OnlyCurrentRuns'
        BY <1>4, NextAttemptTries DEF SafeInv, Running, OnlyCurrentRuns, SomebodyWaits, InitPending, NeedsSdk, StartTimeout, StartFails, InitFails, RestartFails, procVars, startVars, restartVars
    <2>2. CleanupStops'
        BY <1>4, NextAttemptTries DEF TypeOK, ObjectTypes, SafeInv, Running, Stoppers, CleanupStops, SomebodyWaits, InitPending, NeedsSdk, StartTimeout, StartFails, InitFails, RestartFails, procVars, startVars, restartVars
    <2>3. BootedIsCurrent'
        BY <1>4, NextAttemptTries DEF BootedIsCurrent, SomebodyWaits, InitPending, NeedsSdk, StartTimeout, StartFails, InitFails, RestartFails, procVars, startVars, restartVars
    <2>4. StopsCurrent'
        BY <1>4, NextAttemptTries DEF TypeOK, ObjectTypes, StepTypes, SafeInv, Running, Stoppers, OnlyCurrentRuns, CleanupStops, BootedIsCurrent, StopsCurrent, SomebodyWaits, InitPending, NeedsSdk, StartTimeout, StartFails, InitFails, RestartFails, procVars, startVars, restartVars
    <2>5. SomebodyWaits'
        BY <1>4, NextAttemptTries DEF SomebodyWaits, InitPending, NeedsSdk, StartTimeout, StartFails, InitFails, RestartFails, procVars, startVars, restartVars
    <2>6. InitPending'
        BY <1>4, NextAttemptTries DEF SafeInv, SomebodyWaits, InitPending, NeedsSdk, StartTimeout, StartFails, InitFails, RestartFails, procVars, startVars, restartVars
    <2>7. NeedsSdk'
        BY <1>4, NextAttemptTries DEF SafeInv, SomebodyWaits, InitPending, NeedsSdk, StartTimeout, StartFails, InitFails, RestartFails, procVars, startVars, restartVars
    <2> QED
        BY <2>1, <2>2, <2>3, <2>4, <2>5, <2>6, <2>7 DEF SafeInv
<1>5. CASE InitCommandFails
    <2>1. OnlyCurrentRuns'
        BY <1>5, NextAttemptTries DEF SafeInv, Running, OnlyCurrentRuns, SomebodyWaits, InitPending, NeedsSdk, InitCommandFails, StartFails, InitFails, RestartFails, procVars, startVars, restartVars
    <2>2. CleanupStops'
        BY <1>5, NextAttemptTries DEF TypeOK, ObjectTypes, SafeInv, Running, Stoppers, CleanupStops, SomebodyWaits, InitPending, NeedsSdk, InitCommandFails, StartFails, InitFails, RestartFails, procVars, startVars, restartVars
    <2>3. BootedIsCurrent'
        BY <1>5, NextAttemptTries DEF BootedIsCurrent, SomebodyWaits, InitPending, NeedsSdk, InitCommandFails, StartFails, InitFails, RestartFails, procVars, startVars, restartVars
    <2>4. StopsCurrent'
        BY <1>5, NextAttemptTries DEF TypeOK, ObjectTypes, StepTypes, SafeInv, Running, Stoppers, OnlyCurrentRuns, CleanupStops, BootedIsCurrent, StopsCurrent, SomebodyWaits, InitPending, NeedsSdk, InitCommandFails, StartFails, InitFails, RestartFails, procVars, startVars, restartVars
    <2>5. SomebodyWaits'
        BY <1>5, NextAttemptTries DEF SomebodyWaits, InitPending, NeedsSdk, InitCommandFails, StartFails, InitFails, RestartFails, procVars, startVars, restartVars
    <2>6. InitPending'
        BY <1>5, NextAttemptTries DEF SafeInv, SomebodyWaits, InitPending, NeedsSdk, InitCommandFails, StartFails, InitFails, RestartFails, procVars, startVars, restartVars
    <2>7. NeedsSdk'
        BY <1>5, NextAttemptTries DEF SafeInv, SomebodyWaits, InitPending, NeedsSdk, InitCommandFails, StartFails, InitFails, RestartFails, procVars, startVars, restartVars
    <2> QED
        BY <2>1, <2>2, <2>3, <2>4, <2>5, <2>6, <2>7 DEF SafeInv
<1>6. ASSUME NEW x \in Procs, StopEnds(x) PROVE SafeInv'
    <2>1. OnlyCurrentRuns'
        BY <1>6 DEF TypeOK, ObjectTypes, SafeInv, Running, OnlyCurrentRuns, StopsCurrent, SomebodyWaits, InitPending, NeedsSdk, StopEnds, Down, procVars, startVars, restartVars
    <2>2. CleanupStops'
        BY <1>6 DEF SafeInv, Running, CleanupStops, StopsCurrent, SomebodyWaits, InitPending, NeedsSdk, StopEnds, Down, procVars, startVars, restartVars
    <2>3. BootedIsCurrent'
        BY <1>6 DEF TypeOK, ObjectTypes, StepTypes, SafeInv, Running, Stoppers, GaveUp, OnlyCurrentRuns, CleanupStops, BootedIsCurrent, StopsCurrent, SomebodyWaits, InitPending, NeedsSdk, StopEnds, Down, procVars, startVars, restartVars
    <2>4. StopsCurrent'
        BY <1>6 DEF SafeInv, Running, StopsCurrent, SomebodyWaits, InitPending, NeedsSdk, StopEnds, Down, procVars, startVars, restartVars
    <2>5. SomebodyWaits'
        BY <1>6 DEF SafeInv, StopsCurrent, SomebodyWaits, InitPending, NeedsSdk, StopEnds, Down, procVars, startVars, restartVars
    <2>6. InitPending'
        BY <1>6 DEF SafeInv, StopsCurrent, SomebodyWaits, InitPending, NeedsSdk, StopEnds, Down, procVars, startVars, restartVars
    <2>7. NeedsSdk'
        BY <1>6 DEF SafeInv, GaveUp, OnlyCurrentRuns, StopsCurrent, SomebodyWaits, InitPending, NeedsSdk, StopEnds, Down, procVars, startVars, restartVars
    <2> QED
        BY <2>1, <2>2, <2>3, <2>4, <2>5, <2>6, <2>7 DEF SafeInv
<1>7. ASSUME NEW x \in Procs, Exits(x) PROVE SafeInv'
    <2>1. OnlyCurrentRuns'
        BY <1>7, NextAttemptTries DEF TypeOK, ObjectTypes, SafeInv, Running, OnlyCurrentRuns, SomebodyWaits, InitPending, NeedsSdk, Exits, HandleExit, Down, procVars, startVars, restartVars
    <2>2. CleanupStops'
        BY <1>7, NextAttemptTries DEF SafeInv, Running, CleanupStops, SomebodyWaits, InitPending, NeedsSdk, Exits, HandleExit, Down, procVars, startVars, restartVars
    <2>3. BootedIsCurrent'
        BY <1>7, NextAttemptTries DEF SafeInv, CleanupStops, BootedIsCurrent, SomebodyWaits, InitPending, NeedsSdk, Exits, HandleExit, Down, procVars, startVars, restartVars
    <2>4. StopsCurrent'
        BY <1>7, NextAttemptTries DEF TypeOK, ObjectTypes, StepTypes, SafeInv, Running, Stoppers, OnlyCurrentRuns, CleanupStops, BootedIsCurrent, StopsCurrent, SomebodyWaits, InitPending, NeedsSdk, Exits, HandleExit, Down, procVars, startVars, restartVars
    <2>5. SomebodyWaits'
        BY <1>7, NextAttemptTries DEF SafeInv, SomebodyWaits, InitPending, NeedsSdk, Exits, HandleExit, Down, procVars, startVars, restartVars
    <2>6. InitPending'
        BY <1>7, NextAttemptTries DEF SafeInv, SomebodyWaits, InitPending, NeedsSdk, Exits, HandleExit, Down, procVars, startVars, restartVars
    <2>7. NeedsSdk'
        BY <1>7, NextAttemptTries DEF TypeOK, ObjectTypes, SafeInv, Running, OnlyCurrentRuns, SomebodyWaits, InitPending, NeedsSdk, Exits, HandleExit, Down, procVars, startVars, restartVars
    <2> QED
        BY <2>1, <2>2, <2>3, <2>4, <2>5, <2>6, <2>7 DEF SafeInv
<1>8. ASSUME NEW x \in Procs, KilledExits(x) PROVE SafeInv'
    <2>1. OnlyCurrentRuns'
        BY <1>8, NextAttemptTries DEF SafeInv, Running, OnlyCurrentRuns, StopsCurrent, SomebodyWaits, InitPending, NeedsSdk, KilledExits, HandleExit, procVars, startVars, restartVars
    <2>2. CleanupStops'
        BY <1>8, NextAttemptTries DEF SafeInv, Running, CleanupStops, StopsCurrent, SomebodyWaits, InitPending, NeedsSdk, KilledExits, HandleExit, procVars, startVars, restartVars
    <2>3. BootedIsCurrent'
        BY <1>8, NextAttemptTries DEF TypeOK, ObjectTypes, StepTypes, SafeInv, Running, Stoppers, GaveUp, OnlyCurrentRuns, CleanupStops, BootedIsCurrent, StopsCurrent, SomebodyWaits, InitPending, NeedsSdk, KilledExits, HandleExit, procVars, startVars, restartVars
    <2>4. StopsCurrent'
        BY <1>8, NextAttemptTries DEF SafeInv, Running, StopsCurrent, SomebodyWaits, InitPending, NeedsSdk, KilledExits, HandleExit, procVars, startVars, restartVars
    <2>5. SomebodyWaits'
        BY <1>8, NextAttemptTries DEF SafeInv, StopsCurrent, SomebodyWaits, InitPending, NeedsSdk, KilledExits, HandleExit, procVars, startVars, restartVars
    <2>6. InitPending'
        BY <1>8, NextAttemptTries DEF SafeInv, StopsCurrent, SomebodyWaits, InitPending, NeedsSdk, KilledExits, HandleExit, procVars, startVars, restartVars
    <2>7. NeedsSdk'
        BY <1>8, NextAttemptTries DEF SafeInv, Running, GaveUp, StopsCurrent, SomebodyWaits, InitPending, NeedsSdk, KilledExits, HandleExit, procVars, startVars, restartVars
    <2> QED
        BY <2>1, <2>2, <2>3, <2>4, <2>5, <2>6, <2>7 DEF SafeInv
<1>9. CASE Initialize
    <2>1. OnlyCurrentRuns'
        BY <1>9 DEF TypeOK, ObjectTypes, SafeInv, Running, OnlyCurrentRuns, StopsCurrent, SomebodyWaits, InitPending, NeedsSdk, Initialize, StartSubprocess, Spawn, Unused, procVars, startVars, restartVars
    <2>2. CleanupStops'
        BY <1>9 DEF CleanupStops, StopsCurrent, SomebodyWaits, InitPending, NeedsSdk, Initialize, StartSubprocess, Spawn, Unused, procVars, startVars, restartVars
    <2>3. BootedIsCurrent'
        BY <1>9 DEF TypeOK, ObjectTypes, StepTypes, SafeInv, Running, Stoppers, GaveUp, OnlyCurrentRuns, CleanupStops, BootedIsCurrent, StopsCurrent, SomebodyWaits, InitPending, NeedsSdk, Initialize, StartSubprocess, Spawn, Unused, procVars, startVars, restartVars
    <2>4. StopsCurrent'
        BY <1>9 DEF TypeOK, ObjectTypes, SafeInv, Running, Stoppers, StopsCurrent, SomebodyWaits, InitPending, NeedsSdk, Initialize, StartSubprocess, Spawn, Unused, procVars, startVars, restartVars
    <2>5. SomebodyWaits'
        BY <1>9 DEF SafeInv, StopsCurrent, SomebodyWaits, InitPending, NeedsSdk, Initialize, StartSubprocess, Spawn, Unused, procVars, startVars, restartVars
    <2>6. InitPending'
        BY <1>9 DEF StopsCurrent, SomebodyWaits, InitPending, NeedsSdk, Initialize, StartSubprocess, Spawn, Unused, procVars, startVars, restartVars
    <2>7. NeedsSdk'
        BY <1>9 DEF StopsCurrent, SomebodyWaits, InitPending, NeedsSdk, Initialize, StartSubprocess, Spawn, Unused, procVars, startVars, restartVars
    <2> QED
        BY <2>1, <2>2, <2>3, <2>4, <2>5, <2>6, <2>7 DEF SafeInv
<1>10. CASE InitStopped
    <2>1. OnlyCurrentRuns'
        BY <1>10 DEF TypeOK, ObjectTypes, SafeInv, Running, OnlyCurrentRuns, StopsCurrent, SomebodyWaits, InitPending, NeedsSdk, InitStopped, StartSubprocess, Spawn, Unused, procVars, startVars, restartVars
    <2>2. CleanupStops'
        BY <1>10 DEF CleanupStops, StopsCurrent, SomebodyWaits, InitPending, NeedsSdk, InitStopped, StartSubprocess, Spawn, Unused, procVars, startVars, restartVars
    <2>3. BootedIsCurrent'
        BY <1>10 DEF TypeOK, ObjectTypes, StepTypes, SafeInv, Running, Stoppers, GaveUp, OnlyCurrentRuns, CleanupStops, BootedIsCurrent, StopsCurrent, SomebodyWaits, InitPending, NeedsSdk, InitStopped, StartSubprocess, Spawn, Unused, procVars, startVars, restartVars
    <2>4. StopsCurrent'
        BY <1>10 DEF TypeOK, ObjectTypes, SafeInv, Running, Stoppers, StopsCurrent, SomebodyWaits, InitPending, NeedsSdk, InitStopped, StartSubprocess, Spawn, Unused, procVars, startVars, restartVars
    <2>5. SomebodyWaits'
        BY <1>10 DEF StopsCurrent, SomebodyWaits, InitPending, NeedsSdk, InitStopped, StartSubprocess, Spawn, Unused, procVars, startVars, restartVars
    <2>6. InitPending'
        BY <1>10 DEF SafeInv, StopsCurrent, SomebodyWaits, InitPending, NeedsSdk, InitStopped, StartSubprocess, Spawn, Unused, procVars, startVars, restartVars
    <2>7. NeedsSdk'
        BY <1>10 DEF StopsCurrent, SomebodyWaits, InitPending, NeedsSdk, InitStopped, StartSubprocess, Spawn, Unused, procVars, startVars, restartVars
    <2> QED
        BY <2>1, <2>2, <2>3, <2>4, <2>5, <2>6, <2>7 DEF SafeInv
<1>11. CASE RestartWakes
    <2>1. OnlyCurrentRuns'
        BY <1>11 DEF TypeOK, ObjectTypes, SafeInv, Running, OnlyCurrentRuns, StopsCurrent, SomebodyWaits, InitPending, NeedsSdk, RestartWakes, StartSubprocess, Spawn, Unused, procVars, startVars, restartVars
    <2>2. CleanupStops'
        BY <1>11 DEF TypeOK, ObjectTypes, SafeInv, Running, Stoppers, OnlyCurrentRuns, CleanupStops, StopsCurrent, SomebodyWaits, InitPending, NeedsSdk, RestartWakes, StartSubprocess, Spawn, Unused, procVars, startVars, restartVars
    <2>3. BootedIsCurrent'
        BY <1>11 DEF TypeOK, ObjectTypes, StepTypes, SafeInv, Running, Stoppers, GaveUp, OnlyCurrentRuns, CleanupStops, BootedIsCurrent, StopsCurrent, SomebodyWaits, InitPending, NeedsSdk, RestartWakes, StartSubprocess, Spawn, Unused, procVars, startVars, restartVars
    <2>4. StopsCurrent'
        BY <1>11 DEF TypeOK, ObjectTypes, SafeInv, Running, Stoppers, StopsCurrent, SomebodyWaits, InitPending, NeedsSdk, RestartWakes, StartSubprocess, Spawn, Unused, procVars, startVars, restartVars
    <2>5. SomebodyWaits'
        BY <1>11 DEF StopsCurrent, SomebodyWaits, InitPending, NeedsSdk, RestartWakes, StartSubprocess, Spawn, Unused, procVars, startVars, restartVars
    <2>6. InitPending'
        BY <1>11 DEF SafeInv, StopsCurrent, SomebodyWaits, InitPending, NeedsSdk, RestartWakes, StartSubprocess, Spawn, Unused, procVars, startVars, restartVars
    <2>7. NeedsSdk'
        BY <1>11 DEF StopsCurrent, SomebodyWaits, InitPending, NeedsSdk, RestartWakes, StartSubprocess, Spawn, Unused, procVars, startVars, restartVars
    <2> QED
        BY <2>1, <2>2, <2>3, <2>4, <2>5, <2>6, <2>7 DEF SafeInv
<1>12. CASE Reconciled
    <2>1. OnlyCurrentRuns'
        BY <1>12 DEF SafeInv, Running, OnlyCurrentRuns, StopsCurrent, SomebodyWaits, InitPending, NeedsSdk, Reconciled, procVars, startVars, restartVars
    <2>2. CleanupStops'
        BY <1>12 DEF SafeInv, Running, CleanupStops, StopsCurrent, SomebodyWaits, InitPending, NeedsSdk, Reconciled, procVars, startVars, restartVars
    <2>3. BootedIsCurrent'
        BY <1>12 DEF TypeOK, ObjectTypes, StepTypes, SafeInv, Running, Stoppers, GaveUp, OnlyCurrentRuns, CleanupStops, BootedIsCurrent, StopsCurrent, SomebodyWaits, InitPending, NeedsSdk, Reconciled, procVars, startVars, restartVars
    <2>4. StopsCurrent'
        BY <1>12 DEF SafeInv, Running, StopsCurrent, SomebodyWaits, InitPending, NeedsSdk, Reconciled, procVars, startVars, restartVars
    <2>5. SomebodyWaits'
        BY <1>12 DEF SafeInv, StopsCurrent, SomebodyWaits, InitPending, NeedsSdk, Reconciled, procVars, startVars, restartVars
    <2>6. InitPending'
        BY <1>12 DEF SafeInv, StopsCurrent, SomebodyWaits, InitPending, NeedsSdk, Reconciled, procVars, startVars, restartVars
    <2>7. NeedsSdk'
        BY <1>12 DEF SafeInv, Running, GaveUp, StopsCurrent, SomebodyWaits, InitPending, NeedsSdk, Reconciled, procVars, startVars, restartVars
    <2> QED
        BY <2>1, <2>2, <2>3, <2>4, <2>5, <2>6, <2>7 DEF SafeInv
<1>13. CASE EnsureSubprocess
    <2>1. OnlyCurrentRuns'
        BY <1>13, NextAttemptTries DEF SafeInv, Running, OnlyCurrentRuns, SomebodyWaits, InitPending, NeedsSdk, EnsureSubprocess, procVars, startVars, restartVars
    <2>2. CleanupStops'
        BY <1>13, NextAttemptTries DEF SafeInv, CleanupStops, SomebodyWaits, InitPending, NeedsSdk, EnsureSubprocess, procVars, startVars, restartVars
    <2>3. BootedIsCurrent'
        BY <1>13, NextAttemptTries DEF BootedIsCurrent, SomebodyWaits, InitPending, NeedsSdk, EnsureSubprocess, procVars, startVars, restartVars
    <2>4. StopsCurrent'
        BY <1>13, NextAttemptTries DEF TypeOK, ObjectTypes, StepTypes, SafeInv, Running, Stoppers, OnlyCurrentRuns, CleanupStops, BootedIsCurrent, StopsCurrent, SomebodyWaits, InitPending, NeedsSdk, EnsureSubprocess, procVars, startVars, restartVars
    <2>5. SomebodyWaits'
        BY <1>13, NextAttemptTries DEF SomebodyWaits, InitPending, NeedsSdk, EnsureSubprocess, procVars, startVars, restartVars
    <2>6. InitPending'
        BY <1>13, NextAttemptTries DEF SafeInv, SomebodyWaits, InitPending, NeedsSdk, EnsureSubprocess, procVars, startVars, restartVars
    <2>7. NeedsSdk'
        BY <1>13, NextAttemptTries DEF SomebodyWaits, InitPending, NeedsSdk, EnsureSubprocess, procVars, startVars, restartVars
    <2> QED
        BY <2>1, <2>2, <2>3, <2>4, <2>5, <2>6, <2>7 DEF SafeInv
<1>14. CASE Shutdown
    <2>1. OnlyCurrentRuns'
        BY <1>14 DEF SafeInv, Running, OnlyCurrentRuns, StopsCurrent, SomebodyWaits, InitPending, NeedsSdk, Shutdown, procVars, startVars, restartVars
    <2>2. CleanupStops'
        BY <1>14 DEF TypeOK, ObjectTypes, SafeInv, Running, Stoppers, CleanupStops, StopsCurrent, SomebodyWaits, InitPending, NeedsSdk, Shutdown, procVars, startVars, restartVars
    <2>3. BootedIsCurrent'
        BY <1>14 DEF TypeOK, ObjectTypes, StepTypes, SafeInv, Running, Stoppers, GaveUp, OnlyCurrentRuns, CleanupStops, BootedIsCurrent, StopsCurrent, SomebodyWaits, InitPending, NeedsSdk, Shutdown, procVars, startVars, restartVars
    <2>4. StopsCurrent'
        BY <1>14 DEF TypeOK, ObjectTypes, SafeInv, Running, Stoppers, StopsCurrent, SomebodyWaits, InitPending, NeedsSdk, Shutdown, procVars, startVars, restartVars
    <2>5. SomebodyWaits'
        BY <1>14 DEF SafeInv, StopsCurrent, SomebodyWaits, InitPending, NeedsSdk, Shutdown, procVars, startVars, restartVars
    <2>6. InitPending'
        BY <1>14 DEF SafeInv, StopsCurrent, SomebodyWaits, InitPending, NeedsSdk, Shutdown, procVars, startVars, restartVars
    <2>7. NeedsSdk'
        BY <1>14 DEF SafeInv, GaveUp, StopsCurrent, SomebodyWaits, InitPending, NeedsSdk, Shutdown, procVars, startVars, restartVars
    <2> QED
        BY <2>1, <2>2, <2>3, <2>4, <2>5, <2>6, <2>7 DEF SafeInv
<1>15. CASE ShutdownStopped
    <2>1. OnlyCurrentRuns'
        BY <1>15 DEF SafeInv, Running, OnlyCurrentRuns, StopsCurrent, SomebodyWaits, InitPending, NeedsSdk, ShutdownStopped, procVars, startVars, restartVars
    <2>2. CleanupStops'
        BY <1>15 DEF SafeInv, Running, CleanupStops, StopsCurrent, SomebodyWaits, InitPending, NeedsSdk, ShutdownStopped, procVars, startVars, restartVars
    <2>3. BootedIsCurrent'
        BY <1>15 DEF TypeOK, ObjectTypes, StepTypes, SafeInv, Running, Stoppers, GaveUp, OnlyCurrentRuns, CleanupStops, BootedIsCurrent, StopsCurrent, SomebodyWaits, InitPending, NeedsSdk, ShutdownStopped, procVars, startVars, restartVars
    <2>4. StopsCurrent'
        BY <1>15 DEF SafeInv, Running, StopsCurrent, SomebodyWaits, InitPending, NeedsSdk, ShutdownStopped, procVars, startVars, restartVars
    <2>5. SomebodyWaits'
        BY <1>15 DEF SafeInv, StopsCurrent, SomebodyWaits, InitPending, NeedsSdk, ShutdownStopped, procVars, startVars, restartVars
    <2>6. InitPending'
        BY <1>15 DEF SafeInv, StopsCurrent, SomebodyWaits, InitPending, NeedsSdk, ShutdownStopped, procVars, startVars, restartVars
    <2>7. NeedsSdk'
        BY <1>15 DEF SafeInv, Running, GaveUp, StopsCurrent, SomebodyWaits, InitPending, NeedsSdk, ShutdownStopped, procVars, startVars, restartVars
    <2> QED
        BY <2>1, <2>2, <2>3, <2>4, <2>5, <2>6, <2>7 DEF SafeInv
<1>16. CASE BotExits
    <2>1. OnlyCurrentRuns'
        BY <1>16 DEF SafeInv, Running, OnlyCurrentRuns, StopsCurrent, SomebodyWaits, InitPending, NeedsSdk, BotExits, procVars, startVars, restartVars
    <2>2. CleanupStops'
        BY <1>16 DEF SafeInv, Running, CleanupStops, StopsCurrent, SomebodyWaits, InitPending, NeedsSdk, BotExits, procVars, startVars, restartVars
    <2>3. BootedIsCurrent'
        BY <1>16 DEF TypeOK, ObjectTypes, StepTypes, SafeInv, Running, Stoppers, GaveUp, OnlyCurrentRuns, CleanupStops, BootedIsCurrent, StopsCurrent, SomebodyWaits, InitPending, NeedsSdk, BotExits, procVars, startVars, restartVars
    <2>4. StopsCurrent'
        BY <1>16 DEF SafeInv, Running, StopsCurrent, SomebodyWaits, InitPending, NeedsSdk, BotExits, procVars, startVars, restartVars
    <2>5. SomebodyWaits'
        BY <1>16 DEF SafeInv, StopsCurrent, SomebodyWaits, InitPending, NeedsSdk, BotExits, procVars, startVars, restartVars
    <2>6. InitPending'
        BY <1>16 DEF SafeInv, StopsCurrent, SomebodyWaits, InitPending, NeedsSdk, BotExits, procVars, startVars, restartVars
    <2>7. NeedsSdk'
        BY <1>16 DEF SafeInv, Running, GaveUp, StopsCurrent, SomebodyWaits, InitPending, NeedsSdk, BotExits, procVars, startVars, restartVars
    <2> QED
        BY <2>1, <2>2, <2>3, <2>4, <2>5, <2>6, <2>7 DEF SafeInv
<1>17. CASE UNCHANGED vars
    BY <1>17 DEF SafeInv, Running, GaveUp, OnlyCurrentRuns, CleanupStops, BootedIsCurrent, StopsCurrent, SomebodyWaits, InitPending, NeedsSdk, vars, procVars, startVars, restartVars
<1> QED
    BY <1>1, <1>2, <1>3, <1>4, <1>5, <1>6, <1>7, <1>8, <1>9, <1>10, <1>11, <1>12, <1>13, <1>14, <1>15, <1>16, <1>17 DEF Next, StartNext, ProcNext

\* The inductive invariant, of which the two theorems below are parts.
THEOREM SafeInvariant == Spec => []SafeInv
<1>1. Init => SafeInv
    BY SafeInit
<1>2. TypeOK /\ SafeInv /\ [Next]_vars => SafeInv'
    BY SafeStep
<1> QED
    BY <1>1, <1>2, TypeCorrect, PTL DEF Spec

\* The comment at 1296: whatever initialize, the loop, the startup timer and
\* the shutdown do in whatever order, a second subprocess never runs.
THEOREM OneSubprocess == Spec => []OnlyCurrentRuns
<1>1. SafeInv => OnlyCurrentRuns
    BY DEF SafeInv
<1> QED
    BY <1>1, SafeInvariant, PTL

\* A call that _ensureInitialized (5796) lets through reaches a subprocess
\* that has answered its init command, unless the client has given up.
THEOREM PassingCallsReachSdk == Spec => []CallsReachSdk
<1>1. SafeInv => CallsReachSdk
    BY DEF SafeInv, NeedsSdk, CallsReachSdk, Passes
<1> QED
    BY <1>1, SafeInvariant, PTL

-----------------------------------------------------------------------------
(* What remains true of the restart budget and of the lock.                *)

\* A client that has given up is in no round of the loop.
RoundsAreOver == GaveUp => restartPc = "idle"

\* The client has given up, thinks that it is initialised, and has nothing
\* that runs and nobody who is starting something.
Lost == GaveUp /\ initialized /\ ~Running(current) /\ startPc = "idle"

\* The client stays given up, and no round of the loop begins.
StaysGivenUp == GaveUp' /\ restartPc' = "idle"

\* The lock goes only when a startup timer is awaiting the stop() of a
\* subprocess, and that subprocess goes.
TimerTakesLock == \E x \in timerStops : Running(x) /\ proc'[x] # "running"

\* Only a success, in a round of the loop, sets the number of attempts back.
LEMMA GiveUpStep == TypeOK /\ RoundsAreOver /\ GaveUp /\ [Next]_vars => StaysGivenUp
<1> SUFFICES ASSUME TypeOK, RoundsAreOver, GaveUp, [Next]_vars PROVE StaysGivenUp
    OBVIOUS
<1> USE SupervisorAssumption DEF StaysGivenUp
<1>1. restartPc = "idle"
    BY DEF RoundsAreOver
<1>2. CASE UNCHANGED restartVars
    BY <1>1, <1>2 DEF GaveUp, restartVars
<1>3. CASE NextAttempt
    BY <1>3 DEF TypeOK, CounterTypes, GaveUp, NextAttempt
<1>4. CASE StartNext
    <2>1. CASE StartSucceeds
        BY <1>1, <1>2, <2>1 DEF StartSucceeds
    <2>2. CASE StartTimeout \/ InitCommandFails
        BY <1>1, <1>2, <2>2 DEF StartTimeout, InitCommandFails, StartFails, RestartFails
    <2> QED
        BY <1>2, <1>4, <2>1, <2>2 DEF StartNext, StartStopped, Ready
<1>5. CASE ProcNext
    BY <1>2, <1>3, <1>5 DEF ProcNext, StopEnds, Exits, KilledExits, HandleExit
<1>6. CASE EnsureSubprocess
    BY <1>6 DEF EnsureSubprocess
<1>7. CASE RestartWakes \/ Reconciled
    BY <1>1, <1>7 DEF RestartWakes, Reconciled
<1>8. CASE Initialize \/ InitStopped \/ Shutdown \/ ShutdownStopped \/ BotExits \/ UNCHANGED vars
    BY <1>2, <1>8 DEF Initialize, InitStopped, Shutdown, ShutdownStopped, BotExits, vars
<1> QED
    BY <1>4, <1>5, <1>6, <1>7, <1>8 DEF Next

\* The number of attempts passes its maximum where the loop ends.
LEMMA RoundsStep == TypeOK /\ RoundsAreOver /\ [Next]_vars => RoundsAreOver'
<1> SUFFICES ASSUME TypeOK, RoundsAreOver, ~GaveUp, [Next]_vars PROVE RoundsAreOver'
    BY GiveUpStep DEF StaysGivenUp, RoundsAreOver
<1> USE SupervisorAssumption
<1>1. CASE UNCHANGED attempts
    BY <1>1 DEF GaveUp, RoundsAreOver
<1>2. CASE attempts' = 0
    BY <1>2 DEF GaveUp, RoundsAreOver
<1>3. CASE NextAttempt
    BY <1>3 DEF TypeOK, CounterTypes, GaveUp, NextAttempt, RoundsAreOver
<1>4. CASE StartNext
    BY <1>1, <1>2, <1>3, <1>4
    DEF StartNext, StartStopped, Ready, StartSucceeds, StartTimeout, InitCommandFails,
        StartFails, RestartFails, restartVars
<1>5. CASE ProcNext
    BY <1>1, <1>3, <1>5
    DEF ProcNext, StopEnds, Exits, KilledExits, HandleExit, restartVars
<1>6. CASE EnsureSubprocess
    BY <1>3, <1>6 DEF EnsureSubprocess
<1>7. CASE Initialize \/ InitStopped \/ RestartWakes \/ Reconciled
    BY <1>1, <1>7 DEF Initialize, InitStopped, RestartWakes, Reconciled, restartVars
<1>8. CASE Shutdown \/ ShutdownStopped \/ BotExits \/ UNCHANGED vars
    BY <1>1, <1>8 DEF Shutdown, ShutdownStopped, BotExits, vars, restartVars
<1> QED
    BY <1>4, <1>5, <1>6, <1>7, <1>8 DEF Next

LEMMA RoundsInvariant == Spec => []RoundsAreOver
<1>1. Init => RoundsAreOver
    BY DEF Init, RoundsAreOver
<1>2. TypeOK /\ RoundsAreOver /\ [Next]_vars => RoundsAreOver'
    BY RoundsStep
<1> QED
    BY <1>1, <1>2, TypeCorrect, PTL DEF Spec

\* The restart budget of _handleSubprocessExit (1332) is spent once: nothing
\* gives it back, neither initialize, nor a start that succeeds after all,
\* nor a caller of _ensureSubprocess.
THEOREM GivingUpIsFinal == Spec => [][GaveUp => StaysGivenUp]_vars
<1>1. TypeOK /\ RoundsAreOver /\ [Next]_vars => [GaveUp => StaysGivenUp]_vars
    BY GiveUpStep
<1> QED
    BY <1>1, TypeCorrect, RoundsInvariant, PTL DEF Spec

\* What is lost stays lost, but for a shutdown.
LEMMA LostStep ==
    TypeOK /\ SafeInv /\ RoundsAreOver /\ Lost /\ [Next]_vars /\ shutPc' = "idle" => Lost'
<1> SUFFICES ASSUME TypeOK, SafeInv, RoundsAreOver, Lost, [Next]_vars, shutPc' = "idle"
             PROVE  Lost'
    OBVIOUS
<1>1. GaveUp' /\ restartPc = "idle" /\ initPc = "idle"
    BY GiveUpStep DEF Lost, StaysGivenUp, RoundsAreOver, SafeInv, InitPending
<1>2. ASSUME UNCHANGED <<initialized, current, startPc>>,
             \A x \in Procs : Running(x)' => Running(x)
      PROVE  Lost'
    BY <1>1, <1>2 DEF Lost, Running, TypeOK, ObjectTypes
<1>3. CASE StartNext
    BY <1>3 DEF StartNext, StartStopped, Ready, StartSucceeds, StartTimeout,
                InitCommandFails, Lost
<1>4. CASE ProcNext
    <2> PICK x \in Procs : StopEnds(x) \/ Exits(x) \/ KilledExits(x)
        BY <1>4 DEF ProcNext
    <2>1. UNCHANGED <<initialized, current, startPc>>
        BY <1>1 DEF StopEnds, Exits, KilledExits, Down, startVars
    <2>2. \A y \in Procs : Running(y)' => Running(y)
        BY DEF StopEnds, Exits, KilledExits, Running, TypeOK, ObjectTypes
    <2> QED
        BY <1>2, <2>1, <2>2
<1>5. CASE Initialize \/ InitStopped \/ RestartWakes \/ EnsureSubprocess
    BY <1>1, <1>5 DEF Initialize, InitStopped, RestartWakes, EnsureSubprocess, Lost
<1>6. CASE Shutdown \/ ShutdownStopped \/ BotExits
    BY <1>6 DEF Shutdown, ShutdownStopped, BotExits
<1>7. CASE Reconciled \/ UNCHANGED vars
    BY <1>2, <1>7 DEF Reconciled, vars, procVars, startVars, Running
<1> QED
    BY <1>3, <1>4, <1>5, <1>6, <1>7 DEF Next

\* A client that has given up and still thinks that it is initialised gets no
\* subprocess any more: initialize returns at once, _ensureSubprocess sees
\* that the budget is spent, and only a shutdown leads out.  A restart of the
\* bot is what the message of _handleSubprocessExit asks for.
THEOREM LostUntilShutdown == Spec => [][Lost /\ shutPc' = "idle" => Lost']_vars
<1>1. TypeOK /\ SafeInv /\ RoundsAreOver /\ [Next]_vars
        => [Lost /\ shutPc' = "idle" => Lost']_vars
    BY LostStep
<1> QED
    BY <1>1, TypeCorrect, SafeInvariant, RoundsInvariant, PTL DEF Spec

LEMMA LockStep == TypeOK /\ [Next]_vars /\ lock /\ ~lock' => TimerTakesLock
<1> SUFFICES ASSUME TypeOK, [Next]_vars, lock, ~lock' PROVE TimerTakesLock
    OBVIOUS
<1>1. CASE UNCHANGED lock
    BY <1>1
<1>2. ASSUME NEW x \in Procs, StopEnds(x) PROVE TimerTakesLock
    <2>1. x \in timerStops
        BY <1>2 DEF StopEnds, Down, TypeOK, ObjectTypes
    <2>2. Running(x) /\ proc'[x] # "running"
        BY <1>2 DEF StopEnds, TypeOK, ObjectTypes
    <2> QED
        BY <2>1, <2>2 DEF TimerTakesLock
<1>3. ASSUME NEW x \in Procs, Exits(x) PROVE TimerTakesLock
    <2>1. x \in timerStops
        BY <1>3 DEF Exits, Down
    <2>2. Running(x) /\ proc'[x] # "running"
        BY <1>3 DEF Exits, TypeOK, ObjectTypes
    <2> QED
        BY <2>1, <2>2 DEF TimerTakesLock
<1>4. CASE StartNext
    BY <1>1, <1>4 DEF StartNext, StartStopped, Ready, StartSucceeds, StartTimeout,
                      InitCommandFails, StartFails
<1>5. CASE ProcNext
    BY <1>1, <1>2, <1>3, <1>5 DEF ProcNext, KilledExits
<1>6. CASE Initialize \/ InitStopped \/ RestartWakes \/ Reconciled \/ EnsureSubprocess
    BY <1>1, <1>6 DEF Initialize, InitStopped, RestartWakes, Reconciled, EnsureSubprocess
<1>7. CASE Shutdown \/ ShutdownStopped \/ BotExits \/ UNCHANGED vars
    BY <1>1, <1>7 DEF Shutdown, ShutdownStopped, BotExits, vars
<1> QED
    BY <1>4, <1>5, <1>6, <1>7 DEF Next

\* Of everything the supervision does, only the stop() that the startup timer
\* of SubprocessClient calls without awaiting it ends in the handler of
\* unhandled rejections, and releases the lock of a bot that runs on.
THEOREM OnlyTimerTakesLock == Spec => [][lock /\ ~lock' => TimerTakesLock]_vars
<1>1. TypeOK /\ [Next]_vars => [lock /\ ~lock' => TimerTakesLock]_vars
    BY LockStep
<1> QED
    BY <1>1, TypeCorrect, PTL DEF Spec

=============================================================================
