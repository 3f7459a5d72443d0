------------------------ MODULE SubprocessSupervisor ------------------------
(***************************************************************************)
(* How the Drift client starts, stops and restarts its subprocess:         *)
(* initialize, _startSubprocess, _handleSubprocessExit, _ensureSubprocess, *)
(* shutdown and, of the subprocess client, start, stop and the exit event. *)
(*                                                                         *)
(* initialize, _startSubprocess, the restart loop and shutdown each run at *)
(* most once at a time (_initPromise, _subprocessStartPromise and          *)
(* _subprocessRestartPromise make later callers wait for the first), so    *)
(* each has one program counter; a step lies between two awaits.           *)
(***************************************************************************)
EXTENDS Naturals, FiniteSets

CONSTANTS
    MaxRestarts,    \* DRIFT_SUBPROCESS_MAX_RESTARTS
    Procs,          \* subprocesses; a dead one that nobody refers to is used again
    None,           \* no subprocess
    MaxFaults       \* bound: exits, startup timeouts and failed init commands

ASSUME SupervisorAssumption ==
    MaxRestarts \in Nat /\ MaxFaults \in Nat /\ None \notin Procs

VARIABLES
    proc,       \* proc[x]: running, killed (its exit event is due) or dead
    sdk,        \* those that have answered the init command with success
    booted,     \* the one that _startSubprocess has spawned and waits for
    current,    \* this.subprocess
    marks,      \* _expectedExitSubprocesses
    initialized,\* this.initialized
    initPc,     \* the await of initialize
    startPc,    \* the await of _startSubprocess
    restartPc,  \* the await of the restart loop of _handleSubprocessExit
    shutPc,     \* the await of shutdown; exited: the bot has exited
    target,     \* target[w]: the subprocess whose stop() procedure w awaits
    timerStops, \* subprocesses whose startup timer awaits a stop() of its own
    lateStops,  \* those of them that another stop() had been called on before
    attempts,   \* _restartAttempts
    lock,       \* the bot holds its instance lock
    faults      \* history: faults so far

procVars == <<proc, sdk, current>>
startVars == <<startPc, booted, timerStops, lateStops>>
restartVars == <<restartPc, attempts>>
vars == <<procVars, marks, initialized, initPc, startVars, restartVars, shutPc,
          target, lock, faults>>

Stoppers == {"init", "start", "shutdown"}

ObjectTypes ==
    /\ proc \in [Procs -> {"running", "killed", "dead"}]
    /\ sdk \subseteq Procs /\ marks \subseteq Procs
    /\ current \in Procs \cup {None} /\ booted \in Procs \cup {None}
    /\ target \in [Stoppers -> Procs \cup {None}]
    /\ timerStops \subseteq Procs /\ lateStops \subseteq timerStops

StepTypes ==
    /\ initPc \in {"idle", "stopping", "starting", "cleanup"}
    /\ startPc \in {"idle", "stopping", "booting", "init"}
    /\ restartPc \in {"idle", "sleep", "starting", "reconciling"}
    /\ shutPc \in {"idle", "stopping", "done", "exited"}

FlagTypes == initialized \in BOOLEAN /\ lock \in BOOLEAN

CounterTypes == attempts \in 0 .. MaxRestarts + 1 /\ faults \in 0 .. MaxFaults

TypeOK == ObjectTypes /\ StepTypes /\ FlagTypes /\ CounterTypes

\* x is an object whose process field is set.
Running(x) == x # None /\ proc[x] = "running"

GaveUp == attempts > MaxRestarts

Init ==
    /\ proc = [x \in Procs |-> "dead"] /\ sdk = {} /\ current = None /\ booted = None
    /\ marks = {} /\ initialized = FALSE
    /\ initPc = "idle" /\ startPc = "idle" /\ restartPc = "idle" /\ shutPc = "idle"
    /\ target = [w \in Stoppers |-> None] /\ timerStops = {} /\ lateStops = {}
    /\ attempts = 0 /\ lock = TRUE /\ faults = 0

-----------------------------------------------------------------------------
(* _startSubprocess.                                                       *)

Unused == {x \in Procs \ {current, booted} :
              proc[x] = "dead" /\ \A w \in Stoppers : target[w] # x}

\* m: the marks that are left; a new object has none.
Spawn(m) ==
    \E x \in Unused :
        /\ proc' = [proc EXCEPT ![x] = "running"]
        /\ sdk' = sdk \ {x} /\ marks' = m \ {x}
        /\ current' = x /\ booted' = x
        /\ startPc' = "booting"

\* Called while it runs, it makes the caller wait for the call under way.
\* m and t: marks and targets as the caller leaves them.
StartSubprocess(m, t) ==
    IF startPc # "idle"
    THEN marks' = m /\ target' = t /\ UNCHANGED <<procVars, startPc, booted>>
    ELSE IF Running(current)
    THEN /\ marks' = m \cup {current}
         /\ target' = [t EXCEPT !["start"] = current]
         /\ startPc' = "stopping"
         /\ UNCHANGED <<procVars, booted>>
    ELSE Spawn(m) /\ target' = t

StartStopped ==
    /\ startPc = "stopping" /\ ~Running(target["start"])
    /\ target' = [target EXCEPT !["start"] = None]
    /\ Spawn(marks \ {target["start"]})
    /\ UNCHANGED <<initialized, initPc, timerStops, lateStops, restartVars, shutPc,
                   lock, faults>>

\* The ready event ends start(); the init command is sent.
Ready ==
    /\ startPc = "booting" /\ Running(booted)
    /\ startPc' = "init"
    /\ UNCHANGED <<procVars, marks, initialized, initPc, booted, timerStops, lateStops,
                   restartVars, shutPc, target, lock, faults>>

NextAttempt_NoLimit == attempts' = attempts + 1 /\ restartPc' = "sleep"

\* The loop: one more attempt after a delay, or none any more.
NextAttempt ==
    IF attempts < MaxRestarts
    THEN attempts' = attempts + 1 /\ restartPc' = "sleep"
    ELSE attempts' = MaxRestarts + 1 /\ restartPc' = "idle"

\* Whoever waits for the start: initialize and the loop.
StartSucceeds ==
    /\ startPc = "init" /\ Running(booted)
    /\ startPc' = "idle" /\ booted' = None
    /\ sdk' = sdk \cup {booted}
    /\ IF initPc = "starting"
       THEN initPc' = "idle" /\ initialized' = TRUE
       ELSE UNCHANGED <<initPc, initialized>>
    /\ IF restartPc = "starting"
       THEN restartPc' = "reconciling" /\ attempts' = 0
       ELSE UNCHANGED restartVars
    /\ UNCHANGED <<proc, current, marks, timerStops, lateStops, shutPc, target,
                   lock, faults>>

InitFails_ForgetsSubprocess ==
    IF initPc # "starting" THEN UNCHANGED <<initPc, current, marks, target, initialized>>
    ELSE /\ initPc' = "idle" /\ current' = None /\ initialized' = FALSE
         /\ UNCHANGED <<marks, target>>

\* The catch of initialize stops what it has started.
InitFails ==
    IF initPc # "starting" THEN UNCHANGED <<initPc, current, marks, target, initialized>>
    ELSE IF Running(current)
    THEN /\ initPc' = "cleanup"
         /\ marks' = marks \cup {current}
         /\ target' = [target EXCEPT !["init"] = current]
         /\ UNCHANGED <<current, initialized>>
    ELSE /\ initPc' = "idle" /\ current' = None /\ initialized' = FALSE
         /\ UNCHANGED <<marks, target>>

RestartFails_StopsTrying ==
    IF restartPc = "starting" THEN restartPc' = "idle" /\ UNCHANGED attempts
    ELSE UNCHANGED restartVars

RestartFails ==
    IF restartPc = "starting" THEN NextAttempt ELSE UNCHANGED restartVars

StartFails ==
    /\ startPc' = "idle" /\ booted' = None
    /\ InitFails
    /\ RestartFails
    /\ UNCHANGED <<proc, sdk, shutPc, lock>>

\* Ten seconds without the ready event: the timer rejects and calls stop()
\* without awaiting it.  An exit meanwhile has not ended start() earlier.
StartTimeout ==
    /\ startPc = "booting"
    /\ IF Running(booted)
       THEN /\ faults < MaxFaults /\ faults' = faults + 1
            /\ timerStops' = timerStops \cup {booted}
            /\ lateStops' = IF \E w \in Stoppers : target[w] = booted
                            THEN lateStops \cup {booted} ELSE lateStops
       ELSE UNCHANGED <<faults, timerStops, lateStops>>
    /\ StartFails

\* The init command fails, times out, or is rejected by cleanup().
InitCommandFails ==
    /\ startPc = "init"
    /\ IF Running(booted) THEN faults < MaxFaults /\ faults' = faults + 1
       ELSE UNCHANGED faults
    /\ StartFails
    /\ UNCHANGED <<timerStops, lateStops>>

-----------------------------------------------------------------------------
(* stop() and the exit event.                                              *)

\* Down(x): what the awaits of stop() do when the process of x is gone: the
\* catch of initialize forgets the subprocess; a stop() that finds no
\* process to kill throws, which nobody catches in the timer, and the
\* handler of unhandled rejections releases the lock of the bot.
Down(x, thrown) ==
    /\ timerStops' = timerStops \ {x} /\ lateStops' = lateStops \ {x}
    /\ lock' = (lock /\ x \notin thrown)
    /\ IF initPc = "cleanup" /\ target["init"] = x
       THEN /\ initPc' = "idle" /\ current' = None /\ initialized' = FALSE
            /\ target' = [target EXCEPT !["init"] = None]
       ELSE UNCHANGED <<initPc, current, initialized, target>>

\* The shutdown command is answered or times out: kill() and cleanup().
StopEnds(x) ==
    /\ Running(x)
    /\ x \in timerStops \/ \E w \in Stoppers : target[w] = x
    /\ proc' = [proc EXCEPT ![x] = "killed"]
    /\ Down(x, lateStops)
    /\ marks' = IF initPc = "cleanup" /\ target["init"] = x THEN marks \ {current} ELSE marks
    /\ UNCHANGED <<sdk, startPc, booted, restartVars, shutPc, faults>>

\* The exit event, for an object that is still the current one.
HandleExit(x) ==
    IF current # x THEN UNCHANGED <<marks, restartVars>>
    ELSE IF x \in marks THEN marks' = marks \ {x} /\ UNCHANGED restartVars
    ELSE /\ UNCHANGED marks
         /\ IF restartPc = "idle" THEN NextAttempt ELSE UNCHANGED restartVars

\* The subprocess exits by itself.
Exits(x) ==
    /\ Running(x) /\ faults < MaxFaults
    /\ faults' = faults + 1
    /\ proc' = [proc EXCEPT ![x] = "dead"]
    /\ HandleExit(x)
    /\ Down(x, timerStops)
    /\ UNCHANGED <<sdk, startPc, booted, shutPc>>

\* The exit event of a subprocess that was killed.
KilledExits(x) ==
    /\ proc[x] = "killed"
    /\ proc' = [proc EXCEPT ![x] = "dead"]
    /\ HandleExit(x)
    /\ UNCHANGED <<sdk, current, initialized, initPc, startVars, shutPc, target,
                   lock, faults>>

-----------------------------------------------------------------------------
(* initialize, the loop and the callers of _ensureInitialized.             *)

Initialize ==
    /\ ~initialized /\ initPc = "idle" /\ shutPc = "idle"
    /\ IF Running(current)
       THEN /\ initPc' = "stopping"
            /\ marks' = marks \cup {current}
            /\ target' = [target EXCEPT !["init"] = current]
            /\ UNCHANGED <<procVars, startPc, booted>>
       ELSE initPc' = "starting" /\ StartSubprocess(marks, target)
    /\ UNCHANGED <<initialized, timerStops, lateStops, restartVars, shutPc, lock, faults>>

InitStopped ==
    /\ initPc = "stopping" /\ ~Running(target["init"])
    /\ initPc' = "starting"
    /\ StartSubprocess(marks \ {current}, [target EXCEPT !["init"] = None])
    /\ UNCHANGED <<initialized, timerStops, lateStops, restartVars, shutPc, lock, faults>>

\* The delay of the attempt is over.
RestartWakes ==
    /\ restartPc = "sleep"
    /\ restartPc' = "starting"
    /\ StartSubprocess(marks, target)
    /\ UNCHANGED <<initialized, initPc, timerStops, lateStops, attempts, shutPc, lock, faults>>

\* _reconcileState has ended, however it went; subprocessRestarted is emitted.
Reconciled ==
    /\ restartPc = "reconciling"
    /\ restartPc' = "idle"
    /\ UNCHANGED <<procVars, marks, initialized, initPc, startVars, attempts, shutPc, target,
                   lock, faults>>

EnsureSubprocess_LooksAtTheObject ==
    /\ initialized /\ restartPc = "idle" /\ startPc = "idle" /\ shutPc = "idle"
    /\ current = None /\ ~GaveUp
    /\ NextAttempt
    /\ UNCHANGED <<procVars, marks, initialized, initPc, startVars, shutPc, target,
                   lock, faults>>

\* A caller that needs the subprocess finds none, and nobody starting one.
EnsureSubprocess ==
    /\ initialized /\ restartPc = "idle" /\ startPc = "idle" /\ shutPc = "idle"
    /\ ~Running(current) /\ ~GaveUp
    /\ NextAttempt
    /\ UNCHANGED <<procVars, marks, initialized, initPc, startVars, shutPc, target,
                   lock, faults>>

-----------------------------------------------------------------------------
(* shutdown, and the end of the bot some seconds later.                    *)

Shutdown ==
    /\ shutPc = "idle"
    /\ IF Running(current)
       THEN /\ shutPc' = "stopping"
            /\ marks' = marks \cup {current}
            /\ target' = [target EXCEPT !["shutdown"] = current]
            /\ UNCHANGED initialized
       ELSE /\ shutPc' = "done"
            /\ marks' = marks \ {current}
            /\ initialized' = FALSE
            /\ UNCHANGED target
    /\ UNCHANGED <<procVars, initPc, startVars, restartVars, lock, faults>>

\* stop() has returned, or has thrown: then shutdown leaves here.
ShutdownStopped ==
    /\ shutPc = "stopping" /\ ~Running(target["shutdown"])
    /\ shutPc' = "done"
    /\ target' = [target EXCEPT !["shutdown"] = None]
    /\ \/ marks' = marks \ {current} /\ initialized' = FALSE
       \/ UNCHANGED <<marks, initialized>>
    /\ UNCHANGED <<procVars, initPc, startVars, restartVars, lock, faults>>

BotExits ==
    /\ shutPc = "done"
    /\ shutPc' = "exited"
    /\ UNCHANGED <<procVars, marks, initialized, initPc, startVars, restartVars, target,
                   lock, faults>>

StartNext == StartStopped \/ Ready \/ StartSucceeds \/ StartTimeout \/ InitCommandFails

ProcNext == \E x \in Procs : StopEnds(x) \/ Exits(x) \/ KilledExits(x)

Next ==
    /\ shutPc # "exited"
    /\ \/ StartNext \/ ProcNext
       \/ Initialize \/ InitStopped \/ RestartWakes \/ Reconciled \/ EnsureSubprocess
       \/ Shutdown \/ ShutdownStopped \/ BotExits

\* Timers run out, commands are answered or time out, and the position sync
\* calls _ensureInitialized every five minutes; nothing makes a fault happen.
Fairness ==
    /\ WF_vars(StartStopped) /\ WF_vars(Ready) /\ WF_vars(StartSucceeds)
    /\ WF_vars(StartTimeout /\ ~Running(booted))
    /\ WF_vars(InitCommandFails /\ ~Running(booted))
    /\ WF_vars(Initialize) /\ WF_vars(InitStopped) /\ WF_vars(RestartWakes)
    /\ WF_vars(Reconciled) /\ WF_vars(EnsureSubprocess)
    /\ \A x \in Procs : WF_vars(StopEnds(x)) /\ WF_vars(KilledExits(x))

Spec == Init /\ [][Next]_vars /\ Fairness

-----------------------------------------------------------------------------
(* Properties.                                                             *)

\* The client's comment at 1296: no two subprocesses overlap.  One that has
\* not been killed is the one the client knows and can stop.
OnlyCurrentRuns == \A x \in Procs : Running(x) => x = current

\* A call that gets past _ensureInitialized without waiting.
Passes == initialized /\ restartPc = "idle" /\ startPc = "idle" /\ Running(current)

\* The subprocess such a call reaches has its SDK initialised, unless the
\* client has given up restarting.  (One without answers with empty lists.)
CallsReachSdk == Passes /\ ~GaveUp => current \in sdk

\* Unless it gave up or was told to shut down, the client always comes back
\* to a subprocess that works, also when an exit was overlooked.
ComesBack == []<>((Passes /\ current \in sdk) \/ GaveUp \/ shutPc # "idle")

\* The comment at 370: an exit of a subprocess that was stopped on purpose
\* is not treated as a crash.
StoppedIsNotCrashed ==
    [][\A x \in Procs : proc[x] = "killed" /\ proc'[x] = "dead"
           => UNCHANGED restartVars]_vars

\* The comment at 12821 of bot.js: an unhandled rejection does not release
\* the lock; only the exit of the process does.
LockKeptWhileRunning == shutPc # "exited" => lock

\* The comment at 1332: an exit starts the loop.
CrashIsRestarted ==
    initialized /\ ~Running(current) /\ shutPc = "idle"
        => restartPc # "idle" \/ startPc # "idle" \/ GaveUp

=============================================================================
