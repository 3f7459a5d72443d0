---------------------------- MODULE InstanceLock ----------------------------
(***************************************************************************)
(* The singleton lock of the bot on Render: the table bot_instances        *)
(* (db.js), the boot sequence that takes the lock, the heartbeat that      *)
(* keeps it and the signal and error handlers that give it back (bot.js).  *)
(*                                                                         *)
(* Every process is one run of bot.js.  The three statements of            *)
(* acquireInstanceLock are separate steps: each is atomic in SQLite but no *)
(* transaction joins them, so those of two processes interleave.  The call *)
(* reads the clock once, before the first of them; no unit of time passes  *)
(* within it (a process the host suspends in the middle of it is not       *)
(* modelled), so that the row is new when it is written.  Date.now()       *)
(* differences are ages that stop growing past the threshold they are      *)
(* compared with.                                                          *)
(***************************************************************************)
EXTENDS Integers, FiniteSets

CONSTANTS
    Procs,              \* runs of bot.js
    StaleAfter,         \* staleThresholdMs, 60 s
    HeartbeatEvery,     \* the setInterval period, 30 s
    MaxAttempts,        \* maxRetries of acquireLock
    Faults              \* what may go wrong, a subset of FaultKinds

FaultKinds == {"kill", "stall", "rejection", "exception", "dbError"}

\* A heartbeat is due before the row it refreshes can be stale.
ASSUME InstanceLockAssumption ==
    /\ StaleAfter \in Nat
    /\ HeartbeatEvery \in Nat
    /\ HeartbeatEvery <= StaleAfter
    /\ MaxAttempts \in Nat \ {0}
    /\ Faults \subseteq FaultKinds

VARIABLES
    pc,         \* where each process is
    attempt,    \* the loop variable of acquireLock
    row,        \* its row: the age of last_heartbeat, or Absent
    beat,       \* time since its last heartbeat, Off without an interval
    asleep,     \* processes that are suspended or block their event loop
    faulty,     \* history: processes that were once asleep or lost the
                \* lock to an error handler
    late        \* history: processes whose last SELECT came between another
                \* one's SELECT and its INSERT

vars == <<pc, attempt, row, beat, asleep, faulty, late>>

Absent == -1
Off == -1

Booting == {"cleanup", "check", "insert", "contend", "wait"}
Owning == {"creating", "running", "stopping"}
Gone == {"exited", "killed"}

TypeOK ==
    /\ pc \in [Procs -> {"new", "dying"} \union Booting \union Owning \union Gone]
    /\ attempt \in [Procs -> 0 .. MaxAttempts]
    /\ row \in [Procs -> {Absent} \union 0 .. StaleAfter + 1]
    /\ beat \in [Procs -> {Off} \union 0 .. HeartbeatEvery]
    /\ asleep \subseteq Procs
    /\ faulty \subseteq Procs
    /\ late \subseteq Procs

Init ==
    /\ pc = [p \in Procs |-> "new"]
    /\ attempt = [p \in Procs |-> 0]
    /\ row = [p \in Procs |-> Absent]
    /\ beat = [p \in Procs |-> Off]
    /\ asleep = {}
    /\ faulty = {}
    /\ late = {}

-----------------------------------------------------------------------------
(* Boot *)

Goto(p, where) == pc' = [pc EXCEPT ![p] = where]

\* The rows a reader with the 60 s threshold takes for live instances.
LiveRows == {q \in Procs : row[q] \in 0 .. StaleAfter}

Start(p) ==
    /\ pc[p] = "new"
    /\ Goto(p, "cleanup")
    /\ attempt' = [attempt EXCEPT ![p] = 1]
    /\ UNCHANGED <<row, beat, asleep, faulty, late>>

\* DELETE FROM bot_instances WHERE last_heartbeat < staleThreshold
Cleanup(p) ==
    /\ pc[p] = "cleanup"
    /\ row' = [q \in Procs |-> IF row[q] > StaleAfter THEN Absent ELSE row[q]]
    /\ Goto(p, "check")
    /\ UNCHANGED <<attempt, beat, asleep, faulty, late>>

\* Mutant: the check is left out.
Check_Skipped(p) ==
    /\ pc[p] = "check"
    /\ Goto(p, "insert")
    /\ late' = IF \E q \in Procs : pc[q] = "insert" THEN late \union {p} ELSE late \ {p}
    /\ UNCHANGED <<attempt, row, beat, asleep, faulty>>

\* SELECT ... WHERE last_heartbeat >= staleThreshold LIMIT 1
Check(p) ==
    /\ pc[p] = "check"
    /\ Goto(p, IF LiveRows = {} THEN "insert" ELSE "contend")
    /\ late' = IF \E q \in Procs : pc[q] = "insert" THEN late \union {p} ELSE late \ {p}
    /\ UNCHANGED <<attempt, row, beat, asleep, faulty>>

\* INSERT: the primary key is the process's own instance id, so another
\* instance's row never makes it fail; the heartbeat starts right after it.
Insert(p) ==
    /\ pc[p] = "insert"
    /\ row' = [row EXCEPT ![p] = 0]
    /\ beat' = [beat EXCEPT ![p] = 0]
    /\ Goto(p, "creating")
    /\ UNCHANGED <<attempt, asleep, faulty, late>>

\* getActiveInstances and the branches on the youngest heartbeat.  Both the
\* "fresh" and the "stale but not expired" branch wait and try again; a row
\* that is exactly at the threshold falls through to the exit.
Contend(p) ==
    /\ pc[p] = "contend"
    /\ LET atThreshold == LiveRows # {} /\ \A q \in LiveRows : row[q] = StaleAfter
       IN  Goto(p, IF attempt[p] = MaxAttempts \/ atThreshold THEN "exited" ELSE "wait")
    /\ UNCHANGED <<attempt, row, beat, asleep, faulty, late>>

\* Mutant: the loop forgets to count.
TryAgain_NotCounted(p) ==
    /\ pc[p] = "wait"
    /\ Goto(p, "cleanup")
    /\ UNCHANGED <<attempt, row, beat, asleep, faulty, late>>

\* The retry delay is over.
TryAgain(p) ==
    /\ pc[p] = "wait"
    /\ attempt' = [attempt EXCEPT ![p] = @ + 1]
    /\ Goto(p, "cleanup")
    /\ UNCHANGED <<row, beat, asleep, faulty, late>>

\* Mutant: one attempt too many.
DbError_OffByOne(p) ==
    /\ "dbError" \in Faults
    /\ pc[p] \in {"cleanup", "check", "insert", "contend"}
    /\ Goto(p, IF attempt[p] > MaxAttempts THEN "exited" ELSE "wait")
    /\ UNCHANGED <<attempt, row, beat, asleep, faulty, late>>

\* A statement throws: another attempt, or exit after the last one.
DbError(p) ==
    /\ "dbError" \in Faults
    /\ pc[p] \in {"cleanup", "check", "insert", "contend"}
    /\ Goto(p, IF attempt[p] = MaxAttempts THEN "exited" ELSE "wait")
    /\ UNCHANGED <<attempt, row, beat, asleep, faulty, late>>

-----------------------------------------------------------------------------
(* Life with the lock *)

Awake(p) == p \notin asleep

\* releaseLock(): stop the heartbeat and delete the own row; when the DELETE
\* fails the error is only logged and the row stays.
ReleaseLock(p) ==
    /\ beat' = [beat EXCEPT ![p] = Off]
    /\ \/ row' = [row EXCEPT ![p] = Absent]
       \/ "dbError" \in Faults /\ UNCHANGED row

\* PerpsBot.create() and the set-up are done; bot.start() begins to trade.
Created(p) ==
    /\ pc[p] = "creating" /\ Awake(p)
    /\ Goto(p, "running")
    /\ UNCHANGED <<attempt, row, beat, asleep, faulty, late>>

\* PerpsBot.create() or bot.start() throws, or a signal arrives before the
\* full shutdown handler is in place: release and exit.
GiveUp(p) ==
    /\ pc[p] \in {"creating", "running"} /\ Awake(p)
    /\ ReleaseLock(p)
    /\ Goto(p, "exited")
    /\ UNCHANGED <<attempt, asleep, faulty, late>>

\* Mutant: the UPDATE finds no row to refresh.
Heartbeat_NoRefresh(p) ==
    /\ pc[p] \in Owning \union {"dying"} /\ Awake(p)
    /\ beat[p] = HeartbeatEvery
    /\ beat' = [beat EXCEPT ![p] = 0]
    /\ UNCHANGED <<pc, attempt, row, asleep, faulty, late>>

\* The interval fires.  A missing row is only warned about.
Heartbeat(p) ==
    /\ pc[p] \in Owning \union {"dying"} /\ Awake(p)
    /\ beat[p] = HeartbeatEvery
    /\ beat' = [beat EXCEPT ![p] = 0]
    /\ row' = [row EXCEPT ![p] = IF @ = Absent THEN Absent ELSE 0]
    /\ UNCHANGED <<pc, attempt, asleep, faulty, late>>

\* shutdown(): trading stops at once, the lock is released after the clients
\* have been stopped.
SigTerm(p) ==
    /\ pc[p] = "running" /\ Awake(p)
    /\ Goto(p, "stopping")
    /\ UNCHANGED <<attempt, row, beat, asleep, faulty, late>>

ShutdownDone(p) ==
    /\ pc[p] = "stopping" /\ Awake(p)
    /\ ReleaseLock(p)
    /\ Goto(p, "exited")
    /\ UNCHANGED <<attempt, asleep, faulty, late>>

\* uncaughtException: the handler registered at boot releases the lock.  While
\* the bot is being created it is the only one and nothing exits; later a
\* second handler exits after it has notified.
UncaughtException(p) ==
    /\ "exception" \in Faults
    /\ pc[p] \in Owning /\ Awake(p)
    /\ ReleaseLock(p)
    /\ faulty' = faulty \union {p}
    /\ IF pc[p] = "creating" THEN UNCHANGED pc ELSE Goto(p, "dying")
    /\ UNCHANGED <<attempt, asleep, late>>

\* The second handler is done: it releases once more and exits.
Die(p) ==
    /\ pc[p] = "dying" /\ Awake(p)
    /\ ReleaseLock(p)
    /\ Goto(p, "exited")
    /\ UNCHANGED <<attempt, asleep, faulty, late>>

\* unhandledRejection: the handler registered at boot releases the lock, the
\* one registered later only reports, and the process goes on.
UnhandledRejection(p) ==
    /\ "rejection" \in Faults
    /\ pc[p] \in Owning /\ Awake(p)
    /\ ReleaseLock(p)
    /\ faulty' = faulty \union {p}
    /\ UNCHANGED <<pc, attempt, asleep, late>>

-----------------------------------------------------------------------------
(* The environment *)

\* The container is killed: nothing runs, the row stays.
Kill(p) ==
    /\ "kill" \in Faults
    /\ pc[p] \notin Gone \union {"new"}
    /\ Goto(p, "killed")
    /\ beat' = [beat EXCEPT ![p] = Off]
    /\ asleep' = asleep \ {p}
    /\ UNCHANGED <<attempt, row, faulty, late>>

\* The host suspends the process, or a long computation blocks its loop.
Stall(p) ==
    /\ "stall" \in Faults
    /\ pc[p] \in Owning /\ Awake(p)
    /\ asleep' = asleep \union {p}
    /\ faulty' = faulty \union {p}
    /\ UNCHANGED <<pc, attempt, row, beat, late>>

WakeUp(p) ==
    /\ p \in asleep
    /\ asleep' = asleep \ {p}
    /\ UNCHANGED <<pc, attempt, row, beat, faulty, late>>

\* One unit of time.  It waits for the heartbeats that are due in processes
\* that can run them.  None passes within acquireInstanceLock, which awaits
\* nothing.
Tick ==
    /\ \A p \in Procs : pc[p] \notin {"check", "insert"}
    /\ \A p \in Procs : Awake(p) => beat[p] < HeartbeatEvery
    /\ row' = [p \in Procs |->
                 IF row[p] \in 0 .. StaleAfter THEN row[p] + 1 ELSE row[p]]
    /\ beat' = [p \in Procs |->
                  IF beat[p] \in 0 .. HeartbeatEvery - 1 THEN beat[p] + 1 ELSE beat[p]]
    /\ UNCHANGED <<pc, attempt, asleep, faulty, late>>

-----------------------------------------------------------------------------

BootStep(p) ==
    \/ Cleanup(p) \/ Check(p) \/ Insert(p) \/ Contend(p) \/ TryAgain(p) \/ DbError(p)

LifeStep(p) ==
    \/ Created(p) \/ GiveUp(p) \/ Heartbeat(p) \/ SigTerm(p) \/ ShutdownDone(p)
    \/ UncaughtException(p) \/ Die(p) \/ UnhandledRejection(p)

EnvStep(p) == Start(p) \/ Kill(p) \/ Stall(p) \/ WakeUp(p)

Next == Tick \/ \E p \in Procs : BootStep(p) \/ LifeStep(p) \/ EnvStep(p)

Spec == Init /\ [][Next]_vars

\* A process that boots keeps running its code, and the others keep time.
FairSpec ==
    /\ Spec
    /\ \A p \in Procs : WF_vars(BootStep(p))

-----------------------------------------------------------------------------
(* Properties *)

Healthy == Procs \ faulty

\* A process that never stalled and never lost the lock to an error handler
\* has its row, and no reader can take that row for stale: the heartbeat
\* outpaces the 60 s threshold whatever the others do.
HealthyOwnerHasLiveRow ==
    \A p \in Healthy : pc[p] \in Owning => row[p] \in 0 .. StaleAfter

\* The check and the insert are two statements, and only that can break the
\* lock: two healthy processes never own it together, however their boots
\* interleave with each other, with kills, stalls and failing statements,
\* unless the second one's SELECT fell between the other's SELECT and INSERT
\* (db.js:1258-1300 with bot.js:11966-12066).
HealthyExclusion ==
    \A p, q \in Healthy \ late : pc[p] \in Owning /\ pc[q] \in Owning => p = q

\* Every boot ends: with the lock, with an exit or by a kill.
BootSettles == \A p \in Procs : (pc[p] \in Booting) ~> (pc[p] \notin Booting)

\* docs/PRD.md FR-12: no two engine processes trade at the same time.
SingleTrader ==
    \A p, q \in Procs \ asleep : pc[p] = "running" /\ pc[q] = "running" => p = q

\* bot.js:12821-12822: after an unhandled rejection the process keeps running
\* and keeps the lock until it exits.
TraderHoldsRow == \A p \in Procs : pc[p] = "running" => row[p] # Absent

=============================================================================
