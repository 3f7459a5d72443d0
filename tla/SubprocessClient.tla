--------------------------- MODULE SubprocessClient ---------------------------
(***************************************************************************)
(* utils/drift-subprocess-client.js: the request side of the IPC with the  *)
(* Drift SDK subprocess.  send() is called by many callers; at most        *)
(* MaxInflight requests are with the subprocess, further ones queue, polls *)
(* of one kind share a queued request, every request has its own timer,    *)
(* and a circuit breaker refuses calls while the subprocess fails.         *)
(*                                                                         *)
(* An action is one turn of the event loop, with its microtasks.  A caller *)
(* is "idle" or waits for the promise of its send(); it may call again.    *)
(* Left out: the write error of line 246 (stdin.write does not throw while *)
(* this.process is set, and the parameters are plain JSON), and responses  *)
(* that come after the timer, which handleMessage drops.                   *)
(***************************************************************************)
EXTENDS Integers, Sequences, FiniteSets

CONSTANTS
    Callers,
    Actions,            \* the commands
    ActionOf,           \* the command each caller sends
    Coalescable,        \* COALESCE_ACTIONS
    MaxInflight,        \* MAX_INFLIGHT
    MaxQueue,           \* MAX_QUEUE
    FailureThreshold,   \* CIRCUIT_FAILURE_THRESHOLD
    SuccessThreshold,   \* CIRCUIT_SUCCESS_THRESHOLD
    OpenTime            \* CIRCUIT_HALF_OPEN_TIMEOUT

ASSUME SubprocessClientAssumption ==
    /\ ActionOf \in [Callers -> Actions]
    /\ Coalescable \subseteq Actions
    /\ MaxInflight \in Nat \ {0}
    /\ MaxQueue \in Nat
    /\ FailureThreshold \in Nat \ {0}
    /\ SuccessThreshold \in Nat \ {0}
    /\ OpenTime \in Nat

VARIABLES
    running,    \* this.process is set
    inflight,   \* pendingRequests: entries that were written to the subprocess
    queue,      \* requestQueue
    breaker,    \* the circuit breaker; wait is the time until circuitOpenUntil
    failed      \* history: requests that failed in a row, up to FailureThreshold

ipcVars == <<running, inflight, queue, breaker, failed>>

Entry == [action : Actions, callers : (SUBSET Callers) \ {{}}]
Queued == {queue[i] : i \in DOMAIN queue}
Entries == inflight \union Queued
Waiting == UNION {e.callers : e \in Entries}
Idle == Callers \ Waiting

TypeOK ==
    /\ running \in BOOLEAN
    /\ inflight \subseteq Entry
    /\ Cardinality(inflight) <= MaxInflight
    /\ queue \in Seq(Entry)
    /\ Len(queue) <= MaxQueue
    /\ breaker \in [state : {"closed", "open", "half_open"},
                    failures : 0 .. FailureThreshold - 1,
                    successes : 0 .. SuccessThreshold - 1,
                    wait : 0 .. OpenTime]
    /\ failed \in 0 .. FailureThreshold

FreshBreaker == [state |-> "closed", failures |-> 0, successes |-> 0, wait |-> 0]

Init ==
    /\ running = TRUE
    /\ inflight = {}
    /\ queue = <<>>
    /\ breaker = FreshBreaker
    /\ failed = 0

-----------------------------------------------------------------------------
(* The circuit breaker *)

\* Mutant: the count is compared with > instead of >=.
Failure_OffByOne(b) ==
    IF b.state = "half_open"
    THEN [state |-> "open", failures |-> 0, successes |-> 0, wait |-> OpenTime]
    ELSE IF b.failures + 1 > FailureThreshold
    THEN [b EXCEPT !.state = "open", !.failures = 0, !.wait = OpenTime]
    ELSE [b EXCEPT !.failures = @ + 1]

\* _recordFailure
Failure(b) ==
    IF b.state = "half_open"
    THEN [state |-> "open", failures |-> 0, successes |-> 0, wait |-> OpenTime]
    ELSE IF b.failures + 1 >= FailureThreshold
    THEN [b EXCEPT !.state = "open", !.failures = 0, !.wait = OpenTime]
    ELSE [b EXCEPT !.failures = @ + 1]

\* _recordSuccess: while open, a success changes nothing.
Success(b) ==
    CASE b.state = "half_open" ->
            IF b.successes + 1 >= SuccessThreshold
            THEN [b EXCEPT !.state = "closed", !.failures = 0, !.successes = 0]
            ELSE [b EXCEPT !.successes = @ + 1]
      [] b.state = "closed" ->
            [b EXCEPT !.failures = IF @ > 0 THEN @ - 1 ELSE 0]
      [] OTHER -> b

\* cleanup() resets the breaker, and only then do the microtasks of the n
\* requests it rejected record their failures.
AfterCleanup(n) ==
    IF n < FailureThreshold
    THEN [FreshBreaker EXCEPT !.failures = n]
    ELSE [FreshBreaker EXCEPT !.state = "open", !.failures = n % FailureThreshold,
                              !.wait = OpenTime]

\* Mutant: an open breaker is never probed.
Admits_NeverProbes == breaker.state # "open"

\* _checkCircuitBreaker: whether a call is let through, and the breaker after.
Admits == breaker.state = "open" => breaker.wait = 0
Probed ==
    IF breaker.state = "open"
    THEN [breaker EXCEPT !.state = "half_open", !.successes = 0]
    ELSE breaker

-----------------------------------------------------------------------------
(* The queue *)

\* Mutants: a slot that becomes free is not refilled; the queue is read
\* without being shifted.
ProcessQueue_Forgotten(in, q) ==
    /\ inflight' = in
    /\ queue' = q

ProcessQueue_Peeks(in, q) ==
    LET room == MaxInflight - Cardinality(in)
        n == IF room < Len(q) THEN room ELSE Len(q)
    IN  /\ inflight' = in \union {q[i] : i \in 1 .. n}
        /\ queue' = q

\* _processQueue: entries move to the subprocess while there is room.
ProcessQueue(in, q) ==
    LET room == MaxInflight - Cardinality(in)
        n == IF room < Len(q) THEN room ELSE Len(q)
    IN  /\ inflight' = in \union {q[i] : i \in 1 .. n}
        /\ queue' = SubSeq(q, n + 1, Len(q))

\* The place in the queue of a poll that a further poll can share.
Shared(action) == {i \in DOMAIN queue : action \in Coalescable /\ queue[i].action = action}

\* Mutant: polls are not shared.
Enqueue_NotShared(c) ==
    IF Len(queue) >= MaxQueue
    THEN UNCHANGED <<inflight, queue>>
    ELSE ProcessQueue(inflight, Append(queue, [action |-> ActionOf[c], callers |-> {c}]))

\* _enqueueRequest: rejected when the queue is full, even a poll that could
\* share a queued one.
Enqueue(c) ==
    LET action == ActionOf[c]
        entry == [action |-> action, callers |-> {c}]
    IN  IF Len(queue) >= MaxQueue
        THEN UNCHANGED <<inflight, queue>>
        ELSE IF Shared(action) # {}
        THEN /\ queue' = [i \in DOMAIN queue |->
                            IF i \in Shared(action)
                            THEN [queue[i] EXCEPT !.callers = @ \union {c}]
                            ELSE queue[i]]
             /\ UNCHANGED inflight
        ELSE ProcessQueue(inflight, Append(queue, entry))

-----------------------------------------------------------------------------

\* send(): refused by the breaker, queued, or written to the subprocess.  A
\* call without a subprocess, or refused by an open breaker, changes nothing.
Send(c) ==
    /\ running /\ c \in Idle /\ Admits
    /\ breaker' = Probed
    /\ IF Cardinality(inflight) >= MaxInflight \/ queue # <<>>
       THEN Enqueue(c)
       ELSE /\ inflight' = inflight \union {[action |-> ActionOf[c], callers |-> {c}]}
            /\ UNCHANGED queue
    /\ UNCHANGED <<running, failed>>

OneMoreFailed == IF failed < FailureThreshold THEN failed + 1 ELSE failed

\* A response: the promise settles and the queue moves on.  An error response
\* is neither a failure nor a success to the breaker, unless its text has the
\* word "terminated" (line 259).
Answers == {"success", "error", "terminated"}

Respond(e, answer) ==
    /\ running /\ e \in inflight
    /\ ProcessQueue(inflight \ {e}, queue)
    /\ breaker' = CASE answer = "success" -> Success(breaker)
                     [] answer = "error" -> breaker
                     [] answer = "terminated" -> Failure(breaker)
    /\ failed' = IF answer = "terminated" THEN OneMoreFailed ELSE 0
    /\ UNCHANGED running

\* The timer of a request: the failure is recorded by the timer and once more
\* by the catch of _dispatchRequest.
Timeout(e) ==
    /\ running /\ e \in inflight
    /\ ProcessQueue(inflight \ {e}, queue)
    /\ breaker' = Failure(Failure(breaker))
    /\ failed' = OneMoreFailed
    /\ UNCHANGED running

\* The subprocess exits: cleanup() rejects everything.
Exit ==
    /\ running
    /\ running' = FALSE
    /\ inflight' = {}
    /\ queue' = <<>>
    /\ breaker' = AfterCleanup(Cardinality(inflight))
    /\ failed' = 0

\* The Drift client replaces a client whose subprocess is gone by a new one.
Replace ==
    /\ ~running
    /\ running' = TRUE
    /\ breaker' = FreshBreaker
    /\ UNCHANGED <<inflight, queue, failed>>

Tick ==
    /\ breaker.wait > 0
    /\ breaker' = [breaker EXCEPT !.wait = @ - 1]
    /\ UNCHANGED <<running, inflight, queue, failed>>

Next ==
    \/ \E c \in Callers : Send(c)
    \/ \E e \in inflight, answer \in Answers : Respond(e, answer)
    \/ \E e \in inflight : Timeout(e)
    \/ Exit
    \/ Replace
    \/ Tick

Spec == Init /\ [][Next]_ipcVars

\* Every request has a timer, time passes, and the pollers keep polling.
TimesOut(c) == \E e \in inflight : c \in e.callers /\ Timeout(e)

FairSpec ==
    /\ Spec
    /\ \A c \in Callers : WF_ipcVars(TimesOut(c))
    /\ WF_ipcVars(Tick)
    /\ WF_ipcVars(Replace)
    /\ WF_ipcVars(\E c \in Callers : Send(c))

-----------------------------------------------------------------------------
(* Properties *)

\* No request waits in the queue while the subprocess could take it, whichever
\* way requests ended before (lines 176, 211, 238, 370).
WorkConserving == queue # <<>> => running /\ Cardinality(inflight) = MaxInflight

\* Nobody waits for two requests, and no two requests are the same entry: a
\* caller's promise is settled once (lines 166-177, 183-213, 266-277).
WaitsOnce ==
    /\ \A i, j \in DOMAIN queue : queue[i].callers \intersect queue[j].callers # {} => i = j
    /\ \A e \in inflight : \A i \in DOMAIN queue : e.callers \intersect queue[i].callers = {}
    /\ \A e, f \in inflight : e.callers \intersect f.callers # {} => e = f

\* Polls can not fill the queue: one of a kind is queued at a time (line 190).
PollsShareTheQueue ==
    \A i, j \in DOMAIN queue :
        queue[i].action = queue[j].action /\ queue[i].action \in Coalescable => i = j

\* Every send() settles, whatever the subprocess does.
SendSettles == \A c \in Callers : (c \in Waiting) ~> (c \in Idle)

\* The breaker does not stay open while callers keep calling.
BreakerRecovers == (breaker.state = "open") ~> (breaker.state # "open")

\* Line 66: "Open after 3 consecutive failures".
OpensAfterThreshold ==
    [][breaker.state = "closed" /\ breaker'.state = "open" /\ running'
         => failed' >= FailureThreshold]_ipcVars

=============================================================================
