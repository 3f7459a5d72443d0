------------------------ MODULE SubprocessClientProofs ------------------------
(***************************************************************************)
(* Proofs that no request waits without need, that nobody waits twice,     *)
(* that polls share their place, and that the client implements the        *)
(* promises of Promises, for any callers, window and queue; and that no    *)
(* request overtakes another that was queued before it.                    *)
(***************************************************************************)
EXTENDS SubprocessClient, FiniteSetTheorems, SequenceTheorems, TLAPS

IInv ==
    /\ TypeOK /\ IsFiniteSet(inflight)
    /\ WorkConserving /\ WaitsOnce /\ PollsShareTheQueue

-----------------------------------------------------------------------------
(* The ways in which requests move.                                        *)

New(c) == [action |-> ActionOf[c], callers |-> {c}]

\* A request of an idle caller goes to the subprocess at once.
Dispatches(c) ==
    /\ c \in Idle /\ running /\ running'
    /\ queue = <<>> /\ queue' = <<>>
    /\ Cardinality(inflight) < MaxInflight
    /\ inflight' = inflight \union {New(c)}

\* It waits at the end of the queue.
Appends(c) ==
    /\ c \in Idle /\ running /\ running'
    /\ Len(queue) < MaxQueue /\ Cardinality(inflight) = MaxInflight
    /\ Shared(ActionOf[c]) = {}
    /\ queue' = Append(queue, New(c))
    /\ inflight' = inflight

\* It joins a poll that is queued.
Joins(c) ==
    /\ c \in Idle /\ running /\ running'
    /\ Shared(ActionOf[c]) # {}
    /\ queue' = [i \in DOMAIN queue |->
                    IF i \in Shared(ActionOf[c])
                    THEN [queue[i] EXCEPT !.callers = @ \union {c}]
                    ELSE queue[i]]
    /\ inflight' = inflight

\* A request ends, and the first of the queue takes its slot, if there is one.
Leaves(e) ==
    /\ e \in inflight /\ running /\ running'
    /\ queue = <<>> /\ queue' = <<>>
    /\ inflight' = inflight \ {e}

IsReplaced(e) ==
    /\ e \in inflight /\ running /\ running'
    /\ queue # <<>> /\ queue' = Tail(queue)
    /\ inflight' = (inflight \ {e}) \union {queue[1]}

Stays == UNCHANGED <<inflight, queue>> /\ (running => running')

Empties == ~running' /\ inflight' = {} /\ queue' = <<>>

Moves ==
    \/ \E c \in Callers : Dispatches(c) \/ Appends(c) \/ Joins(c)
    \/ \E e \in inflight : Leaves(e) \/ IsReplaced(e)
    \/ Stays \/ Empties

-----------------------------------------------------------------------------

LEMMA Limits == MaxInflight \in Nat \ {0} /\ MaxQueue \in Nat
BY SubprocessClientAssumption DEF SubprocessClientAssumption

\* What the type of the queue says of its entries.
LEMMA QueueTypes ==
    ASSUME TypeOK
    PROVE  /\ Len(queue) \in Nat
           /\ DOMAIN queue = 1 .. Len(queue)
           /\ queue \in [1 .. Len(queue) -> Entry]
           /\ (queue # <<>>) => (1 \in DOMAIN queue)
<1>1. queue \in Seq(Entry)
    BY DEF TypeOK
<1> QED
    BY <1>1, LenProperties, EmptySeq

LEMMA NewTypes ==
    ASSUME NEW c \in Callers
    PROVE  New(c) \in Entry /\ New(c).callers = {c} /\ New(c).action = ActionOf[c]
<1>1. ActionOf[c] \in Actions
    BY SubprocessClientAssumption DEF SubprocessClientAssumption
<1> QED
    BY <1>1 DEF New, Entry

\* An idle caller is in no entry.
LEMMA IdleIsNowhere ==
    ASSUME NEW c \in Idle
    PROVE  /\ c \in Callers
           /\ \A e \in inflight : c \notin e.callers
           /\ \A i \in DOMAIN queue : c \notin queue[i].callers
BY DEF Idle, Waiting, Entries, Queued

\* A queue that has entries is beside a full window.
LEMMA FullWindow ==
    ASSUME IInv, Cardinality(inflight) >= MaxInflight \/ queue # <<>>
    PROVE  Cardinality(inflight) = MaxInflight
<1>1. Cardinality(inflight) \in Nat /\ Cardinality(inflight) <= MaxInflight
    BY FS_CardinalityType DEF IInv, TypeOK
<1> QED
    BY <1>1, Limits DEF IInv, WorkConserving

-----------------------------------------------------------------------------
(* Every step moves requests in one of these ways.                         *)

LEMMA SendMoves ==
    ASSUME IInv, NEW c \in Callers, Send(c)
    PROVE  Dispatches(c) \/ Appends(c) \/ Joins(c) \/ Stays
<1>1. c \in Idle /\ running /\ running' = running
    BY DEF Send
<1>2. CASE ~(Cardinality(inflight) >= MaxInflight \/ queue # <<>>)
    <2>1. Cardinality(inflight) \in Nat
        BY FS_CardinalityType DEF IInv
    <2>2. inflight' = inflight \union {New(c)} /\ queue' = queue
        BY <1>2 DEF Send, New
    <2> QED
        BY <1>1, <1>2, <2>1, <2>2, Limits DEF Dispatches
<1>3. CASE Cardinality(inflight) >= MaxInflight \/ queue # <<>>
    <2>1. Enqueue(c)
        BY <1>3 DEF Send
    <2>2. Cardinality(inflight) = MaxInflight
        BY <1>3, FullWindow
    <2>3. CASE Len(queue) >= MaxQueue
        BY <1>1, <2>1, <2>3 DEF Enqueue, Stays
    <2>4. CASE ~(Len(queue) >= MaxQueue) /\ Shared(ActionOf[c]) # {}
        BY <1>1, <2>1, <2>4 DEF Enqueue, Joins
    <2>5. CASE ~(Len(queue) >= MaxQueue) /\ Shared(ActionOf[c]) = {}
        <3> DEFINE longer == Append(queue, New(c))
        <3>1. ProcessQueue(inflight, longer)
            BY <2>1, <2>5 DEF Enqueue, New
        <3>2. longer \in Seq(Entry) /\ Len(longer) = Len(queue) + 1 /\ Len(queue) \in Nat
            BY NewTypes, QueueTypes DEF IInv, TypeOK
        <3>3. inflight' = inflight \union {longer[i] : i \in 1 .. 0}
              /\ queue' = SubSeq(longer, 1, Len(longer))
            <4> HIDE DEF longer
            <4> QED
                BY <2>2, <3>1, <3>2, Limits DEF ProcessQueue
        <3>4. inflight' = inflight /\ queue' = longer
            BY <3>2, <3>3, SubSeqFull
        <3> QED
            BY <1>1, <2>2, <2>5, <3>2, <3>4, Limits DEF Appends
    <2> QED
        BY <2>3, <2>4, <2>5
<1> QED
    BY <1>2, <1>3

\* _processQueue moves the first n entries when n is the room or all there are.
LEMMA Shifts ==
    ASSUME NEW in, NEW q, NEW n, ProcessQueue(in, q),
           n = IF MaxInflight - Cardinality(in) < Len(q)
               THEN MaxInflight - Cardinality(in) ELSE Len(q)
    PROVE  inflight' = in \union {q[i] : i \in 1 .. n} /\ queue' = SubSeq(q, n + 1, Len(q))
BY DEF ProcessQueue

LEMMA AtLeastOne ==
    ASSUME NEW room \in Int, NEW n \in Nat, room = 1, n >= 1
    PROVE  1 = IF room < n THEN room ELSE n
OBVIOUS

LEMMA EndMoves ==
    ASSUME IInv, NEW e \in inflight, running, running' = running,
           ProcessQueue(inflight \ {e}, queue)
    PROVE  Leaves(e) \/ IsReplaced(e)
<1> DEFINE rest == inflight \ {e}
<1>1. Cardinality(rest) = Cardinality(inflight) - 1 /\ Cardinality(inflight) \in Nat
    BY FS_RemoveElement, FS_CardinalityType DEF IInv
<1>2. Cardinality(inflight) <= MaxInflight
    BY DEF IInv, TypeOK
<1>3. Len(queue) \in Nat /\ queue \in Seq(Entry)
    BY QueueTypes DEF IInv, TypeOK
<1>6. ProcessQueue(rest, queue)
    OBVIOUS
<1>7. ASSUME NEW n \in Nat,
             n = IF MaxInflight - Cardinality(rest) < Len(queue)
                 THEN MaxInflight - Cardinality(rest) ELSE Len(queue)
      PROVE  /\ inflight' = rest \union {queue[i] : i \in 1 .. n}
             /\ queue' = SubSeq(queue, n + 1, Len(queue))
    <2> HIDE DEF rest
    <2> QED
        BY <1>6, <1>7, Shifts
<1>4. CASE queue = <<>>
    <2>1. Len(queue) = 0
        BY <1>4
    <2>2. 0 = IF MaxInflight - Cardinality(rest) < Len(queue)
              THEN MaxInflight - Cardinality(rest) ELSE Len(queue)
        <3> HIDE DEF rest
        <3> QED
            BY <1>1, <1>2, <2>1, Limits
    <2>4. inflight' = rest \union {queue[i] : i \in 1 .. 0} /\ queue' = SubSeq(queue, 1, Len(queue))
        <3>1. inflight' = rest \union {queue[i] : i \in 1 .. 0}
              /\ queue' = SubSeq(queue, 0 + 1, Len(queue))
            <4> HIDE DEF rest
            <4> QED
                BY <2>2, <1>7
        <3> QED
            BY <3>1
    <2>3. SubSeq(queue, 1, Len(queue)) = <<>>
        BY <1>3, <1>4, SubSeqFull
    <2> QED
        BY <1>4, <2>3, <2>4 DEF Leaves
<1>5. CASE queue # <<>>
    <2>1. Cardinality(inflight) = MaxInflight
        BY <1>5, FullWindow
    <2>2. Len(queue) >= 1
        BY <1>3, <1>5, EmptySeq
    <2>3. inflight' = rest \union {queue[i] : i \in 1 .. 1}
          /\ queue' = SubSeq(queue, 2, Len(queue))
        <3>1. 1 = IF MaxInflight - Cardinality(rest) < Len(queue)
                  THEN MaxInflight - Cardinality(rest) ELSE Len(queue)
            <4> HIDE DEF rest
            <4>1. MaxInflight - Cardinality(rest) = 1
                BY <1>1, <2>1, Limits
            <4>2. Len(queue) \in Nat
                BY <1>3
            <4> QED
                BY <4>1, <4>2, <2>2, AtLeastOne
        <3>2. inflight' = rest \union {queue[i] : i \in 1 .. 1}
              /\ queue' = SubSeq(queue, 1 + 1, Len(queue))
            <4> HIDE DEF rest
            <4> QED
                BY <3>1, <1>7
        <3> QED
            BY <3>2
    <2>4. {queue[i] : i \in 1 .. 1} = {queue[1]}
        OBVIOUS
    <2>5. queue' = Tail(queue)
        BY <1>3, <1>5, <2>3, TailIsSubSeq
    <2> QED
        BY <1>5, <2>3, <2>4, <2>5 DEF IsReplaced
<1> QED
    BY <1>4, <1>5

LEMMA NextMoves == ASSUME IInv, [Next]_ipcVars PROVE Moves
<1>1. CASE \E c \in Callers : Send(c)
    BY <1>1, SendMoves DEF Moves
<1>2. CASE \E e \in inflight, answer \in Answers : Respond(e, answer)
    BY <1>2, EndMoves DEF Moves, Respond
<1>3. CASE \E e \in inflight : Timeout(e)
    BY <1>3, EndMoves DEF Moves, Timeout
<1>4. CASE Exit
    BY <1>4 DEF Exit, Moves, Empties
<1>5. CASE Replace
    BY <1>5 DEF Replace, Moves, Stays
<1>6. CASE Tick
    BY <1>6 DEF Tick, Moves, Stays
<1>7. CASE UNCHANGED ipcVars
    BY <1>7 DEF ipcVars, Moves, Stays
<1> QED
    BY <1>1, <1>2, <1>3, <1>4, <1>5, <1>6, <1>7 DEF Next
-----------------------------------------------------------------------------
(* The breaker counts below its thresholds.                                *)

Breakers == [state : {"closed", "open", "half_open"},
             failures : 0 .. FailureThreshold - 1,
             successes : 0 .. SuccessThreshold - 1,
             wait : 0 .. OpenTime]

LEMMA Thresholds ==
    FailureThreshold \in Nat \ {0} /\ SuccessThreshold \in Nat \ {0} /\ OpenTime \in Nat
BY SubprocessClientAssumption DEF SubprocessClientAssumption

LEMMA FreshTypes == FreshBreaker \in Breakers
BY Thresholds DEF FreshBreaker, Breakers

LEMMA FieldTypes ==
    ASSUME NEW b \in Breakers
    PROVE  /\ b.state \in {"closed", "open", "half_open"}
           /\ b.failures \in 0 .. FailureThreshold - 1
           /\ b.successes \in 0 .. SuccessThreshold - 1
           /\ b.wait \in 0 .. OpenTime
BY DEF Breakers

LEMMA FailureTypes == ASSUME NEW b \in Breakers PROVE Failure(b) \in Breakers
<1>1. CASE b.state = "half_open"
    BY <1>1, Thresholds DEF Failure, Breakers
<1>2. CASE b.state # "half_open" /\ b.failures + 1 >= FailureThreshold
    <2>1. Failure(b) = [b EXCEPT !.state = "open", !.failures = 0, !.wait = OpenTime]
        BY <1>2 DEF Failure
    <2>2. 0 \in 0 .. FailureThreshold - 1 /\ OpenTime \in 0 .. OpenTime
        BY Thresholds
    <2> QED
        BY <2>1, <2>2 DEF Breakers
<1>3. CASE b.state # "half_open" /\ ~(b.failures + 1 >= FailureThreshold)
    <2>1. Failure(b) = [b EXCEPT !.failures = @ + 1]
        BY <1>3 DEF Failure
    <2>2. b.failures + 1 \in 0 .. FailureThreshold - 1
        BY <1>3, FieldTypes, Thresholds
    <2> QED
        BY <2>1, <2>2 DEF Breakers
<1> QED
    BY <1>1, <1>2, <1>3

LEMMA SuccessTypes == ASSUME NEW b \in Breakers PROVE Success(b) \in Breakers
<1>1. CASE b.state = "half_open"
    <2>1. 0 \in 0 .. FailureThreshold - 1 /\ 0 \in 0 .. SuccessThreshold - 1
        BY Thresholds
    <2>2. CASE b.successes + 1 >= SuccessThreshold
        <3>1. Success(b) = [b EXCEPT !.state = "closed", !.failures = 0, !.successes = 0]
            BY <1>1, <2>2 DEF Success
        <3> QED
            BY <2>1, <3>1 DEF Breakers
    <2>3. CASE ~(b.successes + 1 >= SuccessThreshold)
        <3>1. Success(b) = [b EXCEPT !.successes = @ + 1]
            BY <1>1, <2>3 DEF Success
        <3>2. b.successes + 1 \in 0 .. SuccessThreshold - 1
            BY <2>3, FieldTypes, Thresholds
        <3> QED
            BY <3>1, <3>2 DEF Breakers
    <2> QED
        BY <2>2, <2>3
<1>2. CASE b.state = "closed"
    <2>1. Success(b) = [b EXCEPT !.failures = IF @ > 0 THEN @ - 1 ELSE 0]
        BY <1>2 DEF Success
    <2>2. (IF b.failures > 0 THEN b.failures - 1 ELSE 0) \in 0 .. FailureThreshold - 1
        BY FieldTypes, Thresholds
    <2> QED
        BY <2>1, <2>2 DEF Breakers
<1>3. CASE b.state = "open"
    BY <1>3 DEF Success
<1> QED
    BY <1>1, <1>2, <1>3 DEF Breakers

LEMMA CleanupTypes == ASSUME NEW n \in Nat PROVE AfterCleanup(n) \in Breakers
<1>1. n % FailureThreshold \in 0 .. FailureThreshold - 1
    BY Thresholds
<1>2. CASE n < FailureThreshold
    <2>1. AfterCleanup(n) = [FreshBreaker EXCEPT !.failures = n]
        BY <1>2 DEF AfterCleanup
    <2>2. n \in 0 .. FailureThreshold - 1
        BY <1>2, Thresholds
    <2> QED
        BY <2>1, <2>2, FreshTypes DEF Breakers
<1>3. CASE ~(n < FailureThreshold)
    <2>1. AfterCleanup(n) = [FreshBreaker EXCEPT !.state = "open",
                               !.failures = n % FailureThreshold, !.wait = OpenTime]
        BY <1>3 DEF AfterCleanup
    <2>2. OpenTime \in 0 .. OpenTime
        BY Thresholds
    <2> QED
        BY <1>1, <2>1, <2>2, FreshTypes DEF Breakers
<1> QED
    BY <1>2, <1>3

LEMMA BreakerTypes ==
    ASSUME IInv, [Next]_ipcVars
    PROVE  breaker' \in Breakers /\ failed' \in 0 .. FailureThreshold /\ running' \in BOOLEAN
<1>1. breaker \in Breakers /\ failed \in 0 .. FailureThreshold /\ running \in BOOLEAN
    BY DEF IInv, TypeOK, Breakers
<1>2. ASSUME NEW c \in Callers, Send(c) PROVE breaker' \in Breakers
    <2>1. 0 \in 0 .. SuccessThreshold - 1
        BY Thresholds
    <2>2. Probed \in Breakers
        BY <1>1, <2>1 DEF Probed, Breakers
    <2> QED
        BY <1>2, <2>2 DEF Send
<1>0. OneMoreFailed \in 0 .. FailureThreshold
    BY <1>1, Thresholds DEF OneMoreFailed
<1>3. ASSUME NEW e \in inflight, NEW answer \in Answers, Respond(e, answer)
      PROVE  breaker' \in Breakers
    BY <1>1, <1>3, SuccessTypes, FailureTypes DEF Respond, Answers
<1>4. ASSUME NEW e \in inflight, Timeout(e)
      PROVE  breaker' \in Breakers /\ failed' \in 0 .. FailureThreshold
    <2>1. breaker' \in Breakers
        BY <1>1, <1>4, FailureTypes DEF Timeout
    <2>2. failed' \in 0 .. FailureThreshold
        BY <1>0, <1>4 DEF Timeout
    <2> QED
        BY <2>1, <2>2
<1>5. ASSUME Exit PROVE breaker' \in Breakers
    BY <1>5, CleanupTypes, FS_CardinalityType DEF Exit, IInv
<1>6. ASSUME Tick PROVE breaker' \in Breakers
    BY <1>1, <1>6, Thresholds DEF Tick, Breakers
<1>7. 0 \in 0 .. FailureThreshold
    BY Thresholds
<1>8. CASE \E c \in Callers : Send(c)
    BY <1>1, <1>2, <1>8 DEF Send
<1>9. CASE \E e \in inflight, answer \in Answers : Respond(e, answer)
    BY <1>0, <1>1, <1>3, <1>7, <1>9 DEF Respond
<1>10. CASE \E e \in inflight : Timeout(e)
    BY <1>1, <1>4, <1>10 DEF Timeout
<1>11. CASE Exit
    BY <1>5, <1>7, <1>11 DEF Exit
<1>12. CASE Replace
    BY <1>1, <1>12, FreshTypes DEF Replace
<1>13. CASE Tick
    BY <1>1, <1>6, <1>13 DEF Tick
<1>14. CASE UNCHANGED ipcVars
    BY <1>1, <1>14 DEF ipcVars
<1> QED
    BY <1>8, <1>9, <1>10, <1>11, <1>12, <1>13, <1>14 DEF Next

-----------------------------------------------------------------------------
(* Every move keeps what is said of the requests.                          *)

Requests ==
    /\ IsFiniteSet(inflight) /\ inflight \subseteq Entry
    /\ Cardinality(inflight) <= MaxInflight
    /\ queue \in Seq(Entry) /\ Len(queue) <= MaxQueue
    /\ WorkConserving /\ WaitsOnce /\ PollsShareTheQueue

LEMMA DispatchKeeps == ASSUME IInv, NEW c \in Callers, Dispatches(c) PROVE Requests'
<1>1. New(c) \in Entry /\ New(c).callers = {c}
    BY NewTypes
<1>2. IsFiniteSet(inflight') /\ inflight' \subseteq Entry
    BY <1>1, FS_AddElement DEF IInv, TypeOK, Dispatches
<1>3. Cardinality(inflight') <= MaxInflight
    <2>1. Cardinality(inflight') <= Cardinality(inflight) + 1
        <3>1. CASE New(c) \in inflight
            <4>1. inflight' = inflight
                BY <3>1 DEF Dispatches
            <4> QED
                BY <4>1, FS_CardinalityType DEF IInv
        <3>2. CASE New(c) \notin inflight
            <4>1. Cardinality(inflight') = Cardinality(inflight) + 1
                BY <3>2, FS_AddElement DEF IInv, Dispatches
            <4> QED
                BY <4>1, FS_CardinalityType DEF IInv
        <3> QED
            BY <3>1, <3>2
    <2>2. Cardinality(inflight) \in Nat /\ Cardinality(inflight') \in Nat
        BY <1>2, FS_CardinalityType DEF IInv
    <2> QED
        BY <2>1, <2>2, Limits DEF Dispatches
<1>4. queue' = <<>> /\ queue' \in Seq(Entry) /\ Len(queue') <= MaxQueue /\ DOMAIN queue' = {}
    BY Limits DEF IInv, TypeOK, Dispatches
<1>5. WorkConserving' /\ PollsShareTheQueue'
    BY <1>4 DEF WorkConserving, PollsShareTheQueue
<1>6. WaitsOnce'
    <2>1. \A e \in inflight : c \notin e.callers
        BY IdleIsNowhere DEF Dispatches
    <2>2. \A e, f \in inflight : e.callers \intersect f.callers # {} => e = f
        BY DEF IInv, WaitsOnce
    <2>3. \A e, f \in inflight' : e.callers \intersect f.callers # {} => e = f
        BY <1>1, <2>1, <2>2 DEF Dispatches
    <2> QED
        BY <1>4, <2>3 DEF WaitsOnce
<1> QED
    BY <1>2, <1>3, <1>4, <1>5, <1>6 DEF Requests

LEMMA AppendKeeps == ASSUME IInv, NEW c \in Callers, Appends(c) PROVE Requests'
<1>1. New(c) \in Entry /\ New(c).callers = {c} /\ New(c).action = ActionOf[c]
    BY NewTypes
<1>2. Len(queue) \in Nat /\ DOMAIN queue = 1 .. Len(queue) /\ queue \in Seq(Entry)
    BY QueueTypes DEF IInv, TypeOK
<1>3. /\ queue' \in Seq(Entry) /\ Len(queue') = Len(queue) + 1
      /\ DOMAIN queue' = 1 .. Len(queue) + 1
      /\ \A i \in 1 .. Len(queue) : queue'[i] = queue[i]
      /\ queue'[Len(queue) + 1] = New(c)
    BY <1>1, <1>2, AppendProperties DEF Appends
<1>4. Len(queue') <= MaxQueue
    BY <1>2, <1>3, Limits DEF Appends
<1>5. inflight' = inflight
    BY DEF Appends
<1>6. WorkConserving'
    BY <1>5 DEF Appends, WorkConserving
<1>7. WaitsOnce'
    <2>1. /\ \A e \in inflight : c \notin e.callers
          /\ \A i \in 1 .. Len(queue) : c \notin queue[i].callers
        BY <1>2, IdleIsNowhere DEF Appends
    <2>2. ASSUME NEW i \in DOMAIN queue', NEW j \in DOMAIN queue',
                 queue'[i].callers \intersect queue'[j].callers # {}
          PROVE  i = j
        <3>1. CASE i \in 1 .. Len(queue) /\ j \in 1 .. Len(queue)
            BY <1>2, <1>3, <2>2, <3>1 DEF IInv, WaitsOnce
        <3>2. CASE i = Len(queue) + 1 /\ j \in 1 .. Len(queue)
            BY <1>1, <1>3, <2>1, <2>2, <3>2
        <3>3. CASE i \in 1 .. Len(queue) /\ j = Len(queue) + 1
            BY <1>1, <1>3, <2>1, <2>2, <3>3
        <3> QED
            BY <1>2, <1>3, <3>1, <3>2, <3>3
    <2>3. ASSUME NEW e \in inflight', NEW i \in DOMAIN queue'
          PROVE  e.callers \intersect queue'[i].callers = {}
        <3>1. CASE i \in 1 .. Len(queue)
            BY <1>2, <1>3, <1>5, <3>1 DEF IInv, WaitsOnce
        <3>2. CASE i = Len(queue) + 1
            BY <1>1, <1>3, <1>5, <2>1, <3>2
        <3> QED
            BY <1>2, <1>3, <3>1, <3>2
    <2> QED
        BY <1>5, <2>2, <2>3 DEF IInv, WaitsOnce
<1>8. PollsShareTheQueue'
    <2>1. \A i \in 1 .. Len(queue) : ActionOf[c] \in Coalescable => queue[i].action # ActionOf[c]
        BY <1>2 DEF Appends, Shared
    <2> SUFFICES ASSUME NEW i \in DOMAIN queue', NEW j \in DOMAIN queue',
                        queue'[i].action = queue'[j].action, queue'[i].action \in Coalescable
                 PROVE  i = j
        BY DEF PollsShareTheQueue
    <2>2. CASE i \in 1 .. Len(queue) /\ j \in 1 .. Len(queue)
        BY <1>2, <1>3, <2>2 DEF IInv, PollsShareTheQueue
    <2>3. CASE i = Len(queue) + 1 /\ j \in 1 .. Len(queue)
        BY <1>1, <1>3, <2>1, <2>3
    <2>4. CASE i \in 1 .. Len(queue) /\ j = Len(queue) + 1
        BY <1>1, <1>3, <2>1, <2>4
    <2> QED
        BY <1>2, <1>3, <2>2, <2>3, <2>4
<1> QED
    BY <1>3, <1>4, <1>5, <1>6, <1>7, <1>8 DEF IInv, TypeOK, Requests

LEMMA JoinKeeps == ASSUME IInv, NEW c \in Callers, Joins(c) PROVE Requests'
<1>1. /\ DOMAIN queue = 1 .. Len(queue) /\ Len(queue) \in Nat
      /\ \A i \in DOMAIN queue : queue[i] \in Entry
    BY QueueTypes DEF IInv, TypeOK
<1>2. /\ DOMAIN queue' = DOMAIN queue
      /\ \A i \in DOMAIN queue :
            queue'[i] = IF i \in Shared(ActionOf[c])
                        THEN [queue[i] EXCEPT !.callers = @ \union {c}]
                        ELSE queue[i]
    BY DEF Joins
<1>3. ASSUME NEW i \in DOMAIN queue
      PROVE  /\ queue'[i] \in Entry
             /\ queue'[i].action = queue[i].action
             /\ queue'[i].callers =
                    IF i \in Shared(ActionOf[c]) THEN queue[i].callers \union {c}
                    ELSE queue[i].callers
    <2>1. queue[i] \in Entry
        BY <1>1
    <2>2. CASE i \in Shared(ActionOf[c])
        <3>1. queue'[i] = [queue[i] EXCEPT !.callers = @ \union {c}]
            BY <1>2, <2>2
        <3>2. /\ queue'[i] \in [action : Actions, callers : SUBSET Callers]
              /\ queue'[i].action = queue[i].action
              /\ queue'[i].callers = queue[i].callers \union {c}
            BY <2>1, <3>1 DEF Entry
        <3> QED
            BY <2>2, <3>2 DEF Entry
    <2>3. CASE i \notin Shared(ActionOf[c])
        BY <1>2, <2>1, <2>3
    <2> QED
        BY <2>2, <2>3
<1>4. queue' \in Seq(Entry) /\ Len(queue') = Len(queue)
    <2> DEFINE joined == [i \in DOMAIN queue |->
                            IF i \in Shared(ActionOf[c])
                            THEN [queue[i] EXCEPT !.callers = @ \union {c}]
                            ELSE queue[i]]
    <2>1. queue' = joined
        BY DEF Joins
    <2>2. queue' \in [1 .. Len(queue) -> Entry]
        <3>1. queue' = [i \in DOMAIN queue |-> queue'[i]]
            BY <2>1
        <3> QED
            BY <1>1, <1>3, <3>1
    <2> QED
        BY <1>1, <2>2, SeqDef, LenProperties
<1>5. inflight' = inflight
    BY DEF Joins
<1>6. queue # <<>>
    BY DEF Joins, Shared
<1>7. WorkConserving'
    BY <1>5, <1>6 DEF IInv, WorkConserving, Joins
<1>8. PollsShareTheQueue'
    BY <1>2, <1>3 DEF IInv, PollsShareTheQueue
<1>9. \A i, j \in Shared(ActionOf[c]) : i = j
    BY DEF IInv, PollsShareTheQueue, Shared
<1>10. WaitsOnce'
    <2>1. /\ \A e \in inflight : c \notin e.callers
          /\ \A i \in DOMAIN queue : c \notin queue[i].callers
        BY IdleIsNowhere DEF Joins
    <2>2. ASSUME NEW i \in DOMAIN queue, NEW j \in DOMAIN queue,
                 queue'[i].callers \intersect queue'[j].callers # {}
          PROVE  i = j
        <3>1. CASE i \in Shared(ActionOf[c]) /\ j \in Shared(ActionOf[c])
            BY <1>9, <3>1
        <3>2. CASE ~(i \in Shared(ActionOf[c]) /\ j \in Shared(ActionOf[c]))
            <4>1. queue[i].callers \intersect queue[j].callers # {}
                BY <1>3, <2>1, <2>2, <3>2
            <4> QED
                BY <4>1 DEF IInv, WaitsOnce
        <3> QED
            BY <3>1, <3>2
    <2>3. ASSUME NEW e \in inflight, NEW i \in DOMAIN queue
          PROVE  e.callers \intersect queue'[i].callers = {}
        <3>1. e.callers \intersect queue[i].callers = {}
            BY DEF IInv, WaitsOnce
        <3> QED
            BY <1>3, <2>1, <3>1
    <2> QED
        BY <1>2, <1>5, <2>2, <2>3 DEF IInv, WaitsOnce
<1> QED
    BY <1>4, <1>5, <1>7, <1>8, <1>10 DEF IInv, TypeOK, Requests

LEMMA LeaveKeeps == ASSUME IInv, NEW e \in inflight, Leaves(e) PROVE Requests'
<1>1. IsFiniteSet(inflight') /\ Cardinality(inflight') = Cardinality(inflight) - 1
      /\ Cardinality(inflight) \in Nat
    BY FS_RemoveElement, FS_CardinalityType DEF IInv, Leaves
<1>2. Cardinality(inflight') <= MaxInflight
    BY <1>1, Limits DEF IInv, TypeOK
<1>3. queue' = <<>> /\ queue' \in Seq(Entry) /\ Len(queue') <= MaxQueue /\ DOMAIN queue' = {}
    BY Limits DEF IInv, TypeOK, Leaves
<1>4. inflight' \subseteq inflight
    BY DEF Leaves
<1>5. WaitsOnce'
    BY <1>3, <1>4 DEF IInv, WaitsOnce
<1> QED
    BY <1>1, <1>2, <1>3, <1>4, <1>5
    DEF IInv, TypeOK, Requests, WorkConserving, PollsShareTheQueue

LEMMA ReplacedKeeps == ASSUME IInv, NEW e \in inflight, IsReplaced(e) PROVE Requests'
<1>1. /\ Len(queue) \in Nat /\ DOMAIN queue = 1 .. Len(queue) /\ 1 \in DOMAIN queue
      /\ queue[1] \in Entry
    BY QueueTypes DEF IInv, TypeOK, IsReplaced
<1>2. /\ queue' \in Seq(Entry) /\ Len(queue') = Len(queue) - 1
      /\ \A i \in 1 .. Len(queue) - 1 : queue'[i] = queue[i + 1]
      /\ DOMAIN queue' = 1 .. Len(queue) - 1
    BY <1>1, HeadTailProperties DEF IInv, TypeOK, IsReplaced
<1>3. Len(queue') <= MaxQueue
    BY <1>1, <1>2, Limits DEF IInv, TypeOK
<1>4. queue[1].callers # {}
    BY <1>1 DEF Entry
<1>5. queue[1] \notin inflight
    BY <1>1, <1>4 DEF IInv, WaitsOnce
<1>6. /\ IsFiniteSet(inflight') /\ inflight' \subseteq Entry
      /\ Cardinality(inflight') = Cardinality(inflight)
    <2>1. /\ IsFiniteSet(inflight \ {e}) /\ Cardinality(inflight) \in Nat
          /\ Cardinality(inflight \ {e}) = Cardinality(inflight) - 1
        BY FS_RemoveElement, FS_CardinalityType DEF IInv
    <2>2. queue[1] \notin inflight \ {e}
        BY <1>5
    <2>3. /\ IsFiniteSet(inflight')
          /\ Cardinality(inflight') = Cardinality(inflight \ {e}) + 1
        BY <2>1, <2>2, FS_AddElement DEF IsReplaced
    <2> QED
        BY <1>1, <2>1, <2>3 DEF IInv, TypeOK, IsReplaced
<1>7. WorkConserving'
    BY <1>6 DEF IInv, WorkConserving, IsReplaced
<1>8. PollsShareTheQueue'
    <2> SUFFICES ASSUME NEW i \in 1 .. Len(queue) - 1, NEW j \in 1 .. Len(queue) - 1,
                        queue'[i].action = queue'[j].action, queue'[i].action \in Coalescable
                 PROVE  i = j
        BY <1>2 DEF PollsShareTheQueue
    <2>1. i + 1 \in DOMAIN queue /\ j + 1 \in DOMAIN queue
        BY <1>1
    <2>2. i + 1 = j + 1
        BY <1>2, <2>1 DEF IInv, PollsShareTheQueue
    <2> QED
        BY <2>2
<1>9. WaitsOnce'
    <2>1. \A i \in 1 .. Len(queue) - 1 : i + 1 \in DOMAIN queue /\ i + 1 # 1
        BY <1>1
    <2>2. ASSUME NEW i \in 1 .. Len(queue) - 1, NEW j \in 1 .. Len(queue) - 1,
                 queue'[i].callers \intersect queue'[j].callers # {}
          PROVE  i = j
        <3>1. i + 1 = j + 1
            BY <1>2, <2>1, <2>2 DEF IInv, WaitsOnce
        <3> QED
            BY <3>1
    <2>3. ASSUME NEW f \in inflight', NEW i \in 1 .. Len(queue) - 1
          PROVE  f.callers \intersect queue'[i].callers = {}
        <3>1. queue'[i] = queue[i + 1] /\ i + 1 \in DOMAIN queue /\ i + 1 # 1
            BY <1>2, <2>1
        <3>2. CASE f \in inflight
            BY <3>1, <3>2 DEF IInv, WaitsOnce
        <3>3. CASE f = queue[1]
            BY <1>1, <3>1, <3>3 DEF IInv, WaitsOnce
        <3> QED
            BY <3>2, <3>3 DEF IsReplaced
    <2>4. ASSUME NEW f \in inflight', NEW g \in inflight', f.callers \intersect g.callers # {}
          PROVE  f = g
        <3>1. \A h \in inflight : h.callers \intersect queue[1].callers = {}
            BY <1>1 DEF IInv, WaitsOnce
        <3>2. CASE f \in inflight /\ g \in inflight
            BY <2>4, <3>2 DEF IInv, WaitsOnce
        <3>3. CASE f = queue[1] \/ g = queue[1]
            BY <2>4, <3>1, <3>3 DEF IsReplaced
        <3> QED
            BY <3>2, <3>3 DEF IsReplaced
    <2> QED
        BY <1>2, <2>2, <2>3, <2>4 DEF WaitsOnce
<1> QED
    BY <1>2, <1>3, <1>6, <1>7, <1>8, <1>9 DEF IInv, TypeOK, Requests

LEMMA StayKeeps == ASSUME IInv, Stays PROVE Requests'
BY DEF IInv, TypeOK, Stays, Requests, WorkConserving, WaitsOnce, PollsShareTheQueue

LEMMA EmptyKeeps == ASSUME IInv, Empties PROVE Requests'
<1>1. IsFiniteSet({}) /\ Cardinality({}) = 0
    BY FS_EmptySet
<1>2. <<>> \in Seq(Entry) /\ Len(<<>>) = 0 /\ DOMAIN <<>> = {}
    OBVIOUS
<1> QED
    BY <1>1, <1>2, Limits
    DEF Empties, Requests, WorkConserving, WaitsOnce, PollsShareTheQueue

-----------------------------------------------------------------------------

LEMMA InitIInv == Init => IInv
<1> SUFFICES ASSUME Init PROVE IInv
    OBVIOUS
<1>1. IsFiniteSet({}) /\ Cardinality({}) = 0
    BY FS_EmptySet
<1>2. <<>> \in Seq(Entry) /\ Len(<<>>) = 0 /\ DOMAIN <<>> = {}
    OBVIOUS
<1>3. breaker \in Breakers /\ 0 \in 0 .. FailureThreshold
    BY FreshTypes, Thresholds DEF Init
<1>4. TypeOK
    BY <1>1, <1>2, <1>3, Limits DEF Init, TypeOK, Breakers
<1> QED
    BY <1>1, <1>2, <1>4 DEF Init, IInv, WorkConserving, WaitsOnce, PollsShareTheQueue

LEMMA NextIInv == IInv /\ [Next]_ipcVars => IInv'
<1> SUFFICES ASSUME IInv, [Next]_ipcVars PROVE IInv'
    OBVIOUS
<1>1. Requests'
    BY NextMoves, DispatchKeeps, AppendKeeps, JoinKeeps, LeaveKeeps, ReplacedKeeps,
       StayKeeps, EmptyKeeps DEF Moves
<1>2. TypeOK'
    BY <1>1, BreakerTypes DEF Requests, TypeOK, Breakers
<1> QED
    BY <1>1, <1>2 DEF Requests, IInv

LEMMA Invariance == Spec => []IInv
BY InitIInv, NextIInv, PTL DEF Spec

\* The requests, the queue and the counts of the breaker (66-93, 130-177)
\* stay within their limits, for any window, queue and thresholds.
THEOREM TypeCorrect == Spec => []TypeOK
BY Invariance, PTL DEF IInv

\* Whichever way requests end, the queue only waits while every slot of the
\* window is taken (lines 176, 211, 238, 370).
THEOREM WorkIsConserved == Spec => []WorkConserving
BY Invariance, PTL DEF IInv

\* A caller is in one entry, which is queued or in flight and never both, so
\* its promise settles once (lines 166-177, 183-213, 266-277).
THEOREM CallersWaitOnce == Spec => []WaitsOnce
BY Invariance, PTL DEF IInv

\* At most one poll of a kind is queued, whatever the callers send (line 190).
THEOREM PollsShare == Spec => []PollsShareTheQueue
BY Invariance, PTL DEF IInv
-----------------------------------------------------------------------------
(***************************************************************************)
(* The queue is first come, first served, as far as a caller can tell.     *)
(***************************************************************************)

\* c's request is queued before d's; c's request is queued; it is in flight.
Ahead(c, d) ==
    \E i, j \in DOMAIN queue : i < j /\ c \in queue[i].callers /\ d \in queue[j].callers
InQueue(c) == \E i \in DOMAIN queue : c \in queue[i].callers
InFlight(c) == \E e \in inflight : c \in e.callers

\* Nobody overtakes: who is ahead stays ahead until it is sent, and the other
\* is then still queued.  A newcomer gets behind everybody in the queue, unless
\* it takes part in a poll that was queued already.
FirstComeFirstServed ==
    \A c, d \in Callers :
        /\ Ahead(c, d) => Ahead(c, d)' \/ (InFlight(c)' /\ InQueue(d)')
        /\ InQueue(c) /\ d \in Idle /\ ~(d \in Idle)' =>
              \/ Ahead(c, d)'
              \/ \E i \in DOMAIN queue : /\ queue[i].action \in Coalescable
                                         /\ d \in queue'[i].callers
                                         /\ queue[i].callers \subseteq queue'[i].callers

\* Whoever waits in the queue is found there.
LEMMA IdleIsApart == ASSUME NEW d \in Idle PROVE ~InQueue(d) /\ ~InFlight(d)
BY DEF Idle, Waiting, Entries, Queued, InQueue, InFlight

\* A new request goes to the end of the queue.
LEMMA AppendIsLast ==
    ASSUME IInv, NEW e \in Callers, Appends(e)
    PROVE  FirstComeFirstServed
<1>1. /\ DOMAIN queue = 1 .. Len(queue) /\ Len(queue) \in Nat
      /\ queue \in Seq(Entry) /\ New(e) \in Entry
    BY QueueTypes, NewTypes DEF IInv, TypeOK
<1>2. /\ DOMAIN queue' = 1 .. Len(queue) + 1
      /\ \A i \in DOMAIN queue : i \in DOMAIN queue' /\ queue'[i] = queue[i]
      /\ Len(queue) + 1 \in DOMAIN queue'
      /\ queue'[Len(queue) + 1] = New(e)
      /\ \A i \in DOMAIN queue : i < Len(queue) + 1
    BY <1>1 DEF Appends
<1>3. inflight' = inflight
    BY DEF Appends
<1>4. ASSUME NEW d \in Callers, d \in Idle, ~(d \in Idle)' PROVE d = e
    <2>1. d \in Waiting'
        BY <1>4 DEF Idle
    <2>2. PICK r \in Entries' : d \in r.callers
        BY <2>1 DEF Waiting
    <2>3. r \notin inflight
        BY <1>4, <2>2, IdleIsApart DEF InFlight
    <2>4. PICK i \in DOMAIN queue' : r = queue'[i]
        BY <1>3, <2>2, <2>3 DEF Entries, Queued
    <2>5. i \notin DOMAIN queue
        BY <1>2, <1>4, <2>2, <2>4, IdleIsApart DEF InQueue
    <2>6. i = Len(queue) + 1
        BY <1>1, <1>2, <2>5
    <2> QED
        BY <1>2, <2>2, <2>4, <2>6 DEF New
<1>5. e \in New(e).callers
    BY DEF New
<1> SUFFICES ASSUME NEW c \in Callers, NEW d \in Callers
             PROVE  /\ Ahead(c, d) => Ahead(c, d)'
                    /\ InQueue(c) /\ d \in Idle /\ ~(d \in Idle)' => Ahead(c, d)'
    BY DEF FirstComeFirstServed
<1>6. Ahead(c, d) => Ahead(c, d)'
    BY <1>2 DEF Ahead
<1>7. InQueue(c) /\ d \in Idle /\ ~(d \in Idle)' => Ahead(c, d)'
    BY <1>2, <1>4, <1>5 DEF Ahead, InQueue
<1> QED
    BY <1>6, <1>7

\* A poll that is joined stays where it is.
LEMMA JoinIsInPlace ==
    ASSUME IInv, NEW e \in Callers, Joins(e)
    PROVE  FirstComeFirstServed
<1>1. \A i \in DOMAIN queue : queue[i] \in Entry
    BY QueueTypes DEF IInv
<1>2. /\ DOMAIN queue' = DOMAIN queue /\ inflight' = inflight
      /\ \A i \in DOMAIN queue :
            queue'[i] = IF i \in Shared(ActionOf[e])
                        THEN [queue[i] EXCEPT !.callers = @ \union {e}]
                        ELSE queue[i]
    BY DEF Joins
<1>3. ASSUME NEW i \in DOMAIN queue
      PROVE  /\ queue[i].callers \subseteq queue'[i].callers
             /\ i \in Shared(ActionOf[e]) => queue[i].action \in Coalescable
             /\ i \notin Shared(ActionOf[e]) => queue'[i] = queue[i]
    BY <1>1, <1>2 DEF Entry, Shared
<1>4. ASSUME NEW d \in Callers, d \in Idle, ~(d \in Idle)'
      PROVE  \E i \in DOMAIN queue : /\ queue[i].action \in Coalescable
                                     /\ d \in queue'[i].callers
                                     /\ queue[i].callers \subseteq queue'[i].callers
    <2>1. d \in Waiting'
        BY <1>4 DEF Idle
    <2>2. PICK r \in Entries' : d \in r.callers
        BY <2>1 DEF Waiting
    <2>3. r \notin inflight
        BY <1>4, <2>2, IdleIsApart DEF InFlight
    <2>4. PICK i \in DOMAIN queue' : r = queue'[i]
        BY <1>2, <2>2, <2>3 DEF Entries, Queued
    <2>5. queue'[i] # queue[i]
        BY <1>2, <1>4, <2>2, <2>4, IdleIsApart DEF InQueue
    <2> QED
        BY <1>2, <1>3, <2>2, <2>4, <2>5
<1>5. ASSUME NEW c \in Callers, NEW d \in Callers, Ahead(c, d) PROVE Ahead(c, d)'
    BY <1>2, <1>3, <1>5 DEF Ahead
<1> QED
    BY <1>4, <1>5 DEF FirstComeFirstServed

\* The first of the queue is sent and the others move up.
LEMMA HeadIsFirst ==
    ASSUME IInv, NEW e \in inflight, IsReplaced(e)
    PROVE  FirstComeFirstServed
<1>1. /\ Len(queue) \in Nat /\ DOMAIN queue = 1 .. Len(queue) /\ 1 \in DOMAIN queue
      /\ queue \in Seq(Entry)
    BY QueueTypes DEF IInv, TypeOK, IsReplaced
<1>2. /\ DOMAIN queue' = 1 .. Len(queue) - 1
      /\ \A i \in 1 .. Len(queue) - 1 : queue'[i] = queue[i + 1]
    BY <1>1 DEF IsReplaced
<1>3. /\ \A i \in DOMAIN queue' : i + 1 \in DOMAIN queue /\ queue'[i] = queue[i + 1]
      /\ \A i \in DOMAIN queue :
            i = 1 \/ (i - 1 \in DOMAIN queue' /\ queue'[i - 1] = queue[i])
    BY <1>1, <1>2
<1>4. inflight' = (inflight \ {e}) \union {queue[1]}
    BY DEF IsReplaced
<1>5. ASSUME NEW c \in Callers, NEW d \in Callers, Ahead(c, d)
      PROVE  Ahead(c, d)' \/ (InFlight(c)' /\ InQueue(d)')
    <2>1. PICK i \in DOMAIN queue, j \in DOMAIN queue :
              i < j /\ c \in queue[i].callers /\ d \in queue[j].callers
        BY <1>5 DEF Ahead
    <2>2. j # 1 /\ j - 1 \in DOMAIN queue' /\ d \in queue'[j - 1].callers
        BY <1>1, <1>3, <2>1
    <2>3. CASE i = 1
        BY <1>4, <2>1, <2>2, <2>3 DEF InFlight, InQueue
    <2>4. CASE i # 1
        <3>1. i - 1 < j - 1
            BY <1>1, <2>1
        <3>2. i - 1 \in DOMAIN queue' /\ c \in queue'[i - 1].callers
            BY <1>3, <2>1, <2>4
        <3> QED
            BY <2>2, <3>1, <3>2 DEF Ahead
    <2> QED
        BY <2>3, <2>4
<1>6. Waiting' \subseteq Waiting
    <2>1. Queued' \subseteq Queued
        BY <1>3 DEF Queued
    <2>2. queue[1] \in Queued
        BY <1>1 DEF Queued
    <2>3. Entries' \subseteq Entries
        BY <1>4, <2>1, <2>2 DEF Entries
    <2> QED
        BY <2>3 DEF Waiting
<1> QED
    BY <1>5, <1>6 DEF FirstComeFirstServed, Idle

\* While the subprocess lives the queue (_enqueueRequest and _processQueue,
\* 183-220) is first come, first served: nobody is overtaken, however requests
\* end, and a new call passes the queue only as part of a poll that waits in it.
THEOREM NobodyOvertakes == Spec => [][running' => FirstComeFirstServed]_ipcVars
<1>1. IInv /\ [Next]_ipcVars => [running' => FirstComeFirstServed]_ipcVars
    <2> SUFFICES ASSUME IInv, [Next]_ipcVars, running' PROVE FirstComeFirstServed
        OBVIOUS
    <2>1. CASE queue = <<>>
        BY <2>1 DEF FirstComeFirstServed, Ahead, InQueue
    <2>2. CASE Stays
        BY <2>2 DEF Stays, FirstComeFirstServed, Ahead, Idle, Waiting, Entries, Queued
    <2>3. ~Empties
        BY DEF Empties
    <2>4. ASSUME NEW c \in Callers, Appends(c) \/ Joins(c) PROVE FirstComeFirstServed
        BY <2>4, AppendIsLast, JoinIsInPlace
    <2>5. ASSUME NEW e \in inflight, IsReplaced(e) PROVE FirstComeFirstServed
        BY <2>5, HeadIsFirst
    <2>6. (\A c \in Callers : Dispatches(c) => queue = <<>>)
          /\ (\A e \in inflight : Leaves(e) => queue = <<>>)
        BY DEF Dispatches, Leaves
    <2> QED
        BY <2>1, <2>2, <2>3, <2>4, <2>5, <2>6, NextMoves DEF Moves
<1> QED
    BY <1>1, Invariance, PTL DEF Spec
-----------------------------------------------------------------------------
(***************************************************************************)
(* The client implements the promises its callers see: the window, the     *)
(* queue and the breaker neither lose a promise nor make one.              *)
(***************************************************************************)
Seen == INSTANCE Promises WITH requests <- Entries

LEMMA SeenWaiting == Seen!Waiting = Waiting
BY DEF Seen!Waiting, Waiting

\* Entries are told apart by who waits.
LEMMA EntriesApart ==
    ASSUME IInv
    PROVE  /\ \A e \in inflight : e \notin Queued
           /\ \A i, j \in DOMAIN queue : queue[i] = queue[j] => i = j
           /\ \A e \in Entries : e \in Entry /\ e.callers # {}
<1>1. \A e \in Entry : e.callers # {}
    BY DEF Entry
<1>2. \A i \in DOMAIN queue : queue[i] \in Entry
    BY QueueTypes DEF IInv
<1>3. inflight \subseteq Entry
    BY DEF IInv, TypeOK
<1> QED
    BY <1>1, <1>2, <1>3 DEF IInv, WaitsOnce, Queued, Entries

LEMMA DispatchAsks == ASSUME IInv, NEW c \in Callers, Dispatches(c) PROVE Seen!Ask(c)
<1>1. c \notin Waiting
    BY DEF Dispatches, Idle
<1>2. Entries' = Entries \union {New(c)}
    BY DEF Dispatches, Entries, Queued
<1> QED
    BY <1>1, <1>2, SeenWaiting DEF Seen!Ask, New

LEMMA AppendAsks == ASSUME IInv, NEW c \in Callers, Appends(c) PROVE Seen!Ask(c)
<1>1. c \notin Waiting
    BY DEF Appends, Idle
<1>2. /\ DOMAIN queue = 1 .. Len(queue) /\ Len(queue) \in Nat
      /\ queue \in Seq(Entry) /\ New(c) \in Entry
    BY QueueTypes, NewTypes DEF IInv, TypeOK
<1>3. /\ DOMAIN queue' = 1 .. Len(queue) + 1
      /\ \A i \in DOMAIN queue : queue'[i] = queue[i]
      /\ queue'[Len(queue) + 1] = New(c)
    BY <1>2 DEF Appends
<1>4. DOMAIN queue' = DOMAIN queue \union {Len(queue) + 1}
    BY <1>2, <1>3
<1>5. Queued' = Queued \union {New(c)}
    BY <1>3, <1>4 DEF Queued
<1>6. Entries' = Entries \union {New(c)}
    BY <1>5 DEF Appends, Entries
<1> QED
    BY <1>1, <1>6, SeenWaiting DEF Seen!Ask, New

LEMMA JoinShares ==
    ASSUME IInv, NEW c \in Callers, Joins(c)
    PROVE  \E r \in Entries : Seen!Share(c, r)
<1>1. c \notin Waiting
    BY DEF Joins, Idle
<1>2. PICK i \in Shared(ActionOf[c]) : TRUE
    BY DEF Joins
<1> DEFINE r == queue[i]
           more == [r EXCEPT !.callers = @ \union {c}]
<1>3. i \in DOMAIN queue /\ r.action = ActionOf[c] /\ r.action \in Coalescable
    BY <1>2 DEF Shared
<1>4. \A j \in Shared(ActionOf[c]) : j = i
    BY <1>2 DEF Shared, IInv, PollsShareTheQueue
<1>5. /\ DOMAIN queue' = DOMAIN queue /\ queue'[i] = more
      /\ \A j \in DOMAIN queue : j # i => queue'[j] = queue[j] /\ queue[j] # r
    BY <1>2, <1>3, <1>4, EntriesApart DEF Joins
<1>6. Queued' = (Queued \ {r}) \union {more}
    <2> HIDE DEF more
    <2> QED
        BY <1>3, <1>5 DEF Queued
<1>7. r \notin inflight
    BY <1>3, EntriesApart DEF Queued
<1>8. Entries' = (Entries \ {r}) \union {more}
    BY <1>6, <1>7 DEF Joins, Entries
<1>9. r \in Entries
    BY <1>3 DEF Entries, Queued
<1> QED
    BY <1>1, <1>3, <1>8, <1>9, SeenWaiting DEF Seen!Share

LEMMA EndSettles ==
    ASSUME IInv, NEW e \in inflight, Leaves(e) \/ IsReplaced(e)
    PROVE  Seen!Settle(e)
<1>1. e \notin Queued
    BY EntriesApart
<1>2. CASE Leaves(e)
    BY <1>1, <1>2 DEF Leaves, Entries, Queued, Seen!Settle
<1>3. CASE IsReplaced(e)
    <2>1. /\ Len(queue) \in Nat /\ DOMAIN queue = 1 .. Len(queue) /\ 1 \in DOMAIN queue
          /\ queue \in Seq(Entry)
        BY <1>3, QueueTypes DEF IInv, TypeOK, IsReplaced
    <2>2. /\ DOMAIN queue' = 1 .. Len(queue) - 1
          /\ \A i \in 1 .. Len(queue) - 1 : queue'[i] = queue[i + 1]
        BY <1>3, <2>1 DEF IsReplaced
    <2>3. Queued = {queue[1]} \union Queued'
        <3>1. \A i \in DOMAIN queue' : i + 1 \in DOMAIN queue /\ queue'[i] = queue[i + 1]
            BY <2>1, <2>2
        <3>2. \A i \in DOMAIN queue : i = 1 \/ (i - 1 \in DOMAIN queue' /\ queue'[i - 1] = queue[i])
            BY <2>1, <2>2
        <3> QED
            BY <2>1, <3>1, <3>2 DEF Queued
    <2> QED
        BY <1>1, <1>3, <2>3 DEF IsReplaced, Entries, Seen!Settle
<1> QED
    BY <1>2, <1>3

LEMMA SeenStep == IInv /\ [Next]_ipcVars => [Seen!Next]_Entries
<1> SUFFICES ASSUME IInv, [Next]_ipcVars PROVE [Seen!Next]_Entries
    OBVIOUS
<1>1. ASSUME NEW c \in Callers, Dispatches(c) \/ Appends(c) PROVE Seen!Next
    BY <1>1, DispatchAsks, AppendAsks DEF Seen!Next
<1>2. ASSUME NEW c \in Callers, Joins(c) PROVE Seen!Next
    BY <1>2, JoinShares DEF Seen!Next
<1>3. ASSUME NEW e \in inflight, Leaves(e) \/ IsReplaced(e) PROVE Seen!Next
    <2>1. Seen!Settle(e) /\ e \in Entries
        BY <1>3, EndSettles DEF Entries
    <2> QED
        BY <2>1 DEF Seen!Next
<1>4. CASE Stays
    BY <1>4 DEF Stays, Entries, Queued
<1>5. CASE Empties
    BY <1>5 DEF Empties, Entries, Queued, Seen!Next, Seen!LoseAll
<1> QED
    BY <1>1, <1>2, <1>3, <1>4, <1>5, NextMoves DEF Moves

\* Requests go through a window, a queue whose polls share a place, timers,
\* refusals of the breaker and exits of the subprocess (136-290, 351-379), and
\* of all that a caller only sees a promise that it made alone or shares.
THEOREM ImplementsPromises == Spec => Seen!Spec
<1>1. Init => Seen!Init
    BY DEF Init, Seen!Init, Entries, Queued
<1> QED
    BY <1>1, SeenStep, Invariance, PTL DEF Spec, Seen!Spec

\* What holds of promises holds of the client: an answer goes to the callers
\* of that command only, to several of them only for a poll, and a caller that
\* waits for one answer waits for no other.
THEOREM AnswersGoToTheirCallers == Spec => []Seen!AnswersAreOwn
<1> DEFINE Own == Seen!AnswersAreOwn
<1>1. Seen!Init => Own
    BY DEF Seen!Init, Seen!AnswersAreOwn
<1>2. IInv /\ Own /\ [Seen!Next]_Entries => Own'
    <2> SUFFICES ASSUME IInv, Own, [Seen!Next]_Entries PROVE Own'
        OBVIOUS
    <2> USE DEF Seen!AnswersAreOwn
    <2>1. ASSUME NEW c \in Callers, Seen!Ask(c) PROVE Own'
        <3> DEFINE n == New(c)
        <3>1. n.action = ActionOf[c] /\ n.callers = {c}
            BY DEF New
        <3>2. Entries' = Entries \union {n} /\ \A r \in Entries : c \notin r.callers
            BY <2>1 DEF Seen!Ask, Seen!Waiting, New
        <3> HIDE DEF n
        <3> QED
            BY <3>1, <3>2
    <2>2. ASSUME NEW c \in Callers, NEW r \in Entries, Seen!Share(c, r) PROVE Own'
        <3> DEFINE more == [r EXCEPT !.callers = @ \union {c}]
        <3>1. r \in Entry
            BY EntriesApart
        <3>2. more.action = r.action /\ more.callers = r.callers \union {c}
            BY <3>1 DEF Entry
        <3>3. /\ Entries' = (Entries \ {r}) \union {more}
              /\ \A s \in Entries : c \notin s.callers
              /\ r.action = ActionOf[c] /\ r.action \in Coalescable
            BY <2>2 DEF Seen!Share, Seen!Waiting
        <3> HIDE DEF more
        <3>4. ASSUME NEW s \in Entries', NEW t \in Entries', NEW d \in s.callers, d \in t.callers
              PROVE  s = t
            BY <3>2, <3>3, <3>4
        <3>5. ASSUME NEW s \in Entries', NEW d \in s.callers
              PROVE  /\ s.action = ActionOf[d]
                     /\ \A k \in s.callers : d # k => s.action \in Coalescable
            BY <3>2, <3>3
        <3> QED
            BY <3>4, <3>5
    <2>3. ASSUME NEW r \in Entries, Seen!Settle(r) PROVE Own'
        BY <2>3 DEF Seen!Settle
    <2>4. CASE Seen!LoseAll
        BY <2>4 DEF Seen!LoseAll
    <2>5. CASE UNCHANGED Entries
        BY <2>5
    <2> QED
        BY <2>1, <2>2, <2>3, <2>4, <2>5 DEF Seen!Next
<1> QED
    BY <1>1, <1>2, ImplementsPromises, Invariance, PTL DEF Seen!Spec
=============================================================================
