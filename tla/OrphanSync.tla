----------------------------- MODULE OrphanSync -----------------------------
(***************************************************************************)
(* The two places where DriftPerpsClient cancels orders on the book that   *)
(* it does not track (src/src/execution/perps-drift-client.js):            *)
(* _syncWithOnChainOrders on a timer, and _reconcileState after a start or *)
(* a restart of the child.  One market; an order is its userOrderId, which *)
(* the next order for the same purpose has again; orders placed by hand    *)
(* (userOrderId 0) are never touched and left out.  Who tracks orders and  *)
(* why is module WorkingOrders; here they come and go as they please.      *)
(*                                                                         *)
(* A step is a turn of the event loop: the sync waits for the orders, for  *)
(* the positions, and for the answer to each cancel.                       *)
(***************************************************************************)
EXTENDS Integers, FiniteSets

CONSTANTS
  Ours,               \* the userOrderIds of the bot's orders
  MaxOrphanCancels    \* _maxOrphanCancelAttempts

ASSUME OrphanSyncAssumption == MaxOrphanCancels \in Nat \ {0}

VARIABLES
  tracked,    \* the userOrderIds of workingOrders
  book,       \* orders on the chain's book
  position,   \* there is a position on the chain
  cached,     \* this.positions has the market
  starting,   \* less than STARTUP_GRACE_MS since _initTimestamp
  uncertain,  \* _isInUncertaintyWindow()
  sync,       \* where _syncWithOnChainOrders stands
  snapshot,   \* its orders: as read, then the ones still to cancel
  stale,      \* _staleExitOrderCandidates: "seen", or "due" after the timeout
  attempts    \* _failedOrphanCancels: failed cancels in a row

vars == <<tracked, book, position, cached, starting, uncertain, sync, snapshot, stale, attempts>>

Init ==
  /\ tracked = {} /\ book = {}
  /\ position = FALSE /\ cached = FALSE
  /\ starting = TRUE /\ uncertain = FALSE
  /\ sync = "idle" /\ snapshot = {}
  /\ stale = [i \in Ours |-> "no"]
  /\ attempts = [i \in Ours |-> 0]

(***************************************************************************)
(* _syncWithOnChainOrders.                                                 *)
(***************************************************************************)
ReadGets(orders) ==
  /\ sync = "idle"
  /\ ~starting /\ ~uncertain
  /\ sync' = "orders"
  /\ snapshot' = orders
  /\ UNCHANGED <<tracked, book, position, cached, starting, uncertain, stale, attempts>>

Read == ReadGets(book)

(* A child that is not ready, or whose own query failed, answers without   *)
(* orders; "live: false" is not looked at.                                 *)
ReadEmpty == ReadGets({})

(* A failed call or a backoff ends the round. *)
ReadFails ==
  /\ sync = "orders"
  /\ sync' = "idle" /\ snapshot' = {}
  /\ UNCHANGED <<tracked, book, position, cached, starting, uncertain, stale, attempts>>

Orphans == snapshot \ tracked

(* Beside a position an order may be an exit: it is cancelled when it has  *)
(* been a candidate for two minutes.  known: the positions were read.      *)
Judge_OnlyMarks(known) ==
  LET beside == cached \/ (known /\ position)
      cancel == {i \in IF beside THEN {} ELSE Orphans : attempts[i] < MaxOrphanCancels}
  IN /\ sync = "orders"
     /\ snapshot' = cancel
     /\ sync' = IF cancel = {} THEN "idle" ELSE "cancelling"
     /\ stale' = [i \in Ours |-> CASE i \notin snapshot -> "no"
                                    [] i \in Orphans /\ beside -> "seen"
                                    [] OTHER -> stale[i]]
     /\ UNCHANGED <<tracked, book, position, cached, starting, uncertain, attempts>>

Judge_NoLimit(known) ==
  LET beside == cached \/ (known /\ position)
      due == IF beside THEN {i \in Orphans : stale[i] = "due"} ELSE Orphans
  IN /\ sync = "orders"
     /\ snapshot' = due
     /\ sync' = IF due = {} THEN "idle" ELSE "cancelling"
     /\ stale' = [i \in Ours |-> CASE i \notin snapshot -> "no"
                                    [] i \in Orphans /\ beside /\ stale[i] # "seen" ->
                                         IF stale[i] = "no" THEN "seen" ELSE "no"
                                    [] OTHER -> stale[i]]
     /\ UNCHANGED <<tracked, book, position, cached, starting, uncertain, attempts>>

Judge(known) ==
  LET beside == cached \/ (known /\ position)
      due == IF beside THEN {i \in Orphans : stale[i] = "due"} ELSE Orphans
      cancel == {i \in due : attempts[i] < MaxOrphanCancels}
  IN /\ sync = "orders"
     /\ snapshot' = cancel
     /\ sync' = IF cancel = {} THEN "idle" ELSE "cancelling"
     /\ stale' = [i \in Ours |-> CASE i \notin snapshot -> "no"
                                    [] i \in Orphans /\ beside /\ stale[i] # "seen" ->
                                         IF stale[i] = "no" THEN "seen" ELSE "no"
                                    [] OTHER -> stale[i]]
     /\ UNCHANGED <<tracked, book, position, cached, starting, uncertain, attempts>>

CancelEnds(i) ==
  /\ sync = "cancelling" /\ i \in snapshot
  /\ snapshot' = snapshot \ {i}
  /\ sync' = IF snapshot \ {i} = {} THEN "idle" ELSE "cancelling"
  /\ UNCHANGED <<tracked, position, cached, starting, uncertain, stale>>

(* "not_found" is a success as well. *)
Cancel(i) ==
  /\ CancelEnds(i)
  /\ book' = book \ {i}
  /\ attempts' = [attempts EXCEPT ![i] = 0]

(* A child that is not ready only simulates the cancel: a success as well. *)
CancelSimulated(i) ==
  /\ CancelEnds(i)
  /\ i \in book /\ book' = book
  /\ attempts' = [attempts EXCEPT ![i] = 0]

(* A failure that says that there is no such order uses up all attempts.   *)
CancelFails(i) ==
  /\ CancelEnds(i)
  /\ book' = book
  /\ \E n \in {attempts[i] + 1, MaxOrphanCancels} : attempts' = [attempts EXCEPT ![i] = n]

(***************************************************************************)
(* _reconcileState: every order of the bot that is not tracked is          *)
(* cancelled, once, whatever the windows and the positions say.            *)
(***************************************************************************)
Reconcile ==
  /\ \E failed \in SUBSET (book \ tracked) :
       book' = (book \intersect tracked) \union failed
  /\ UNCHANGED <<tracked, position, cached, starting, uncertain, sync, snapshot, stale, attempts>>

(* The process is started again. *)
Restart ==
  /\ tracked' = {} /\ cached' = FALSE
  /\ starting' = TRUE /\ uncertain' = FALSE
  /\ sync' = "idle" /\ snapshot' = {}
  /\ stale' = [i \in Ours |-> "no"]
  /\ attempts' = [i \in Ours |-> 0]
  /\ UNCHANGED <<book, position>>

(***************************************************************************)
(* Time.                                                                   *)
(***************************************************************************)
GraceEnds ==
  /\ starting /\ starting' = FALSE
  /\ UNCHANGED <<tracked, book, position, cached, uncertain, sync, snapshot, stale, attempts>>

WindowEnds ==
  /\ uncertain /\ uncertain' = FALSE
  /\ UNCHANGED <<tracked, book, position, cached, starting, sync, snapshot, stale, attempts>>

CandidateTimesOut(i) ==
  /\ stale[i] = "seen"
  /\ stale' = [stale EXCEPT ![i] = "due"]
  /\ UNCHANGED <<tracked, book, position, cached, starting, uncertain, sync, snapshot, attempts>>

(***************************************************************************)
(* The rest of the client, the bot, and the chain.                         *)
(***************************************************************************)
Outside == UNCHANGED <<starting, sync, snapshot, stale, attempts>>

(* An order is tracked before it is sent, and may be given up at any time. *)
Track(i) ==
  /\ tracked' = tracked \union {i}
  /\ UNCHANGED <<book, position, cached, uncertain>> /\ Outside

Untrack(i) ==
  /\ i \in tracked /\ tracked' = tracked \ {i}
  /\ UNCHANGED <<book, position, cached, uncertain>> /\ Outside

(* _enterUncertaintyWindow: an answer is lost. *)
Doubt ==
  /\ uncertain' = TRUE
  /\ UNCHANGED <<tracked, book, position, cached>> /\ Outside

(* Orders come to rest, fill, or are taken from the book; positions close  *)
(* and are noticed.                                                        *)
ChainMoves ==
  /\ \/ \E i \in Ours : book' = book \union {i} /\ UNCHANGED <<position, cached>>
     \/ \E i \in Ours : book' = book \ {i} /\ position' \in BOOLEAN /\ UNCHANGED cached
     \/ UNCHANGED book /\ position' \in BOOLEAN /\ cached' \in BOOLEAN
  /\ UNCHANGED <<tracked, uncertain>> /\ Outside

SyncStep ==
  \/ Read \/ ReadEmpty \/ ReadFails
  \/ \E known \in BOOLEAN : Judge(known)
  \/ \E i \in Ours : Cancel(i) \/ CancelSimulated(i) \/ CancelFails(i)

Next ==
  \/ SyncStep
  \/ Reconcile \/ Restart
  \/ GraceEnds \/ WindowEnds
  \/ \E i \in Ours : CandidateTimesOut(i) \/ Track(i) \/ Untrack(i)
  \/ Doubt \/ ChainMoves

(* The timers run; the sync finds a moment outside the windows and a child *)
(* that answers again and again, if not every time.                        *)
Progress ==
  /\ WF_vars(GraceEnds) /\ WF_vars(WindowEnds)
  /\ SF_vars(Read) /\ SF_vars(\E known \in BOOLEAN : Judge(known))
  /\ \A i \in Ours : WF_vars(Cancel(i) \/ CancelFails(i))
  /\ \A i \in Ours : SF_vars(CandidateTimesOut(i))

Spec == Init /\ [][Next]_vars /\ Progress

(***************************************************************************)
(* Properties.                                                             *)
(***************************************************************************)
TypeOK ==
  /\ tracked \subseteq Ours /\ book \subseteq Ours
  /\ position \in BOOLEAN /\ cached \in BOOLEAN
  /\ starting \in BOOLEAN /\ uncertain \in BOOLEAN
  /\ sync \in {"idle", "orders", "cancelling"}
  /\ snapshot \subseteq Ours
  /\ stale \in [Ours -> {"no", "seen", "due"}]
  /\ attempts \in [Ours -> 0 .. MaxOrphanCancels]

Stray(i) == i \in book \ tracked

(* An order of the bot that nobody tracks does not rest on the book for    *)
(* ever, beside a position or not: it is cancelled, unless its cancels     *)
(* have failed too often (4035-4082, 4126-4141).  Restarts and answers of  *)
(* a child that is not ready, without orders or to a cancel, start over    *)
(* what the code remembers of it, so this is said of runs in which they    *)
(* end.                                                                    *)
StraysAreCancelled ==
  <>[][~Restart /\ ~ReadEmpty /\ ~(\E i \in Ours : CancelSimulated(i))]_vars =>
    \A i \in Ours : Stray(i) ~> (~Stray(i) \/ attempts[i] = MaxOrphanCancels)

(* "CRITICAL: Don't cancel orders during uncertainty windows" (3949).      *)
NoCancelWhenUncertain ==
  [][(\E known \in BOOLEAN : Judge(known)) /\ sync' = "cancelling" => ~uncertain]_vars
=============================================================================
