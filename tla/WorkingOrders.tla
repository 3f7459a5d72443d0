--------------------------- MODULE WorkingOrders ---------------------------
(***************************************************************************)
(* The entry orders of DriftPerpsClient that rest on the book              *)
(* (src/src/execution/perps-drift-client.js): _openMaker places one, the   *)
(* order monitor watches it, and _replaceOrder, _fallbackToTaker and       *)
(* cancelOrder work on it without the monitor waiting for them.  All of    *)
(* them share the order object and the map workingOrders across their      *)
(* awaits.  The timer that cancels untracked orders is module OrphanSync.  *)
(*                                                                         *)
(* One market, no partial fills.  A step is a turn of the event loop: the  *)
(* answer to a call and everything up to the next call.  What a call       *)
(* changes on the chain happens with its answer, except that an order sent *)
(* is out from the moment it is sent.                                      *)
(***************************************************************************)
EXTENDS Integers, FiniteSets

CONSTANTS
  Orders,             \* objects of class WorkingOrder
  MarketIndex,        \* of the market
  FallbackToTaker,    \* limitCfg.fallbackToTaker
  MaxSlips,           \* bound: slips since the chain was last quiet
  MaxAtOnce,          \* bound: operations under way at once
  None

ASSUME WorkingOrdersAssumption ==
  /\ MarketIndex \in Nat
  /\ FallbackToTaker \in BOOLEAN
  /\ MaxSlips \in Nat /\ MaxAtOnce \in Nat
  /\ None \notin Orders

(***************************************************************************)
(* Order ids that stay the same for a market and a purpose.                *)
(***************************************************************************)
PurposeOffset == [entry |-> 1, exit |-> 2, replace |-> 3, fallback |-> 4, exit_fallback |-> 5]

UserOrderId(market, purpose) ==
  (((market % 51) * 5 + PurposeOffset[purpose]) % 254) + 1

Entry == UserOrderId(MarketIndex, "entry")
Replace == UserOrderId(MarketIndex, "replace")
Fallback == UserOrderId(MarketIndex, "fallback")
Limits == {Entry, Replace}

VARIABLES
  tracked,     \* the orders in workingOrders
  state,       \* order.state; the code reads no other value of it
  uoid,        \* order.userOrderId
  pending,     \* order.pendingUserOrderId is set
  previous,    \* previousUserOrderId of the replacement
  locked,      \* order._operationInProgress
  opener,      \* where _openMaker stands
  replacer,    \* where _replaceOrder stands
  faller,      \* where _fallbackToTaker stands
  canceller,   \* cancelOrder waits for its answer
  monitor,     \* the order the monitor asks the positions for
  book,        \* limit orders resting on the chain's book
  coming,      \* orders sent that the chain has not taken or refused
  position,    \* orders that filled since the position was flat
  cached,      \* this.positions has the market
  slips        \* history: see Slips

orderVars == <<tracked, state, uoid, pending, previous, locked>>
workVars == <<opener, replacer, faller, canceller, monitor>>
chainVars == <<book, coming, position>>
vars == <<orderVars, workVars, chainVars, cached, slips>>

Out == book \union coming

CanFallback(o) == state[o] \in {"entry", "replacing"}

Idle(o) ==
  /\ opener[o] = "idle" /\ replacer[o] = "idle" /\ faller[o] = "idle"
  /\ ~canceller[o] /\ monitor # o

Init ==
  /\ tracked = {}
  /\ state = [o \in Orders |-> "entry"]
  /\ uoid = [o \in Orders |-> Entry]
  /\ pending = [o \in Orders |-> FALSE]
  /\ previous = [o \in Orders |-> Entry]
  /\ locked = [o \in Orders |-> FALSE]
  /\ opener = [o \in Orders |-> "idle"]
  /\ replacer = [o \in Orders |-> "idle"]
  /\ faller = [o \in Orders |-> "idle"]
  /\ canceller = [o \in Orders |-> FALSE]
  /\ monitor = None
  /\ book = {} /\ coming = {} /\ position = 0
  /\ cached = FALSE
  /\ slips = 0

(* Nothing is left of earlier opens: the count of slips starts again.      *)
Quiet == Out = {} /\ position = 0 /\ (\A o \in Orders : Idle(o))

(***************************************************************************)
(* Things that go wrong outside the code's control or in a window it       *)
(* leaves open are counted, each where it happens: the properties say that *)
(* nothing else does harm.                                                 *)
(***************************************************************************)
Slips(happened) ==
  /\ happened => slips < MaxSlips
  /\ slips' = slips + (IF happened THEN 1 ELSE 0)

(* A cancel is answered "not_found" for an order that has filled or that    *)
(* has not come yet, as well as for one that is gone.                      *)
NotFoundThough(o) == uoid[o] \notin book /\ (position > 0 \/ uoid[o] \in coming)

(* The answer to a cancel is a success.  The order is off the book, unless *)
(* a child that is not initialised has only simulated the cancel.          *)
CancelSucceeds(o) == book' \in {book, book \ {uoid[o]}}

(* The success says nothing of the order: it still rests, or was not there.*)
CancelMisleads(o) == uoid[o] \in book' \/ NotFoundThough(o)

(* Neither _openMaker nor cancelOrder nor the monitor asks for the lock     *)
(* before it drops an order, and a replacement or a fallback that works on *)
(* it sends another one all the same.                                      *)
Dropped(o) == o \notin tracked

Room ==
  Cardinality({monitor} \ {None}) + Cardinality({o \in Orders : canceller[o]})
    + Cardinality({o \in Orders : opener[o] # "idle"})
    + Cardinality({o \in Orders : replacer[o] # "idle"})
    + Cardinality({o \in Orders : faller[o] # "idle"}) < MaxAtOnce

Forget(o) == tracked' = tracked \ {o}

(* _applyOnChainPosition and its copies: the position is reported. *)
Report(o) == /\ Forget(o)
             /\ cached' = TRUE

(***************************************************************************)
(* _openMaker.                                                             *)
(***************************************************************************)
NoWorkingOrder_NotAsked == TRUE

(* "Enforce one working maker order per market" *)
NoWorkingOrder == tracked = {}

Open(o) ==
  /\ \A p \in Orders : opener[p] = "idle"
  /\ NoWorkingOrder
  /\ o \notin tracked /\ Idle(o) /\ Room
  /\ position = 0 /\ ~cached
  /\ opener' = [opener EXCEPT ![o] = "pricing"]
  /\ slips' = IF Quiet THEN 0 ELSE slips
  /\ UNCHANGED <<orderVars, replacer, faller, canceller, monitor, chainVars, cached>>

(* The duplicate prevention of openPosition finds the position. *)
OpenRefused ==
  /\ \A p \in Orders : opener[p] = "idle"
  /\ position > 0 /\ ~cached
  /\ cached' = TRUE
  /\ UNCHANGED <<orderVars, workVars, chainVars, slips>>

OpenSend(o) ==
  /\ opener[o] = "pricing"
  /\ tracked' = tracked \union {o}
  /\ state' = [state EXCEPT ![o] = "entry"]
  /\ uoid' = [uoid EXCEPT ![o] = Entry]
  /\ pending' = [pending EXCEPT ![o] = FALSE]
  /\ previous' = [previous EXCEPT ![o] = Entry]
  /\ locked' = [locked EXCEPT ![o] = FALSE]
  /\ IF Entry \in book
       THEN opener' = [opener EXCEPT ![o] = "deduped"] /\ coming' = coming
       ELSE opener' = [opener EXCEPT ![o] = "sent"] /\ coming' = coming \union {Entry}
  /\ UNCHANGED <<replacer, faller, canceller, monitor, book, position,
                 cached, slips>>

(* A step of _openMaker that ends it, or takes it to its next await. *)
OpenGoes(o, from, to) ==
  /\ opener[o] = from
  /\ opener' = [opener EXCEPT ![o] = to]
  /\ UNCHANGED <<state, uoid, pending, previous, locked, replacer, faller, canceller,
                 monitor, book, position>>

OpenDeduped(o) ==
  /\ OpenGoes(o, "deduped", "idle")
  /\ Forget(o)
  /\ UNCHANGED <<coming, cached, slips>>

OpenAnswered(o) ==
  /\ OpenGoes(o, "sent", "appearing")
  /\ UNCHANGED <<tracked, coming, cached, slips>>

(* Every error that is not a timeout makes it forget the order: a refusal, *)
(* and also an exit of the child or an error after the order was sent,     *)
(* which may be out or filled: a slip.                                     *)
OpenRejected(o) ==
  /\ OpenGoes(o, "sent", "idle")
  /\ Forget(o)
  /\ \/ Entry \in coming /\ coming' = coming \ {Entry} /\ slips' = slips
     \/ coming' = coming /\ Slips(Out # {} \/ position > 0)
  /\ UNCHANGED cached

OpenTimesOut(o) ==
  /\ OpenGoes(o, "sent", "adopting")
  /\ UNCHANGED <<tracked, coming, cached, slips>>

(* _waitForOpenOrderAppearance: isOrderActive() of the order with id i. *)
IsOrderActive(o, i) ==
  /\ o \in tracked
  /\ state[o] # "fallback"
  /\ i = uoid[o] \/ (i = Replace /\ pending[o])

OpenAppears(o) ==
  /\ IsOrderActive(o, Entry) => Entry \in book
  /\ OpenGoes(o, "appearing", "idle")
  /\ UNCHANGED <<tracked, coming, cached, slips>>

OpenNotFound(o) ==
  /\ IsOrderActive(o, Entry)
  /\ OpenGoes(o, "appearing", "positioning")
  /\ UNCHANGED <<tracked, coming, cached, slips>>

OpenFindsPosition(o) ==
  /\ position > 0
  /\ \/ OpenGoes(o, "positioning", "idle")
     \/ OpenGoes(o, "adopting", "idle")
  /\ Report(o)
  /\ UNCHANGED <<coming, slips>>

(* The order is slow to appear, or the positions are not known: a slip. *)
OpenGivesUp(o) ==
  /\ OpenGoes(o, "positioning", "idle")
  /\ Forget(o)
  /\ Slips(Out # {} \/ position > 0)
  /\ UNCHANGED <<coming, cached>>

OpenNotAdopted(o) ==
  /\ OpenGoes(o, "adopting", "looking")
  /\ UNCHANGED <<tracked, coming, cached, slips>>

OpenFindsOrder(o) ==
  /\ Entry \in book
  /\ OpenGoes(o, "looking", "idle")
  /\ UNCHANGED <<tracked, coming, cached, slips>>

(* It fills between the two looks, comes later, or they fail: a slip. *)
OpenForgets(o) ==
  /\ OpenGoes(o, "looking", "idle")
  /\ Forget(o)
  /\ Slips(Out # {} \/ position > 0)
  /\ UNCHANGED <<coming, cached>>

(***************************************************************************)
(* _fallbackToTaker: nothing happens if the order is gone or its lock is   *)
(* taken; the state that the caller set stays.                             *)
(***************************************************************************)
StartFallback_IgnoresLock(o) ==
  IF o \in tracked
    THEN /\ locked' = [locked EXCEPT ![o] = TRUE]
         /\ faller' = [faller EXCEPT ![o] = "checking"]
    ELSE UNCHANGED <<locked, faller>>

StartFallback(o) ==
  IF o \in tracked /\ ~locked[o]
    THEN /\ locked' = [locked EXCEPT ![o] = TRUE]
         /\ faller' = [faller EXCEPT ![o] = "checking"]
    ELSE UNCHANGED <<locked, faller>>

(* A step of _fallbackToTaker; the last one releases the lock. *)
FallbackGoes(o, from, to) ==
  /\ faller[o] = from
  /\ faller' = [faller EXCEPT ![o] = to]
  /\ locked' = [locked EXCEPT ![o] = @ /\ to # "idle"]
  /\ UNCHANGED <<uoid, pending, previous, opener, replacer, canceller, monitor>>

(* Four places look for the position: before the cancel, after one that    *)
(* failed in simulation, after a market order that was not confirmed, and  *)
(* after one that failed.                                                  *)
FallbackFindsPosition(o) ==
  /\ position > 0
  /\ \E from \in {"checking", "rechecking", "verifying", "recovering"} :
       FallbackGoes(o, from, "idle")
  /\ Report(o)
  /\ UNCHANGED <<state, chainVars, slips>>

FallbackChecked(o) ==
  /\ FallbackGoes(o, "checking", "cancelling")
  /\ UNCHANGED <<tracked, state, chainVars, cached, slips>>

FallbackCancelled(o) ==
  /\ FallbackGoes(o, "cancelling", "placing")
  /\ CancelSucceeds(o)
  /\ coming' = coming \union {Fallback}
  /\ Slips(CancelMisleads(o) \/ Dropped(o))
  /\ UNCHANGED <<tracked, state, position, cached>>

(* "Continue anyway", after another look if the simulation failed. *)
FallbackCancelFails(o) ==
  /\ \/ /\ FallbackGoes(o, "cancelling", "rechecking")
        /\ UNCHANGED <<coming, slips>>
     \/ /\ \/ FallbackGoes(o, "cancelling", "placing")
           \/ FallbackGoes(o, "rechecking", "placing")
        /\ coming' = coming \union {Fallback}
        /\ Slips(TRUE)
  /\ UNCHANGED <<tracked, state, book, position, cached>>

FallbackAnswered(o) ==
  /\ FallbackGoes(o, "placing", "confirming")
  /\ UNCHANGED <<tracked, state, chainVars, cached, slips>>

(* No answer, or a refusal. *)
FallbackFails(o) ==
  /\ FallbackGoes(o, "placing", "recovering")
  /\ coming' \in {coming, coming \ {Fallback}}
  /\ UNCHANGED <<tracked, state, book, position, cached, slips>>

FallbackConfirmed(o) ==
  /\ Fallback \notin coming
  /\ FallbackGoes(o, "confirming", "pricing")
  /\ Forget(o)
  /\ UNCHANGED <<state, chainVars, cached, slips>>

FallbackReports(o) ==
  /\ FallbackGoes(o, "pricing", "idle")
  /\ cached' = TRUE
  /\ UNCHANGED <<tracked, state, chainVars, slips>>

FallbackUnconfirmed(o) ==
  /\ FallbackGoes(o, "confirming", "verifying")
  /\ UNCHANGED <<tracked, state, chainVars, cached, slips>>

(* The positions are not known: the order stays tracked, unless _openMaker *)
(* or the monitor has given it up meanwhile.                               *)
FallbackDefers(o) ==
  /\ \E from \in {"verifying", "recovering"} : FallbackGoes(o, from, "idle")
  /\ Slips(Dropped(o))
  /\ UNCHANGED <<tracked, state, chainVars, cached>>

FallbackFindsNothing(o) ==
  /\ position = 0
  /\ \E from \in {"verifying", "recovering"} : FallbackGoes(o, from, "idle")
  /\ Forget(o)
  /\ Slips(Out # {})
  /\ UNCHANGED <<state, chainVars, cached>>

(***************************************************************************)
(* _replaceOrder.  The caller has set the state and passes orders among    *)
(* which this one still is, so the first look never finds it gone.         *)
(***************************************************************************)
StartReplace(o) ==
  IF locked[o]
    THEN UNCHANGED <<locked, replacer>>
    ELSE /\ locked' = [locked EXCEPT ![o] = TRUE]
         /\ replacer' = [replacer EXCEPT ![o] = "cancelling"]

ReplaceGoes_ForgetsPrevious(o, from, to) ==
  /\ replacer[o] = from
  /\ replacer' = [replacer EXCEPT ![o] = to]
  /\ locked' = [locked EXCEPT ![o] = @ /\ to # "idle"]
  /\ previous' = [previous EXCEPT ![o] = IF to = "idle" THEN Entry ELSE None]
  /\ UNCHANGED <<opener, faller, canceller, monitor, position>>

ReplaceGoes(o, from, to) ==
  /\ replacer[o] = from
  /\ replacer' = [replacer EXCEPT ![o] = to]
  /\ locked' = [locked EXCEPT ![o] = @ /\ to # "idle"]
  /\ previous' = [previous EXCEPT ![o] = IF to = "placing" THEN uoid[o]
                                            ELSE IF to = "idle" THEN Entry ELSE @]
  /\ UNCHANGED <<opener, faller, canceller, monitor, position>>

BackToEntry(o) == state' = [state EXCEPT ![o] = "entry"]

NotPending(o) == pending' = [pending EXCEPT ![o] = FALSE]

ReplaceCancelled(o) ==
  /\ ReplaceGoes(o, "cancelling", "confirming")
  /\ CancelSucceeds(o)
  /\ Slips(CancelMisleads(o))
  /\ UNCHANGED <<tracked, state, uoid, pending, coming, cached>>

ReplaceNotCancelled(o) ==
  /\ \/ ReplaceGoes(o, "cancelling", "idle")
     \/ ReplaceGoes(o, "confirming", "idle")
  /\ BackToEntry(o)
  /\ UNCHANGED <<tracked, uoid, pending, book, coming, cached, slips>>

(* The cancel is confirmed by a second look at the book, and the new order *)
(* sent; one with its id already there makes the child answer without a    *)
(* signature.  An answer without orders from a child that is not ready     *)
(* confirms as well, an order that its cancel has left resting too.        *)
ReplaceSends(o) ==
  /\ ReplaceGoes(o, "confirming", IF Replace \in book THEN "idle" ELSE "placing")
  /\ pending' = [pending EXCEPT ![o] = TRUE]
  /\ coming' = IF Replace \in book THEN coming ELSE coming \union {Replace}
  /\ Slips(Dropped(o))
  /\ UNCHANGED <<tracked, state, uoid, book, cached>>

ReplaceAnswered(o) ==
  /\ state[o] # "fallback" /\ o \in tracked
  /\ ReplaceGoes(o, "placing", "appearing")
  /\ uoid' = [uoid EXCEPT ![o] = Replace]
  /\ UNCHANGED <<tracked, state, pending, book, coming, cached, slips>>

ReplaceDiscards(o) ==
  /\ state[o] = "fallback" \/ o \notin tracked
  /\ ReplaceGoes(o, "placing", "discarding")
  /\ UNCHANGED <<tracked, state, uoid, pending, book, coming, cached, slips>>

(* A lost answer leaves an order out that the code does not know: a slip. *)
ReplaceFails(o) ==
  /\ ReplaceGoes(o, "placing", "idle")
  /\ NotPending(o)
  /\ BackToEntry(o)
  /\ \/ Replace \in coming /\ coming' = coming \ {Replace} /\ slips' = slips
     \/ coming' = coming /\ Slips(TRUE)
  /\ UNCHANGED <<tracked, uoid, book, cached>>

(* InsufficientCollateral: the order counts as filled if there is a        *)
(* position, which nobody is told of.                                      *)
ReplaceLacksCollateral(o) ==
  /\ Replace \in coming
  /\ cached \/ position > 0
  /\ ReplaceGoes(o, "placing", "idle")
  /\ NotPending(o)
  /\ coming' = coming \ {Replace}
  /\ Forget(o)
  /\ UNCHANGED <<state, uoid, book, cached, slips>>

ReplaceAppears(o) ==
  /\ IsOrderActive(o, Replace)
  /\ ReplaceGoes(o, "appearing", "idle")
  /\ NotPending(o)
  /\ BackToEntry(o)
  /\ UNCHANGED <<tracked, uoid, book, coming, cached, slips>>

ReplaceAborts(o) ==
  /\ ~IsOrderActive(o, Replace)
  /\ ReplaceGoes(o, "appearing", "aborting")
  /\ UNCHANGED <<tracked, state, uoid, pending, book, coming, cached, slips>>

(* The cancel of the new order; whether it failed, or came too late, is    *)
(* not looked at.                                                          *)
ReplaceGivenUp(o) ==
  /\ book' \in {book, book \ {Replace}}
  /\ \/ /\ ReplaceGoes(o, "discarding", "idle")
        /\ UNCHANGED <<state, uoid, pending>>
     \/ /\ ReplaceGoes(o, "aborting", "idle")
        /\ NotPending(o)
        /\ BackToEntry(o)
        /\ uoid' = [uoid EXCEPT ![o] = previous[o]]
  /\ Slips(Replace \in book' \union coming \/ position > 0)
  /\ UNCHANGED <<tracked, coming, cached>>

(***************************************************************************)
(* cancelOrder: a failed cancel is a warning.                              *)
(***************************************************************************)
CancelAnswered(o) ==
  /\ canceller[o]
  /\ canceller' = [canceller EXCEPT ![o] = FALSE]
  /\ book' \in {book, book \ {uoid[o]}}
  /\ Forget(o)
  /\ Slips(book' \union coming # {} \/ NotFoundThough(o))
  /\ UNCHANGED <<state, uoid, pending, previous, locked, opener, replacer, faller,
                 monitor, coming, position, cached>>

(***************************************************************************)
(* _checkWorkingOrders, one at a time.  The orders on the book are read    *)
(* and, unless the order has gone, it is dealt with in the same turn.  The *)
(* ages and graces that the code compares are choices here.                *)
(***************************************************************************)
Monitors(o) == monitor = None /\ o \in tracked

(* The safeguard for orders older than 30 minutes looks at nothing: a slip. *)
MonitorForceRemoves(o) ==
  /\ Monitors(o)
  /\ Forget(o)
  /\ Slips(TRUE)
  /\ UNCHANGED <<state, uoid, pending, previous, locked, workVars, chainVars, cached>>

MonitorFallsBack(o) ==
  /\ Monitors(o) /\ uoid[o] \in book /\ Room
  /\ FallbackToTaker /\ CanFallback(o)
  /\ state' = [state EXCEPT ![o] = "fallback"]
  /\ StartFallback(o)
  /\ UNCHANGED <<tracked, uoid, pending, previous, opener, replacer, canceller, monitor,
                 chainVars, cached, slips>>

MonitorCancels(o) ==
  /\ Monitors(o) /\ uoid[o] \in book /\ Room
  /\ ~(FallbackToTaker /\ CanFallback(o))
  /\ canceller' = [canceller EXCEPT ![o] = TRUE]
  /\ UNCHANGED <<orderVars, opener, replacer, faller, monitor, chainVars, cached, slips>>

(* The state is set whatever it was and whether or not anything starts.    *)
MonitorReplaces(o) ==
  /\ Monitors(o) /\ uoid[o] \in book /\ Room
  /\ state' = [state EXCEPT ![o] = "replacing"]
  /\ StartReplace(o)
  /\ UNCHANGED <<tracked, uoid, pending, previous, opener, faller, canceller, monitor,
                 chainVars, cached, slips>>

(* The order is gone, or the child, not ready, has answered without orders *)
(* and the flag "live: false", which is not looked at: a slip.             *)
MonitorMissesOrder(o) ==
  /\ Monitors(o) /\ Room
  /\ monitor' = o
  /\ Slips(uoid[o] \in book)
  /\ UNCHANGED <<orderVars, opener, replacer, faller, canceller, chainVars, cached>>

MonitorFindsPosition_EndsOnly(o) ==
  /\ monitor = o /\ monitor' = None
  /\ position > 0
  /\ Forget(o)
  /\ UNCHANGED <<state, uoid, pending, previous, locked, opener, replacer, faller,
                 canceller, chainVars, cached, slips>>

MonitorFindsPosition(o) ==
  /\ monitor = o /\ monitor' = None
  /\ position > 0
  /\ Report(o)
  /\ UNCHANGED <<state, uoid, pending, previous, locked, opener, replacer, faller,
                 canceller, chainVars, slips>>

(* No answer, or a grace that is not over. *)
MonitorWaits ==
  /\ monitor # None /\ monitor' = None
  /\ UNCHANGED <<orderVars, opener, replacer, faller, canceller, chainVars, cached, slips>>

(* No position, or an answer that is not live.  An order that is late on   *)
(* the book counts as gone.                                                *)
MonitorGivesUp(o) ==
  /\ monitor = o /\ monitor' = None
  /\ IF FallbackToTaker /\ CanFallback(o)
       THEN /\ state' = [state EXCEPT ![o] = "fallback"]
            /\ StartFallback(o)
            /\ tracked' = tracked
            /\ Slips(position > 0)
       ELSE /\ Forget(o)
            /\ Slips(position > 0 \/ Out # {})
            /\ UNCHANGED <<state, locked, faller>>
  /\ UNCHANGED <<uoid, pending, previous, opener, replacer, canceller, chainVars, cached>>

(***************************************************************************)
(* The chain, and the bot around the client.                               *)
(***************************************************************************)
ChainStep == UNCHANGED <<orderVars, workVars, slips>>

(* A limit order comes to rest; a market order fills. *)
Land(i) ==
  /\ i \in coming /\ coming' = coming \ {i}
  /\ IF i = Fallback
       THEN position' = position + 1 /\ book' = book
       ELSE book' = book \union {i} /\ position' = position
  /\ UNCHANGED cached /\ ChainStep

(* Or the transaction expires or fails. *)
Expire(i) ==
  /\ i \in coming /\ coming' = coming \ {i}
  /\ UNCHANGED <<book, position, cached>> /\ ChainStep

Fill(i) ==
  /\ i \in book /\ book' = book \ {i}
  /\ position' = position + 1
  /\ UNCHANGED <<coming, cached>> /\ ChainStep

(* Cancelled on the exchange, by hand, or by the sync of untracked orders. *)
Removed(i) ==
  /\ i \in book /\ book' = book \ {i}
  /\ UNCHANGED <<coming, position, cached>> /\ ChainStep

(* getAllOpenPositions, which the bot calls, finds the position. *)
PositionSync ==
  /\ cached' = (cached \/ position > 0)
  /\ UNCHANGED chainVars /\ ChainStep

(* The bot closes the position it knows of. *)
ClosePosition ==
  /\ cached /\ cached' = FALSE
  /\ position' = 0
  /\ UNCHANGED <<book, coming>> /\ ChainStep

OpenStep(o) ==
  \/ Open(o) \/ OpenSend(o) \/ OpenDeduped(o) \/ OpenAnswered(o) \/ OpenRejected(o)
  \/ OpenTimesOut(o) \/ OpenAppears(o) \/ OpenNotFound(o) \/ OpenFindsPosition(o)
  \/ OpenGivesUp(o) \/ OpenNotAdopted(o) \/ OpenFindsOrder(o) \/ OpenForgets(o)

FallbackStep(o) ==
  \/ FallbackFindsPosition(o) \/ FallbackChecked(o) \/ FallbackCancelled(o)
  \/ FallbackCancelFails(o) \/ FallbackAnswered(o) \/ FallbackFails(o)
  \/ FallbackConfirmed(o) \/ FallbackReports(o) \/ FallbackUnconfirmed(o)
  \/ FallbackDefers(o) \/ FallbackFindsNothing(o)

ReplaceStep(o) ==
  \/ ReplaceCancelled(o) \/ ReplaceNotCancelled(o) \/ ReplaceSends(o) \/ ReplaceAnswered(o)
  \/ ReplaceDiscards(o) \/ ReplaceFails(o) \/ ReplaceLacksCollateral(o) \/ ReplaceAppears(o)
  \/ ReplaceAborts(o) \/ ReplaceGivenUp(o)

MonitorStep(o) ==
  \/ MonitorForceRemoves(o) \/ MonitorFallsBack(o) \/ MonitorCancels(o) \/ MonitorReplaces(o)
  \/ MonitorMissesOrder(o) \/ MonitorFindsPosition(o) \/ MonitorGivesUp(o)

Next ==
  \/ \E i \in Limits \union {Fallback} : Land(i) \/ Expire(i)
  \/ \E i \in Limits : Fill(i) \/ Removed(i)
  \/ PositionSync \/ ClosePosition
  \/ \E o \in Orders :
       OpenStep(o) \/ FallbackStep(o) \/ ReplaceStep(o) \/ MonitorStep(o)
         \/ CancelAnswered(o)
  \/ OpenRefused \/ MonitorWaits

Spec == Init /\ [][Next]_vars

(***************************************************************************)
(* Properties.                                                             *)
(***************************************************************************)
OpenerSteps ==
  {"idle", "pricing", "deduped", "sent", "appearing", "positioning", "adopting", "looking"}

ReplacerSteps ==
  {"idle", "cancelling", "confirming", "placing", "discarding", "appearing", "aborting"}

FallerSteps ==
  {"idle", "checking", "cancelling", "rechecking", "placing", "confirming", "verifying",
   "recovering", "pricing"}

OrderTypes ==
  /\ tracked \subseteq Orders
  /\ state \in [Orders -> {"entry", "replacing", "fallback"}]
  /\ uoid \in [Orders -> Limits] /\ previous \in [Orders -> Limits]
  /\ pending \in [Orders -> BOOLEAN] /\ locked \in [Orders -> BOOLEAN]

WorkTypes ==
  /\ opener \in [Orders -> OpenerSteps]
  /\ replacer \in [Orders -> ReplacerSteps]
  /\ faller \in [Orders -> FallerSteps]
  /\ canceller \in [Orders -> BOOLEAN]
  /\ monitor \in Orders \union {None}

ChainTypes ==
  /\ book \subseteq Limits /\ coming \subseteq Limits \union {Fallback}
  /\ position \in Nat /\ slips \in Nat /\ cached \in BOOLEAN

TypeOK == OrderTypes /\ WorkTypes /\ ChainTypes

(* The lock "to prevent concurrent replace/fallback operations" (4638) and *)
(* its release in two finally blocks: whatever the monitor starts while    *)
(* either runs, they never work on one order together.                     *)
OneOperation == \A o \in Orders : replacer[o] = "idle" \/ faller[o] = "idle"

(* Of all the orders sent for one open, those that fill and those that     *)
(* still may are one, and one more for each slip: replacing, falling back  *)
(* and opening again double a position in no other way (2321, 4706, 4927). *)
DoubledOnlyBySlips == position + Cardinality(book) + Cardinality(coming) <= 1 + slips

(* An open whose order filled is reported before nobody works on it any    *)
(* more (1049, 4333, 4960), unless one of the slips came between.          *)
FillIsReported ==
  position > 0 /\ tracked = {} /\ slips = 0 /\ (\A o \in Orders : Idle(o)) => cached

(* The safety check before a replacement "prevents trying to replace       *)
(* orders that have already been filled" (4645): when the new order is     *)
(* sent the old one has not filled.                                        *)
FilledIsNotReplaced ==
  [][\A o \in Orders :
       replacer[o] = "confirming" /\ replacer'[o] = "placing" => position = 0]_vars
=============================================================================
