------------------------ MODULE WorkingOrdersProofs ------------------------
(***************************************************************************)
(* Proofs that no working order is replaced and taken to the market at the *)
(* same time, that the ids of orders are distinct, that only slips double  *)
(* an open, and that a fill is reported; at the end, that the sync of      *)
(* untracked orders (module OrphanSync) limits its cancels.                *)
(***************************************************************************)
EXTENDS WorkingOrders, FiniteSetTheorems, TLAPS

\* The lock of an order is held exactly while one of the two works on it.
LockIsHeld ==
    \A o \in Orders : locked[o] <=> replacer[o] # "idle" \/ faller[o] # "idle"

\* _openMaker resets the lock of an order that nobody knows yet.
NewIsUnknown ==
    \A o \in Orders : opener[o] = "pricing" =>
        o \notin tracked /\ replacer[o] = "idle" /\ faller[o] = "idle"

LockInv == OneOperation /\ LockIsHeld /\ NewIsUnknown

-----------------------------------------------------------------------------

\* The remainder of a number below the modulus, and the id that results.
LEMMA IdOf ==
    ASSUME NEW k \in 0 .. 49, NEW c \in 1 .. 5
    PROVE  (((k % 51) * 5 + c) % 254) + 1 = k * 5 + c + 1
<1>1. k % 51 = k
    OBVIOUS
<1>2. k * 5 + c \in 0 .. 253
    OBVIOUS
<1>3. (k * 5 + c) % 254 = k * 5 + c
    BY <1>2
<1> QED
    BY <1>1, <1>3

LEMMA OffsetTypes == \A p \in DOMAIN PurposeOffset : PurposeOffset[p] \in 1 .. 5
BY DEF PurposeOffset

LEMMA OffsetsDiffer ==
    \A p, q \in DOMAIN PurposeOffset : PurposeOffset[p] = PurposeOffset[q] => p = q
BY DEF PurposeOffset

\* The id of an order (703-732) tells its market and its purpose, for the
\* first 50 markets: "supports up to 51 markets" (728) is one too many.
THEOREM IdsAreDistinct ==
    \A m, n \in 0 .. 49 : \A p, q \in DOMAIN PurposeOffset :
        UserOrderId(m, p) = UserOrderId(n, q) => m = n /\ p = q
<1> TAKE m, n \in 0 .. 49
<1> TAKE p, q \in DOMAIN PurposeOffset
<1> HAVE UserOrderId(m, p) = UserOrderId(n, q)
<1> DEFINE c == PurposeOffset[p]
           d == PurposeOffset[q]
<1>1. c \in 1 .. 5 /\ d \in 1 .. 5
    BY OffsetTypes
<1>2. m * 5 + c + 1 = n * 5 + d + 1
    <2>1. UserOrderId(m, p) = (((m % 51) * 5 + c) % 254) + 1
        BY DEF UserOrderId
    <2>2. UserOrderId(n, q) = (((n % 51) * 5 + d) % 254) + 1
        BY DEF UserOrderId
    <2> HIDE DEF c, d
    <2>3. (((m % 51) * 5 + c) % 254) + 1 = m * 5 + c + 1
        BY <1>1, IdOf
    <2>4. (((n % 51) * 5 + d) % 254) + 1 = n * 5 + d + 1
        BY <1>1, IdOf
    <2> QED
        BY <2>1, <2>2, <2>3, <2>4
<1>3. m = n /\ c = d
    <2> HIDE DEF c, d
    <2> QED
        BY <1>1, <1>2
<1> QED
    BY <1>3, OffsetsDiffer

LEMMA LimitIds == Entry \in Limits /\ Replace \in Limits
BY DEF Limits

-----------------------------------------------------------------------------

LEMMA TypeInit == Init => TypeOK
<1> SUFFICES ASSUME Init PROVE TypeOK
    OBVIOUS
<1>1. OrderTypes
    BY LimitIds DEF Init, OrderTypes
<1>2. WorkTypes
    BY DEF Init, WorkTypes, OpenerSteps, ReplacerSteps, FallerSteps
<1>3. ChainTypes
    BY DEF Init, ChainTypes
<1> QED
    BY <1>1, <1>2, <1>3 DEF TypeOK

\* The steps of _openMaker.
LEMMA OpenTypes == ASSUME TypeOK, NEW o \in Orders, OpenStep(o) PROVE TypeOK'
<1>1. CASE Open(o)
    <2>1. OrderTypes'
        BY <1>1, LimitIds DEF Open, TypeOK, OrderTypes, WorkTypes, ChainTypes, orderVars
    <2>2. WorkTypes'
        BY <1>1, LimitIds DEF Open, TypeOK, OrderTypes, WorkTypes, ChainTypes, workVars, OpenerSteps, ReplacerSteps, FallerSteps
    <2>3. ChainTypes'
        BY <1>1, LimitIds DEF Open, TypeOK, OrderTypes, WorkTypes, ChainTypes, chainVars
    <2> QED
        BY <2>1, <2>2, <2>3 DEF TypeOK
<1>2. CASE OpenSend(o)
    <2>1. OrderTypes'
        BY <1>2, LimitIds DEF OpenSend, TypeOK, OrderTypes, WorkTypes, ChainTypes, orderVars
    <2>2. WorkTypes'
        BY <1>2, LimitIds DEF OpenSend, TypeOK, OrderTypes, WorkTypes, ChainTypes, workVars, OpenerSteps, ReplacerSteps, FallerSteps
    <2>3. ChainTypes'
        BY <1>2, LimitIds DEF OpenSend, TypeOK, OrderTypes, WorkTypes, ChainTypes, chainVars
    <2> QED
        BY <2>1, <2>2, <2>3 DEF TypeOK
<1>3. CASE OpenDeduped(o)
    <2>1. OrderTypes'
        BY <1>3, LimitIds DEF OpenDeduped, Forget, OpenGoes, TypeOK, OrderTypes, WorkTypes, ChainTypes, orderVars
    <2>2. WorkTypes'
        BY <1>3, LimitIds DEF OpenDeduped, OpenGoes, TypeOK, OrderTypes, WorkTypes, ChainTypes, workVars, OpenerSteps, ReplacerSteps, FallerSteps
    <2>3. ChainTypes'
        BY <1>3, LimitIds DEF OpenDeduped, OpenGoes, TypeOK, OrderTypes, WorkTypes, ChainTypes, chainVars
    <2> QED
        BY <2>1, <2>2, <2>3 DEF TypeOK
<1>4. CASE OpenAnswered(o)
    <2>1. OrderTypes'
        BY <1>4, LimitIds DEF OpenAnswered, OpenGoes, TypeOK, OrderTypes, WorkTypes, ChainTypes, orderVars
    <2>2. WorkTypes'
        BY <1>4, LimitIds DEF OpenAnswered, OpenGoes, TypeOK, OrderTypes, WorkTypes, ChainTypes, workVars, OpenerSteps, ReplacerSteps, FallerSteps
    <2>3. ChainTypes'
        BY <1>4, LimitIds DEF OpenAnswered, OpenGoes, TypeOK, OrderTypes, WorkTypes, ChainTypes, chainVars
    <2> QED
        BY <2>1, <2>2, <2>3 DEF TypeOK
<1>5. CASE OpenRejected(o)
    <2>1. OrderTypes'
        BY <1>5, LimitIds DEF OpenRejected, Forget, Slips, OpenGoes, TypeOK, OrderTypes, WorkTypes, ChainTypes, orderVars
    <2>2. WorkTypes'
        BY <1>5, LimitIds DEF OpenRejected, Slips, OpenGoes, TypeOK, OrderTypes, WorkTypes, ChainTypes, workVars, OpenerSteps, ReplacerSteps, FallerSteps
    <2>3. ChainTypes'
        BY <1>5, LimitIds DEF OpenRejected, Slips, OpenGoes, TypeOK, OrderTypes, WorkTypes, ChainTypes, chainVars
    <2> QED
        BY <2>1, <2>2, <2>3 DEF TypeOK
<1>6. CASE OpenTimesOut(o)
    <2>1. OrderTypes'
        BY <1>6, LimitIds DEF OpenTimesOut, OpenGoes, TypeOK, OrderTypes, WorkTypes, ChainTypes, orderVars
    <2>2. WorkTypes'
        BY <1>6, LimitIds DEF OpenTimesOut, OpenGoes, TypeOK, OrderTypes, WorkTypes, ChainTypes, workVars, OpenerSteps, ReplacerSteps, FallerSteps
    <2>3. ChainTypes'
        BY <1>6, LimitIds DEF OpenTimesOut, OpenGoes, TypeOK, OrderTypes, WorkTypes, ChainTypes, chainVars
    <2> QED
        BY <2>1, <2>2, <2>3 DEF TypeOK
<1>7. CASE OpenAppears(o)
    <2>1. OrderTypes'
        BY <1>7, LimitIds DEF OpenAppears, OpenGoes, TypeOK, OrderTypes, WorkTypes, ChainTypes, orderVars
    <2>2. WorkTypes'
        BY <1>7, LimitIds DEF OpenAppears, OpenGoes, TypeOK, OrderTypes, WorkTypes, ChainTypes, workVars, OpenerSteps, ReplacerSteps, FallerSteps
    <2>3. ChainTypes'
        BY <1>7, LimitIds DEF OpenAppears, OpenGoes, TypeOK, OrderTypes, WorkTypes, ChainTypes, chainVars
    <2> QED
        BY <2>1, <2>2, <2>3 DEF TypeOK
<1>8. CASE OpenNotFound(o)
    <2>1. OrderTypes'
        BY <1>8, LimitIds DEF OpenNotFound, OpenGoes, TypeOK, OrderTypes, WorkTypes, ChainTypes, orderVars
    <2>2. WorkTypes'
        BY <1>8, LimitIds DEF OpenNotFound, OpenGoes, TypeOK, OrderTypes, WorkTypes, ChainTypes, workVars, OpenerSteps, ReplacerSteps, FallerSteps
    <2>3. ChainTypes'
        BY <1>8, LimitIds DEF OpenNotFound, OpenGoes, TypeOK, OrderTypes, WorkTypes, ChainTypes, chainVars
    <2> QED
        BY <2>1, <2>2, <2>3 DEF TypeOK
<1>9. CASE OpenFindsPosition(o)
    <2>1. OrderTypes'
        BY <1>9, LimitIds DEF OpenFindsPosition, Report, Forget, Slips, OpenGoes, TypeOK, OrderTypes, WorkTypes, ChainTypes, orderVars
    <2>2. WorkTypes'
        BY <1>9, LimitIds DEF OpenFindsPosition, Forget, Slips, OpenGoes, TypeOK, OrderTypes, WorkTypes, ChainTypes, workVars, OpenerSteps, ReplacerSteps, FallerSteps
    <2>3. ChainTypes'
        BY <1>9, LimitIds DEF OpenFindsPosition, Report, Forget, Slips, OpenGoes, TypeOK, OrderTypes, WorkTypes, ChainTypes, chainVars
    <2> QED
        BY <2>1, <2>2, <2>3 DEF TypeOK
<1>10. CASE OpenGivesUp(o)
    <2>1. OrderTypes'
        BY <1>10, LimitIds DEF OpenGivesUp, Forget, Slips, OpenGoes, TypeOK, OrderTypes, WorkTypes, ChainTypes, orderVars
    <2>2. WorkTypes'
        BY <1>10, LimitIds DEF OpenGivesUp, Slips, OpenGoes, TypeOK, OrderTypes, WorkTypes, ChainTypes, workVars, OpenerSteps, ReplacerSteps, FallerSteps
    <2>3. ChainTypes'
        BY <1>10, LimitIds DEF OpenGivesUp, Slips, OpenGoes, TypeOK, OrderTypes, WorkTypes, ChainTypes, chainVars
    <2> QED
        BY <2>1, <2>2, <2>3 DEF TypeOK
<1>11. CASE OpenNotAdopted(o)
    <2>1. OrderTypes'
        BY <1>11, LimitIds DEF OpenNotAdopted, OpenGoes, TypeOK, OrderTypes, WorkTypes, ChainTypes, orderVars
    <2>2. WorkTypes'
        BY <1>11, LimitIds DEF OpenNotAdopted, OpenGoes, TypeOK, OrderTypes, WorkTypes, ChainTypes, workVars, OpenerSteps, ReplacerSteps, FallerSteps
    <2>3. ChainTypes'
        BY <1>11, LimitIds DEF OpenNotAdopted, OpenGoes, TypeOK, OrderTypes, WorkTypes, ChainTypes, chainVars
    <2> QED
        BY <2>1, <2>2, <2>3 DEF TypeOK
<1>12. CASE OpenFindsOrder(o)
    <2>1. OrderTypes'
        BY <1>12, LimitIds DEF OpenFindsOrder, OpenGoes, TypeOK, OrderTypes, WorkTypes, ChainTypes, orderVars
    <2>2. WorkTypes'
        BY <1>12, LimitIds DEF OpenFindsOrder, OpenGoes, TypeOK, OrderTypes, WorkTypes, ChainTypes, workVars, OpenerSteps, ReplacerSteps, FallerSteps
    <2>3. ChainTypes'
        BY <1>12, LimitIds DEF OpenFindsOrder, OpenGoes, TypeOK, OrderTypes, WorkTypes, ChainTypes, chainVars
    <2> QED
        BY <2>1, <2>2, <2>3 DEF TypeOK
<1>13. CASE OpenForgets(o)
    <2>1. OrderTypes'
        BY <1>13, LimitIds DEF OpenForgets, Forget, Slips, OpenGoes, TypeOK, OrderTypes, WorkTypes, ChainTypes, orderVars
    <2>2. WorkTypes'
        BY <1>13, LimitIds DEF OpenForgets, Slips, OpenGoes, TypeOK, OrderTypes, WorkTypes, ChainTypes, workVars, OpenerSteps, ReplacerSteps, FallerSteps
    <2>3. ChainTypes'
        BY <1>13, LimitIds DEF OpenForgets, Slips, OpenGoes, TypeOK, OrderTypes, WorkTypes, ChainTypes, chainVars
    <2> QED
        BY <2>1, <2>2, <2>3 DEF TypeOK
<1> QED
    BY <1>1, <1>2, <1>3, <1>4, <1>5, <1>6, <1>7, <1>8, <1>9, <1>10, <1>11, <1>12, <1>13 DEF OpenStep

\* The steps of _fallbackToTaker.
LEMMA FallbackTypes == ASSUME TypeOK, NEW o \in Orders, FallbackStep(o) PROVE TypeOK'
<1>1. CASE FallbackFindsPosition(o)
    <2>1. OrderTypes'
        BY <1>1, LimitIds DEF FallbackFindsPosition, Report, Forget, FallbackGoes, TypeOK, OrderTypes, WorkTypes, ChainTypes, orderVars
    <2>2. WorkTypes'
        BY <1>1, LimitIds DEF FallbackFindsPosition, Forget, FallbackGoes, TypeOK, OrderTypes, WorkTypes, ChainTypes, workVars, OpenerSteps, ReplacerSteps, FallerSteps
    <2>3. ChainTypes'
        BY <1>1, LimitIds DEF FallbackFindsPosition, Report, Forget, FallbackGoes, TypeOK, OrderTypes, WorkTypes, ChainTypes, chainVars
    <2> QED
        BY <2>1, <2>2, <2>3 DEF TypeOK
<1>2. CASE FallbackChecked(o)
    <2>1. OrderTypes'
        BY <1>2, LimitIds DEF FallbackChecked, FallbackGoes, TypeOK, OrderTypes, WorkTypes, ChainTypes, orderVars
    <2>2. WorkTypes'
        BY <1>2, LimitIds DEF FallbackChecked, FallbackGoes, TypeOK, OrderTypes, WorkTypes, ChainTypes, workVars, OpenerSteps, ReplacerSteps, FallerSteps
    <2>3. ChainTypes'
        BY <1>2, LimitIds DEF FallbackChecked, TypeOK, OrderTypes, WorkTypes, ChainTypes, chainVars
    <2> QED
        BY <2>1, <2>2, <2>3 DEF TypeOK
<1>3. CASE FallbackCancelled(o)
    <2>1. OrderTypes'
        BY <1>3, LimitIds DEF FallbackCancelled, Slips, FallbackGoes, TypeOK, OrderTypes, WorkTypes, ChainTypes, orderVars
    <2>2. WorkTypes'
        BY <1>3, LimitIds DEF FallbackCancelled, Slips, FallbackGoes, TypeOK, OrderTypes, WorkTypes, ChainTypes, workVars, OpenerSteps, ReplacerSteps, FallerSteps
    <2>3. ChainTypes'
        BY <1>3, LimitIds DEF FallbackCancelled, CancelSucceeds, Slips, FallbackGoes, TypeOK, OrderTypes, WorkTypes, ChainTypes, chainVars
    <2> QED
        BY <2>1, <2>2, <2>3 DEF TypeOK
<1>4. CASE FallbackCancelFails(o)
    <2>1. OrderTypes'
        BY <1>4, LimitIds DEF FallbackCancelFails, FallbackGoes, TypeOK, OrderTypes, WorkTypes, ChainTypes, orderVars
    <2>2. WorkTypes'
        BY <1>4, LimitIds DEF FallbackCancelFails, FallbackGoes, TypeOK, OrderTypes, WorkTypes, ChainTypes, workVars, OpenerSteps, ReplacerSteps, FallerSteps
    <2>3. ChainTypes'
        BY <1>4, LimitIds DEF FallbackCancelFails, Slips, FallbackGoes, TypeOK, OrderTypes, WorkTypes, ChainTypes, chainVars
    <2> QED
        BY <2>1, <2>2, <2>3 DEF TypeOK
<1>5. CASE FallbackAnswered(o)
    <2>1. OrderTypes'
        BY <1>5, LimitIds DEF FallbackAnswered, FallbackGoes, TypeOK, OrderTypes, WorkTypes, ChainTypes, orderVars
    <2>2. WorkTypes'
        BY <1>5, LimitIds DEF FallbackAnswered, FallbackGoes, TypeOK, OrderTypes, WorkTypes, ChainTypes, workVars, OpenerSteps, ReplacerSteps, FallerSteps
    <2>3. ChainTypes'
        BY <1>5, LimitIds DEF FallbackAnswered, TypeOK, OrderTypes, WorkTypes, ChainTypes, chainVars
    <2> QED
        BY <2>1, <2>2, <2>3 DEF TypeOK
<1>6. CASE FallbackFails(o)
    <2>1. OrderTypes'
        BY <1>6, LimitIds DEF FallbackFails, FallbackGoes, TypeOK, OrderTypes, WorkTypes, ChainTypes, orderVars
    <2>2. WorkTypes'
        BY <1>6, LimitIds DEF FallbackFails, FallbackGoes, TypeOK, OrderTypes, WorkTypes, ChainTypes, workVars, OpenerSteps, ReplacerSteps, FallerSteps
    <2>3. ChainTypes'
        BY <1>6, LimitIds DEF FallbackFails, TypeOK, OrderTypes, WorkTypes, ChainTypes, chainVars
    <2> QED
        BY <2>1, <2>2, <2>3 DEF TypeOK
<1>7. CASE FallbackConfirmed(o)
    <2>1. OrderTypes'
        BY <1>7, LimitIds DEF FallbackConfirmed, Forget, FallbackGoes, TypeOK, OrderTypes, WorkTypes, ChainTypes, orderVars
    <2>2. WorkTypes'
        BY <1>7, LimitIds DEF FallbackConfirmed, FallbackGoes, TypeOK, OrderTypes, WorkTypes, ChainTypes, workVars, OpenerSteps, ReplacerSteps, FallerSteps
    <2>3. ChainTypes'
        BY <1>7, LimitIds DEF FallbackConfirmed, FallbackGoes, TypeOK, OrderTypes, WorkTypes, ChainTypes, chainVars
    <2> QED
        BY <2>1, <2>2, <2>3 DEF TypeOK
<1>8. CASE FallbackReports(o)
    <2>1. OrderTypes'
        BY <1>8, LimitIds DEF FallbackReports, FallbackGoes, TypeOK, OrderTypes, WorkTypes, ChainTypes, orderVars
    <2>2. WorkTypes'
        BY <1>8, LimitIds DEF FallbackReports, FallbackGoes, TypeOK, OrderTypes, WorkTypes, ChainTypes, workVars, OpenerSteps, ReplacerSteps, FallerSteps
    <2>3. ChainTypes'
        BY <1>8, LimitIds DEF FallbackReports, TypeOK, OrderTypes, WorkTypes, ChainTypes, chainVars
    <2> QED
        BY <2>1, <2>2, <2>3 DEF TypeOK
<1>9. CASE FallbackUnconfirmed(o)
    <2>1. OrderTypes'
        BY <1>9, LimitIds DEF FallbackUnconfirmed, FallbackGoes, TypeOK, OrderTypes, WorkTypes, ChainTypes, orderVars
    <2>2. WorkTypes'
        BY <1>9, LimitIds DEF FallbackUnconfirmed, FallbackGoes, TypeOK, OrderTypes, WorkTypes, ChainTypes, workVars, OpenerSteps, ReplacerSteps, FallerSteps
    <2>3. ChainTypes'
        BY <1>9, LimitIds DEF FallbackUnconfirmed, TypeOK, OrderTypes, WorkTypes, ChainTypes, chainVars
    <2> QED
        BY <2>1, <2>2, <2>3 DEF TypeOK
<1>10. CASE FallbackDefers(o)
    <2>1. OrderTypes'
        BY <1>10, LimitIds DEF FallbackDefers, Slips, FallbackGoes, TypeOK, OrderTypes, WorkTypes, ChainTypes, orderVars
    <2>2. WorkTypes'
        BY <1>10, LimitIds DEF FallbackDefers, Slips, FallbackGoes, TypeOK, OrderTypes, WorkTypes, ChainTypes, workVars, OpenerSteps, ReplacerSteps, FallerSteps
    <2>3. ChainTypes'
        BY <1>10, LimitIds DEF FallbackDefers, Slips, FallbackGoes, TypeOK, OrderTypes, WorkTypes, ChainTypes, chainVars
    <2> QED
        BY <2>1, <2>2, <2>3 DEF TypeOK
<1>11. CASE FallbackFindsNothing(o)
    <2>1. OrderTypes'
        BY <1>11, LimitIds DEF FallbackFindsNothing, Forget, Slips, FallbackGoes, TypeOK, OrderTypes, WorkTypes, ChainTypes, orderVars
    <2>2. WorkTypes'
        BY <1>11, LimitIds DEF FallbackFindsNothing, Slips, FallbackGoes, TypeOK, OrderTypes, WorkTypes, ChainTypes, workVars, OpenerSteps, ReplacerSteps, FallerSteps
    <2>3. ChainTypes'
        BY <1>11, LimitIds DEF FallbackFindsNothing, Slips, FallbackGoes, TypeOK, OrderTypes, WorkTypes, ChainTypes, chainVars
    <2> QED
        BY <2>1, <2>2, <2>3 DEF TypeOK
<1> QED
    BY <1>1, <1>2, <1>3, <1>4, <1>5, <1>6, <1>7, <1>8, <1>9, <1>10, <1>11 DEF FallbackStep

\* The steps of _replaceOrder.
LEMMA ReplaceTypes == ASSUME TypeOK, NEW o \in Orders, ReplaceStep(o) PROVE TypeOK'
<1>1. CASE ReplaceCancelled(o)
    <2>1. OrderTypes'
        BY <1>1, LimitIds DEF ReplaceCancelled, ReplaceGoes, TypeOK, OrderTypes, WorkTypes, ChainTypes, orderVars
    <2>2. WorkTypes'
        BY <1>1, LimitIds DEF ReplaceCancelled, ReplaceGoes, TypeOK, OrderTypes, WorkTypes, ChainTypes, workVars, OpenerSteps, ReplacerSteps, FallerSteps
    <2>3. ChainTypes'
        BY <1>1, LimitIds DEF ReplaceCancelled, CancelSucceeds, Slips, ReplaceGoes, TypeOK, OrderTypes, WorkTypes, ChainTypes, chainVars
    <2> QED
        BY <2>1, <2>2, <2>3 DEF TypeOK
<1>2. CASE ReplaceNotCancelled(o)
    <2>1. OrderTypes'
        <3>1. tracked' \subseteq Orders
            BY <1>2, LimitIds DEF ReplaceNotCancelled, ReplaceGoes, TypeOK, OrderTypes
        <3>2. state' \in [Orders -> {"entry", "replacing", "fallback"}]
            BY <1>2, LimitIds DEF ReplaceNotCancelled, BackToEntry, ReplaceGoes, TypeOK, OrderTypes
        <3>3. uoid' \in [Orders -> Limits]
            BY <1>2, LimitIds DEF ReplaceNotCancelled, ReplaceGoes, TypeOK, OrderTypes
        <3>4. previous' \in [Orders -> Limits]
            BY <1>2, LimitIds DEF ReplaceNotCancelled, ReplaceGoes, TypeOK, OrderTypes
        <3>5. pending' \in [Orders -> BOOLEAN]
            BY <1>2, LimitIds DEF ReplaceNotCancelled, ReplaceGoes, TypeOK, OrderTypes
        <3>6. locked' \in [Orders -> BOOLEAN]
            BY <1>2, LimitIds DEF ReplaceNotCancelled, ReplaceGoes, TypeOK, OrderTypes
        <3> QED
            BY <3>1, <3>2, <3>3, <3>4, <3>5, <3>6 DEF OrderTypes
    <2>2. WorkTypes'
        BY <1>2, LimitIds DEF ReplaceNotCancelled, ReplaceGoes, TypeOK, OrderTypes, WorkTypes, ChainTypes, workVars, OpenerSteps, ReplacerSteps, FallerSteps
    <2>3. ChainTypes'
        BY <1>2, LimitIds DEF ReplaceNotCancelled, ReplaceGoes, TypeOK, OrderTypes, WorkTypes, ChainTypes, chainVars
    <2> QED
        BY <2>1, <2>2, <2>3 DEF TypeOK
<1>3. CASE ReplaceSends(o)
    <2>1. OrderTypes'
        BY <1>3, LimitIds DEF ReplaceSends, Slips, ReplaceGoes, TypeOK, OrderTypes, WorkTypes, ChainTypes, orderVars
    <2>2. WorkTypes'
        BY <1>3, LimitIds DEF ReplaceSends, Slips, ReplaceGoes, TypeOK, OrderTypes, WorkTypes, ChainTypes, workVars, OpenerSteps, ReplacerSteps, FallerSteps
    <2>3. ChainTypes'
        BY <1>3, LimitIds DEF ReplaceSends, Slips, ReplaceGoes, TypeOK, OrderTypes, WorkTypes, ChainTypes, chainVars
    <2> QED
        BY <2>1, <2>2, <2>3 DEF TypeOK
<1>4. CASE ReplaceAnswered(o)
    <2>1. OrderTypes'
        BY <1>4, LimitIds DEF ReplaceAnswered, ReplaceGoes, TypeOK, OrderTypes, WorkTypes, ChainTypes, orderVars
    <2>2. WorkTypes'
        BY <1>4, LimitIds DEF ReplaceAnswered, ReplaceGoes, TypeOK, OrderTypes, WorkTypes, ChainTypes, workVars, OpenerSteps, ReplacerSteps, FallerSteps
    <2>3. ChainTypes'
        BY <1>4, LimitIds DEF ReplaceAnswered, ReplaceGoes, TypeOK, OrderTypes, WorkTypes, ChainTypes, chainVars
    <2> QED
        BY <2>1, <2>2, <2>3 DEF TypeOK
<1>5. CASE ReplaceDiscards(o)
    <2>1. OrderTypes'
        BY <1>5, LimitIds DEF ReplaceDiscards, ReplaceGoes, TypeOK, OrderTypes, WorkTypes, ChainTypes, orderVars
    <2>2. WorkTypes'
        BY <1>5, LimitIds DEF ReplaceDiscards, ReplaceGoes, TypeOK, OrderTypes, WorkTypes, ChainTypes, workVars, OpenerSteps, ReplacerSteps, FallerSteps
    <2>3. ChainTypes'
        BY <1>5, LimitIds DEF ReplaceDiscards, ReplaceGoes, TypeOK, OrderTypes, WorkTypes, ChainTypes, chainVars
    <2> QED
        BY <2>1, <2>2, <2>3 DEF TypeOK
<1>6. CASE ReplaceFails(o)
    <2>1. OrderTypes'
        BY <1>6, LimitIds DEF ReplaceFails, NotPending, BackToEntry, Slips, ReplaceGoes, TypeOK, OrderTypes, WorkTypes, ChainTypes, orderVars
    <2>2. WorkTypes'
        BY <1>6, LimitIds DEF ReplaceFails, BackToEntry, Slips, ReplaceGoes, TypeOK, OrderTypes, WorkTypes, ChainTypes, workVars, OpenerSteps, ReplacerSteps, FallerSteps
    <2>3. ChainTypes'
        BY <1>6, LimitIds DEF ReplaceFails, BackToEntry, Slips, ReplaceGoes, TypeOK, OrderTypes, WorkTypes, ChainTypes, chainVars
    <2> QED
        BY <2>1, <2>2, <2>3 DEF TypeOK
<1>7. CASE ReplaceLacksCollateral(o)
    <2>1. OrderTypes'
        BY <1>7, LimitIds DEF ReplaceLacksCollateral, NotPending, Forget, ReplaceGoes, TypeOK, OrderTypes, WorkTypes, ChainTypes, orderVars
    <2>2. WorkTypes'
        BY <1>7, LimitIds DEF ReplaceLacksCollateral, Forget, ReplaceGoes, TypeOK, OrderTypes, WorkTypes, ChainTypes, workVars, OpenerSteps, ReplacerSteps, FallerSteps
    <2>3. ChainTypes'
        BY <1>7, LimitIds DEF ReplaceLacksCollateral, Forget, ReplaceGoes, TypeOK, OrderTypes, WorkTypes, ChainTypes, chainVars
    <2> QED
        BY <2>1, <2>2, <2>3 DEF TypeOK
<1>8. CASE ReplaceAppears(o)
    <2>1. OrderTypes'
        BY <1>8, LimitIds DEF ReplaceAppears, NotPending, BackToEntry, ReplaceGoes, TypeOK, OrderTypes, WorkTypes, ChainTypes, orderVars
    <2>2. WorkTypes'
        BY <1>8, LimitIds DEF ReplaceAppears, BackToEntry, ReplaceGoes, TypeOK, OrderTypes, WorkTypes, ChainTypes, workVars, OpenerSteps, ReplacerSteps, FallerSteps
    <2>3. ChainTypes'
        BY <1>8, LimitIds DEF ReplaceAppears, BackToEntry, ReplaceGoes, TypeOK, OrderTypes, WorkTypes, ChainTypes, chainVars
    <2> QED
        BY <2>1, <2>2, <2>3 DEF TypeOK
<1>9. CASE ReplaceAborts(o)
    <2>1. OrderTypes'
        BY <1>9, LimitIds DEF ReplaceAborts, ReplaceGoes, TypeOK, OrderTypes, WorkTypes, ChainTypes, orderVars
    <2>2. WorkTypes'
        BY <1>9, LimitIds DEF ReplaceAborts, ReplaceGoes, TypeOK, OrderTypes, WorkTypes, ChainTypes, workVars, OpenerSteps, ReplacerSteps, FallerSteps
    <2>3. ChainTypes'
        BY <1>9, LimitIds DEF ReplaceAborts, ReplaceGoes, TypeOK, OrderTypes, WorkTypes, ChainTypes, chainVars
    <2> QED
        BY <2>1, <2>2, <2>3 DEF TypeOK
<1>10. CASE ReplaceGivenUp(o)
    <2>1. OrderTypes'
        <3>1. tracked' \subseteq Orders
            BY <1>10, LimitIds DEF ReplaceGivenUp, BackToEntry, Slips, ReplaceGoes, TypeOK, OrderTypes
        <3>2. state' \in [Orders -> {"entry", "replacing", "fallback"}]
            BY <1>10, LimitIds DEF ReplaceGivenUp, BackToEntry, Slips, ReplaceGoes, TypeOK, OrderTypes
        <3>3. uoid' \in [Orders -> Limits]
            BY <1>10, LimitIds DEF ReplaceGivenUp, BackToEntry, Slips, ReplaceGoes, TypeOK, OrderTypes
        <3>4. previous' \in [Orders -> Limits]
            BY <1>10, LimitIds DEF ReplaceGivenUp, BackToEntry, Slips, ReplaceGoes, TypeOK, OrderTypes
        <3>5. pending' \in [Orders -> BOOLEAN]
            BY <1>10, LimitIds DEF ReplaceGivenUp, NotPending, BackToEntry, Slips, ReplaceGoes, TypeOK, OrderTypes
        <3>6. locked' \in [Orders -> BOOLEAN]
            BY <1>10, LimitIds DEF ReplaceGivenUp, BackToEntry, Slips, ReplaceGoes, TypeOK, OrderTypes
        <3> QED
            BY <3>1, <3>2, <3>3, <3>4, <3>5, <3>6 DEF OrderTypes
    <2>2. WorkTypes'
        BY <1>10, LimitIds DEF ReplaceGivenUp, BackToEntry, Slips, ReplaceGoes, TypeOK, OrderTypes, WorkTypes, ChainTypes, workVars, OpenerSteps, ReplacerSteps, FallerSteps
    <2>3. ChainTypes'
        BY <1>10, LimitIds DEF ReplaceGivenUp, BackToEntry, Slips, ReplaceGoes, TypeOK, OrderTypes, WorkTypes, ChainTypes, chainVars
    <2> QED
        BY <2>1, <2>2, <2>3 DEF TypeOK
<1> QED
    BY <1>1, <1>2, <1>3, <1>4, <1>5, <1>6, <1>7, <1>8, <1>9, <1>10 DEF ReplaceStep

\* The steps of the monitor.
LEMMA MonitorTypes == ASSUME TypeOK, NEW o \in Orders, MonitorStep(o) PROVE TypeOK'
<1>1. CASE MonitorForceRemoves(o)
    <2>1. OrderTypes'
        BY <1>1, LimitIds DEF MonitorForceRemoves, Forget, Slips, TypeOK, OrderTypes, WorkTypes, ChainTypes, orderVars
    <2>2. WorkTypes'
        BY <1>1, LimitIds DEF MonitorForceRemoves, Forget, Slips, TypeOK, OrderTypes, WorkTypes, ChainTypes, workVars, OpenerSteps, ReplacerSteps, FallerSteps
    <2>3. ChainTypes'
        BY <1>1, LimitIds DEF MonitorForceRemoves, Forget, Slips, TypeOK, OrderTypes, WorkTypes, ChainTypes, chainVars
    <2> QED
        BY <2>1, <2>2, <2>3 DEF TypeOK
<1>2. CASE MonitorFallsBack(o)
    <2>1. OrderTypes'
        BY <1>2, LimitIds DEF MonitorFallsBack, StartFallback, TypeOK, OrderTypes, WorkTypes, ChainTypes, orderVars
    <2>2. WorkTypes'
        BY <1>2, LimitIds DEF MonitorFallsBack, StartFallback, TypeOK, OrderTypes, WorkTypes, ChainTypes, workVars, OpenerSteps, ReplacerSteps, FallerSteps
    <2>3. ChainTypes'
        BY <1>2, LimitIds DEF MonitorFallsBack, StartFallback, TypeOK, OrderTypes, WorkTypes, ChainTypes, chainVars
    <2> QED
        BY <2>1, <2>2, <2>3 DEF TypeOK
<1>3. CASE MonitorCancels(o)
    <2>1. OrderTypes'
        BY <1>3, LimitIds DEF MonitorCancels, TypeOK, OrderTypes, WorkTypes, ChainTypes, orderVars
    <2>2. WorkTypes'
        BY <1>3, LimitIds DEF MonitorCancels, TypeOK, OrderTypes, WorkTypes, ChainTypes, workVars, OpenerSteps, ReplacerSteps, FallerSteps
    <2>3. ChainTypes'
        BY <1>3, LimitIds DEF MonitorCancels, TypeOK, OrderTypes, WorkTypes, ChainTypes, chainVars
    <2> QED
        BY <2>1, <2>2, <2>3 DEF TypeOK
<1>4. CASE MonitorReplaces(o)
    <2>1. OrderTypes'
        BY <1>4, LimitIds DEF MonitorReplaces, StartReplace, TypeOK, OrderTypes, WorkTypes, ChainTypes, orderVars
    <2>2. WorkTypes'
        BY <1>4, LimitIds DEF MonitorReplaces, StartReplace, TypeOK, OrderTypes, WorkTypes, ChainTypes, workVars, OpenerSteps, ReplacerSteps, FallerSteps
    <2>3. ChainTypes'
        BY <1>4, LimitIds DEF MonitorReplaces, StartReplace, TypeOK, OrderTypes, WorkTypes, ChainTypes, chainVars
    <2> QED
        BY <2>1, <2>2, <2>3 DEF TypeOK
<1>5. CASE MonitorMissesOrder(o)
    <2>1. OrderTypes'
        BY <1>5, LimitIds DEF MonitorMissesOrder, TypeOK, OrderTypes, WorkTypes, ChainTypes, orderVars
    <2>2. WorkTypes'
        BY <1>5, LimitIds DEF MonitorMissesOrder, TypeOK, OrderTypes, WorkTypes, ChainTypes, workVars, OpenerSteps, ReplacerSteps, FallerSteps
    <2>3. ChainTypes'
        BY <1>5, LimitIds DEF MonitorMissesOrder, Slips, TypeOK, OrderTypes, WorkTypes, ChainTypes, chainVars
    <2> QED
        BY <2>1, <2>2, <2>3 DEF TypeOK
<1>6. CASE MonitorFindsPosition(o)
    <2>1. OrderTypes'
        BY <1>6, LimitIds DEF MonitorFindsPosition, Report, Forget, Slips, TypeOK, OrderTypes, WorkTypes, ChainTypes, orderVars
    <2>2. WorkTypes'
        BY <1>6, LimitIds DEF MonitorFindsPosition, Forget, Slips, TypeOK, OrderTypes, WorkTypes, ChainTypes, workVars, OpenerSteps, ReplacerSteps, FallerSteps
    <2>3. ChainTypes'
        BY <1>6, LimitIds DEF MonitorFindsPosition, Report, Forget, Slips, TypeOK, OrderTypes, WorkTypes, ChainTypes, chainVars
    <2> QED
        BY <2>1, <2>2, <2>3 DEF TypeOK
<1>7. CASE MonitorGivesUp(o)
    <2>1. OrderTypes'
        BY <1>7, LimitIds DEF MonitorGivesUp, StartFallback, Forget, Slips, TypeOK, OrderTypes, WorkTypes, ChainTypes, orderVars
    <2>2. WorkTypes'
        BY <1>7, LimitIds DEF MonitorGivesUp, StartFallback, Forget, Slips, TypeOK, OrderTypes, WorkTypes, ChainTypes, workVars, OpenerSteps, ReplacerSteps, FallerSteps
    <2>3. ChainTypes'
        BY <1>7, LimitIds DEF MonitorGivesUp, Forget, Slips, TypeOK, OrderTypes, WorkTypes, ChainTypes, chainVars
    <2> QED
        BY <2>1, <2>2, <2>3 DEF TypeOK
<1> QED
    BY <1>1, <1>2, <1>3, <1>4, <1>5, <1>6, <1>7 DEF MonitorStep

LEMMA TypeStep == TypeOK /\ [Next]_vars => TypeOK'
<1> SUFFICES ASSUME TypeOK, [Next]_vars PROVE TypeOK'
    OBVIOUS
<1>1. ASSUME NEW o \in Orders, OpenStep(o) PROVE TypeOK'
    BY <1>1, OpenTypes
<1>2. ASSUME NEW o \in Orders, FallbackStep(o) PROVE TypeOK'
    BY <1>2, FallbackTypes
<1>3. ASSUME NEW o \in Orders, ReplaceStep(o) PROVE TypeOK'
    BY <1>3, ReplaceTypes
<1>4. ASSUME NEW o \in Orders, MonitorStep(o) PROVE TypeOK'
    BY <1>4, MonitorTypes
<1>5. ASSUME NEW o \in Orders, CancelAnswered(o) PROVE TypeOK'
    <2>1. OrderTypes'
        BY <1>5 DEF CancelAnswered, Forget, Slips, TypeOK, OrderTypes, WorkTypes, ChainTypes, orderVars
    <2>2. WorkTypes'
        BY <1>5 DEF CancelAnswered, Slips, TypeOK, OrderTypes, WorkTypes, ChainTypes, workVars, OpenerSteps, ReplacerSteps, FallerSteps
    <2>3. ChainTypes'
        BY <1>5 DEF CancelAnswered, Slips, TypeOK, OrderTypes, WorkTypes, ChainTypes, chainVars
    <2> QED
        BY <2>1, <2>2, <2>3 DEF TypeOK
<1>6. CASE OpenRefused
    <2>1. OrderTypes'
        BY <1>6 DEF OpenRefused, workVars, chainVars, TypeOK, OrderTypes, WorkTypes, ChainTypes, orderVars
    <2>2. WorkTypes'
        BY <1>6 DEF OpenRefused, workVars, chainVars, TypeOK, OrderTypes, WorkTypes, ChainTypes, workVars, OpenerSteps, ReplacerSteps, FallerSteps
    <2>3. ChainTypes'
        BY <1>6 DEF OpenRefused, workVars, chainVars, TypeOK, OrderTypes, WorkTypes, ChainTypes, chainVars
    <2> QED
        BY <2>1, <2>2, <2>3 DEF TypeOK
<1>7. CASE MonitorWaits
    <2>1. OrderTypes'
        BY <1>7 DEF MonitorWaits, workVars, chainVars, TypeOK, OrderTypes, WorkTypes, ChainTypes, orderVars
    <2>2. WorkTypes'
        BY <1>7 DEF MonitorWaits, workVars, chainVars, TypeOK, OrderTypes, WorkTypes, ChainTypes, workVars, OpenerSteps, ReplacerSteps, FallerSteps
    <2>3. ChainTypes'
        BY <1>7 DEF MonitorWaits, workVars, chainVars, TypeOK, OrderTypes, WorkTypes, ChainTypes, chainVars
    <2> QED
        BY <2>1, <2>2, <2>3 DEF TypeOK
<1>8. CASE PositionSync
    <2>1. OrderTypes'
        BY <1>8 DEF PositionSync, ChainStep, orderVars, workVars, chainVars, TypeOK, OrderTypes, WorkTypes, ChainTypes, orderVars
    <2>2. WorkTypes'
        BY <1>8 DEF PositionSync, ChainStep, orderVars, workVars, chainVars, TypeOK, OrderTypes, WorkTypes, ChainTypes, workVars, OpenerSteps, ReplacerSteps, FallerSteps
    <2>3. ChainTypes'
        BY <1>8 DEF PositionSync, ChainStep, orderVars, workVars, chainVars, TypeOK, OrderTypes, WorkTypes, ChainTypes, chainVars
    <2> QED
        BY <2>1, <2>2, <2>3 DEF TypeOK
<1>9. CASE ClosePosition
    <2>1. OrderTypes'
        BY <1>9 DEF ClosePosition, ChainStep, orderVars, workVars, chainVars, TypeOK, OrderTypes, WorkTypes, ChainTypes, orderVars
    <2>2. WorkTypes'
        BY <1>9 DEF ClosePosition, ChainStep, orderVars, workVars, chainVars, TypeOK, OrderTypes, WorkTypes, ChainTypes, workVars, OpenerSteps, ReplacerSteps, FallerSteps
    <2>3. ChainTypes'
        BY <1>9 DEF ClosePosition, ChainStep, orderVars, workVars, chainVars, TypeOK, OrderTypes, WorkTypes, ChainTypes, chainVars
    <2> QED
        BY <2>1, <2>2, <2>3 DEF TypeOK
<1>10. ASSUME NEW i \in Limits \union {Fallback}, Land(i) PROVE TypeOK'
    <2>1. OrderTypes'
        BY <1>10 DEF Land, ChainStep, orderVars, workVars, chainVars, TypeOK, OrderTypes, WorkTypes, ChainTypes, orderVars
    <2>2. WorkTypes'
        BY <1>10 DEF Land, ChainStep, orderVars, workVars, chainVars, TypeOK, OrderTypes, WorkTypes, ChainTypes, workVars, OpenerSteps, ReplacerSteps, FallerSteps
    <2>3. ChainTypes'
        BY <1>10 DEF Land, ChainStep, orderVars, workVars, chainVars, TypeOK, OrderTypes, WorkTypes, ChainTypes, chainVars
    <2> QED
        BY <2>1, <2>2, <2>3 DEF TypeOK
<1>11. ASSUME NEW i \in Limits \union {Fallback}, Expire(i) PROVE TypeOK'
    <2>1. OrderTypes'
        BY <1>11 DEF Expire, ChainStep, orderVars, workVars, chainVars, TypeOK, OrderTypes, WorkTypes, ChainTypes, orderVars
    <2>2. WorkTypes'
        BY <1>11 DEF Expire, ChainStep, orderVars, workVars, chainVars, TypeOK, OrderTypes, WorkTypes, ChainTypes, workVars, OpenerSteps, ReplacerSteps, FallerSteps
    <2>3. ChainTypes'
        BY <1>11 DEF Expire, ChainStep, orderVars, workVars, chainVars, TypeOK, OrderTypes, WorkTypes, ChainTypes, chainVars
    <2> QED
        BY <2>1, <2>2, <2>3 DEF TypeOK
<1>12. ASSUME NEW i \in Limits, Fill(i) PROVE TypeOK'
    <2>1. OrderTypes'
        BY <1>12 DEF Fill, ChainStep, orderVars, workVars, chainVars, TypeOK, OrderTypes, WorkTypes, ChainTypes, orderVars
    <2>2. WorkTypes'
        BY <1>12 DEF Fill, ChainStep, orderVars, workVars, chainVars, TypeOK, OrderTypes, WorkTypes, ChainTypes, workVars, OpenerSteps, ReplacerSteps, FallerSteps
    <2>3. ChainTypes'
        BY <1>12 DEF Fill, ChainStep, orderVars, workVars, chainVars, TypeOK, OrderTypes, WorkTypes, ChainTypes, chainVars
    <2> QED
        BY <2>1, <2>2, <2>3 DEF TypeOK
<1>13. ASSUME NEW i \in Limits, Removed(i) PROVE TypeOK'
    <2>1. OrderTypes'
        BY <1>13 DEF Removed, ChainStep, orderVars, workVars, chainVars, TypeOK, OrderTypes, WorkTypes, ChainTypes, orderVars
    <2>2. WorkTypes'
        BY <1>13 DEF Removed, ChainStep, orderVars, workVars, chainVars, TypeOK, OrderTypes, WorkTypes, ChainTypes, workVars, OpenerSteps, ReplacerSteps, FallerSteps
    <2>3. ChainTypes'
        BY <1>13 DEF Removed, ChainStep, orderVars, workVars, chainVars, TypeOK, OrderTypes, WorkTypes, ChainTypes, chainVars
    <2> QED
        BY <2>1, <2>2, <2>3 DEF TypeOK
<1>14. CASE UNCHANGED vars
    <2>1. OrderTypes'
        BY <1>14 DEF vars, workVars, chainVars, TypeOK, OrderTypes, WorkTypes, ChainTypes, orderVars
    <2>2. WorkTypes'
        BY <1>14 DEF vars, workVars, chainVars, TypeOK, OrderTypes, WorkTypes, ChainTypes, workVars, OpenerSteps, ReplacerSteps, FallerSteps
    <2>3. ChainTypes'
        BY <1>14 DEF vars, workVars, chainVars, TypeOK, OrderTypes, WorkTypes, ChainTypes, chainVars
    <2> QED
        BY <2>1, <2>2, <2>3 DEF TypeOK
<1> QED
    BY <1>1, <1>2, <1>3, <1>4, <1>5, <1>6, <1>7, <1>8, <1>9, <1>10, <1>11, <1>12, <1>13, <1>14 DEF Next

\* The variables keep their types: in particular a replacement always knows
\* the id to go back to (4735-4865).
THEOREM TypeCorrect == Spec => []TypeOK
<1>1. Init => TypeOK
    BY TypeInit
<1>2. TypeOK /\ [Next]_vars => TypeOK'
    BY TypeStep
<1> QED
    BY <1>1, <1>2, PTL DEF Spec

-----------------------------------------------------------------------------

LEMMA LockInit == Init => LockInv
BY DEF Init, LockInv, OneOperation, LockIsHeld, NewIsUnknown

\* Steps that leave the lock and those who hold it alone.
LEMMA LockAlone ==
    ASSUME LockInv, UNCHANGED <<locked, replacer, faller>>, tracked' \subseteq tracked,
           \A p \in Orders : opener'[p] = "pricing" => opener[p] = "pricing"
    PROVE  LockInv'
BY DEF LockInv, OneOperation, LockIsHeld, NewIsUnknown

\* The steps of a fallback that runs keep or release the lock.
LEMMA LockFallback ==
    ASSUME TypeOK, LockInv, NEW o \in Orders, NEW from \in FallerSteps, NEW to \in FallerSteps,
           from # "idle", FallbackGoes(o, from, to), tracked' \subseteq tracked
    PROVE  LockInv'
<1> USE DEF TypeOK, OrderTypes, WorkTypes, FallbackGoes, LockInv
<1>1. OneOperation'
    BY DEF OneOperation
<1>2. LockIsHeld'
    BY DEF OneOperation, LockIsHeld
<1>3. NewIsUnknown'
    BY DEF NewIsUnknown
<1> QED
    BY <1>1, <1>2, <1>3

\* So do those of a replacement.
LEMMA LockReplace ==
    ASSUME TypeOK, LockInv, NEW o \in Orders, NEW from \in ReplacerSteps,
           NEW to \in ReplacerSteps,
           from # "idle", ReplaceGoes(o, from, to), tracked' \subseteq tracked
    PROVE  LockInv'
<1> USE DEF TypeOK, OrderTypes, WorkTypes, ReplaceGoes, LockInv
<1>1. OneOperation'
    BY DEF OneOperation
<1>2. LockIsHeld'
    BY DEF OneOperation, LockIsHeld
<1>3. NewIsUnknown'
    BY DEF NewIsUnknown
<1> QED
    BY <1>1, <1>2, <1>3

\* Whoever starts work on an order takes the lock first.
LEMMA LockStarts ==
    ASSUME TypeOK, LockInv, NEW o \in tracked, UNCHANGED <<tracked, opener>>,
           \/ StartFallback(o) /\ UNCHANGED replacer
           \/ StartReplace(o) /\ UNCHANGED faller
    PROVE  LockInv'
<1> USE DEF TypeOK, OrderTypes, WorkTypes, LockInv
<1>1. CASE StartFallback(o) /\ UNCHANGED replacer
    BY <1>1 DEF StartFallback, OneOperation, LockIsHeld, NewIsUnknown
<1>2. CASE StartReplace(o) /\ UNCHANGED faller
    BY <1>2 DEF StartReplace, OneOperation, LockIsHeld, NewIsUnknown
<1> QED
    BY <1>1, <1>2

LEMMA LockStep == TypeOK /\ LockInv /\ [Next]_vars => LockInv'
<1> SUFFICES ASSUME TypeOK, LockInv, [Next]_vars PROVE LockInv'
    OBVIOUS
<1>1. ASSUME NEW o \in Orders, Open(o) PROVE LockInv'
    BY <1>1 DEF Open, Idle, orderVars, chainVars, LockInv, OneOperation, LockIsHeld, NewIsUnknown, TypeOK, WorkTypes
<1>2. ASSUME NEW o \in Orders, OpenSend(o) PROVE LockInv'
    BY <1>2 DEF OpenSend, LockInv, OneOperation, LockIsHeld, NewIsUnknown, TypeOK, OrderTypes, WorkTypes
<1>3. ASSUME NEW o \in Orders, OpenDeduped(o) PROVE LockInv'
    <2>1. UNCHANGED <<locked, replacer, faller>> /\ tracked' \subseteq tracked
        BY <1>3 DEF OpenDeduped, Forget, OpenGoes, orderVars, workVars, chainVars
    <2>2. \A p \in Orders : opener'[p] = "pricing" => opener[p] = "pricing"
        BY <1>3 DEF OpenDeduped, OpenGoes, orderVars, workVars, chainVars, TypeOK, WorkTypes
    <2> QED
        BY <2>1, <2>2, LockAlone
<1>4. ASSUME NEW o \in Orders, OpenAnswered(o) PROVE LockInv'
    <2>1. UNCHANGED <<locked, replacer, faller>> /\ tracked' \subseteq tracked
        BY <1>4 DEF OpenAnswered, OpenGoes, orderVars, workVars, chainVars
    <2>2. \A p \in Orders : opener'[p] = "pricing" => opener[p] = "pricing"
        BY <1>4 DEF OpenAnswered, OpenGoes, orderVars, workVars, chainVars, TypeOK, WorkTypes
    <2> QED
        BY <2>1, <2>2, LockAlone
<1>5. ASSUME NEW o \in Orders, OpenRejected(o) PROVE LockInv'
    <2>1. UNCHANGED <<locked, replacer, faller>> /\ tracked' \subseteq tracked
        BY <1>5 DEF OpenRejected, Forget, Slips, OpenGoes, orderVars, workVars, chainVars
    <2>2. \A p \in Orders : opener'[p] = "pricing" => opener[p] = "pricing"
        BY <1>5 DEF OpenRejected, Slips, OpenGoes, orderVars, workVars, chainVars, TypeOK, WorkTypes
    <2> QED
        BY <2>1, <2>2, LockAlone
<1>6. ASSUME NEW o \in Orders, OpenTimesOut(o) PROVE LockInv'
    <2>1. UNCHANGED <<locked, replacer, faller>> /\ tracked' \subseteq tracked
        BY <1>6 DEF OpenTimesOut, OpenGoes, orderVars, workVars, chainVars
    <2>2. \A p \in Orders : opener'[p] = "pricing" => opener[p] = "pricing"
        BY <1>6 DEF OpenTimesOut, OpenGoes, orderVars, workVars, chainVars, TypeOK, WorkTypes
    <2> QED
        BY <2>1, <2>2, LockAlone
<1>7. ASSUME NEW o \in Orders, OpenAppears(o) PROVE LockInv'
    <2>1. UNCHANGED <<locked, replacer, faller>> /\ tracked' \subseteq tracked
        BY <1>7 DEF OpenAppears, OpenGoes, orderVars, workVars, chainVars
    <2>2. \A p \in Orders : opener'[p] = "pricing" => opener[p] = "pricing"
        BY <1>7 DEF OpenAppears, OpenGoes, orderVars, workVars, chainVars, TypeOK, WorkTypes
    <2> QED
        BY <2>1, <2>2, LockAlone
<1>8. ASSUME NEW o \in Orders, OpenNotFound(o) PROVE LockInv'
    <2>1. UNCHANGED <<locked, replacer, faller>> /\ tracked' \subseteq tracked
        BY <1>8 DEF OpenNotFound, OpenGoes, orderVars, workVars, chainVars
    <2>2. \A p \in Orders : opener'[p] = "pricing" => opener[p] = "pricing"
        BY <1>8 DEF OpenNotFound, OpenGoes, orderVars, workVars, chainVars, TypeOK, WorkTypes
    <2> QED
        BY <2>1, <2>2, LockAlone
<1>9. ASSUME NEW o \in Orders, OpenFindsPosition(o) PROVE LockInv'
    <2>1. UNCHANGED <<locked, replacer, faller>> /\ tracked' \subseteq tracked
        BY <1>9 DEF OpenFindsPosition, Report, Forget, Slips, OpenGoes, orderVars, workVars, chainVars
    <2>2. \A p \in Orders : opener'[p] = "pricing" => opener[p] = "pricing"
        BY <1>9 DEF OpenFindsPosition, Forget, Slips, OpenGoes, orderVars, workVars, chainVars, TypeOK, WorkTypes
    <2> QED
        BY <2>1, <2>2, LockAlone
<1>10. ASSUME NEW o \in Orders, OpenGivesUp(o) PROVE LockInv'
    <2>1. UNCHANGED <<locked, replacer, faller>> /\ tracked' \subseteq tracked
        BY <1>10 DEF OpenGivesUp, Forget, Slips, OpenGoes, orderVars, workVars, chainVars
    <2>2. \A p \in Orders : opener'[p] = "pricing" => opener[p] = "pricing"
        BY <1>10 DEF OpenGivesUp, Slips, OpenGoes, orderVars, workVars, chainVars, TypeOK, WorkTypes
    <2> QED
        BY <2>1, <2>2, LockAlone
<1>11. ASSUME NEW o \in Orders, OpenNotAdopted(o) PROVE LockInv'
    <2>1. UNCHANGED <<locked, replacer, faller>> /\ tracked' \subseteq tracked
        BY <1>11 DEF OpenNotAdopted, OpenGoes, orderVars, workVars, chainVars
    <2>2. \A p \in Orders : opener'[p] = "pricing" => opener[p] = "pricing"
        BY <1>11 DEF OpenNotAdopted, OpenGoes, orderVars, workVars, chainVars, TypeOK, WorkTypes
    <2> QED
        BY <2>1, <2>2, LockAlone
<1>12. ASSUME NEW o \in Orders, OpenFindsOrder(o) PROVE LockInv'
    <2>1. UNCHANGED <<locked, replacer, faller>> /\ tracked' \subseteq tracked
        BY <1>12 DEF OpenFindsOrder, OpenGoes, orderVars, workVars, chainVars
    <2>2. \A p \in Orders : opener'[p] = "pricing" => opener[p] = "pricing"
        BY <1>12 DEF OpenFindsOrder, OpenGoes, orderVars, workVars, chainVars, TypeOK, WorkTypes
    <2> QED
        BY <2>1, <2>2, LockAlone
<1>13. ASSUME NEW o \in Orders, OpenForgets(o) PROVE LockInv'
    <2>1. UNCHANGED <<locked, replacer, faller>> /\ tracked' \subseteq tracked
        BY <1>13 DEF OpenForgets, Forget, Slips, OpenGoes, orderVars, workVars, chainVars
    <2>2. \A p \in Orders : opener'[p] = "pricing" => opener[p] = "pricing"
        BY <1>13 DEF OpenForgets, Slips, OpenGoes, orderVars, workVars, chainVars, TypeOK, WorkTypes
    <2> QED
        BY <2>1, <2>2, LockAlone
<1>14. ASSUME NEW o \in Orders, FallbackFindsPosition(o) PROVE LockInv'
    <2>1. tracked' \subseteq tracked
        BY <1>14 DEF FallbackFindsPosition, Report, Forget
    <2>2. \E from, to \in FallerSteps : from # "idle" /\ FallbackGoes(o, from, to)
        BY <1>14 DEF FallbackFindsPosition, FallerSteps
    <2> QED
        BY <2>1, <2>2, LockFallback
<1>15. ASSUME NEW o \in Orders, FallbackChecked(o) PROVE LockInv'
    <2>1. tracked' \subseteq tracked
        BY <1>15 DEF FallbackChecked
    <2>2. \E from, to \in FallerSteps : from # "idle" /\ FallbackGoes(o, from, to)
        BY <1>15 DEF FallbackChecked, FallerSteps
    <2> QED
        BY <2>1, <2>2, LockFallback
<1>16. ASSUME NEW o \in Orders, FallbackCancelled(o) PROVE LockInv'
    <2>1. tracked' \subseteq tracked
        BY <1>16 DEF FallbackCancelled
    <2>2. \E from, to \in FallerSteps : from # "idle" /\ FallbackGoes(o, from, to)
        BY <1>16 DEF FallbackCancelled, Slips, FallerSteps
    <2> QED
        BY <2>1, <2>2, LockFallback
<1>17. ASSUME NEW o \in Orders, FallbackCancelFails(o) PROVE LockInv'
    <2>1. tracked' \subseteq tracked
        BY <1>17 DEF FallbackCancelFails
    <2>2. \E from, to \in FallerSteps : from # "idle" /\ FallbackGoes(o, from, to)
        BY <1>17 DEF FallbackCancelFails, FallerSteps
    <2> QED
        BY <2>1, <2>2, LockFallback
<1>18. ASSUME NEW o \in Orders, FallbackAnswered(o) PROVE LockInv'
    <2>1. tracked' \subseteq tracked
        BY <1>18 DEF FallbackAnswered
    <2>2. \E from, to \in FallerSteps : from # "idle" /\ FallbackGoes(o, from, to)
        BY <1>18 DEF FallbackAnswered, FallerSteps
    <2> QED
        BY <2>1, <2>2, LockFallback
<1>19. ASSUME NEW o \in Orders, FallbackFails(o) PROVE LockInv'
    <2>1. tracked' \subseteq tracked
        BY <1>19 DEF FallbackFails
    <2>2. \E from, to \in FallerSteps : from # "idle" /\ FallbackGoes(o, from, to)
        BY <1>19 DEF FallbackFails, FallerSteps
    <2> QED
        BY <2>1, <2>2, LockFallback
<1>20. ASSUME NEW o \in Orders, FallbackConfirmed(o) PROVE LockInv'
    <2>1. tracked' \subseteq tracked
        BY <1>20 DEF FallbackConfirmed, Forget
    <2>2. \E from, to \in FallerSteps : from # "idle" /\ FallbackGoes(o, from, to)
        BY <1>20 DEF FallbackConfirmed, FallerSteps
    <2> QED
        BY <2>1, <2>2, LockFallback
<1>21. ASSUME NEW o \in Orders, FallbackReports(o) PROVE LockInv'
    <2>1. tracked' \subseteq tracked
        BY <1>21 DEF FallbackReports
    <2>2. \E from, to \in FallerSteps : from # "idle" /\ FallbackGoes(o, from, to)
        BY <1>21 DEF FallbackReports, FallerSteps
    <2> QED
        BY <2>1, <2>2, LockFallback
<1>22. ASSUME NEW o \in Orders, FallbackUnconfirmed(o) PROVE LockInv'
    <2>1. tracked' \subseteq tracked
        BY <1>22 DEF FallbackUnconfirmed
    <2>2. \E from, to \in FallerSteps : from # "idle" /\ FallbackGoes(o, from, to)
        BY <1>22 DEF FallbackUnconfirmed, FallerSteps
    <2> QED
        BY <2>1, <2>2, LockFallback
<1>23. ASSUME NEW o \in Orders, FallbackDefers(o) PROVE LockInv'
    <2>1. tracked' \subseteq tracked
        BY <1>23 DEF FallbackDefers
    <2>2. \E from, to \in FallerSteps : from # "idle" /\ FallbackGoes(o, from, to)
        BY <1>23 DEF FallbackDefers, Slips, FallerSteps
    <2> QED
        BY <2>1, <2>2, LockFallback
<1>24. ASSUME NEW o \in Orders, FallbackFindsNothing(o) PROVE LockInv'
    <2>1. tracked' \subseteq tracked
        BY <1>24 DEF FallbackFindsNothing, Forget, Slips
    <2>2. \E from, to \in FallerSteps : from # "idle" /\ FallbackGoes(o, from, to)
        BY <1>24 DEF FallbackFindsNothing, FallerSteps
    <2> QED
        BY <2>1, <2>2, LockFallback
<1>25. ASSUME NEW o \in Orders, ReplaceCancelled(o) PROVE LockInv'
    <2>1. tracked' \subseteq tracked
        BY <1>25 DEF ReplaceCancelled
    <2>2. \E from, to \in ReplacerSteps : from # "idle" /\ ReplaceGoes(o, from, to)
        BY <1>25 DEF ReplaceCancelled, ReplacerSteps
    <2> QED
        BY <2>1, <2>2, LockReplace
<1>26. ASSUME NEW o \in Orders, ReplaceNotCancelled(o) PROVE LockInv'
    <2>1. tracked' \subseteq tracked
        BY <1>26 DEF ReplaceNotCancelled
    <2>2. \E from, to \in ReplacerSteps : from # "idle" /\ ReplaceGoes(o, from, to)
        BY <1>26 DEF ReplaceNotCancelled, ReplacerSteps
    <2> QED
        BY <2>1, <2>2, LockReplace
<1>27. ASSUME NEW o \in Orders, ReplaceSends(o) PROVE LockInv'
    <2>1. tracked' \subseteq tracked
        BY <1>27 DEF ReplaceSends
    <2>2. \E from, to \in ReplacerSteps : from # "idle" /\ ReplaceGoes(o, from, to)
        BY <1>27 DEF ReplaceSends, Slips, ReplacerSteps
    <2> QED
        BY <2>1, <2>2, LockReplace
<1>28. ASSUME NEW o \in Orders, ReplaceAnswered(o) PROVE LockInv'
    <2>1. tracked' \subseteq tracked
        BY <1>28 DEF ReplaceAnswered
    <2>2. \E from, to \in ReplacerSteps : from # "idle" /\ ReplaceGoes(o, from, to)
        BY <1>28 DEF ReplaceAnswered, ReplacerSteps
    <2> QED
        BY <2>1, <2>2, LockReplace
<1>29. ASSUME NEW o \in Orders, ReplaceDiscards(o) PROVE LockInv'
    <2>1. tracked' \subseteq tracked
        BY <1>29 DEF ReplaceDiscards
    <2>2. \E from, to \in ReplacerSteps : from # "idle" /\ ReplaceGoes(o, from, to)
        BY <1>29 DEF ReplaceDiscards, ReplacerSteps
    <2> QED
        BY <2>1, <2>2, LockReplace
<1>30. ASSUME NEW o \in Orders, ReplaceFails(o) PROVE LockInv'
    <2>1. tracked' \subseteq tracked
        BY <1>30 DEF ReplaceFails, BackToEntry, Slips
    <2>2. \E from, to \in ReplacerSteps : from # "idle" /\ ReplaceGoes(o, from, to)
        BY <1>30 DEF ReplaceFails, ReplacerSteps
    <2> QED
        BY <2>1, <2>2, LockReplace
<1>31. ASSUME NEW o \in Orders, ReplaceLacksCollateral(o) PROVE LockInv'
    <2>1. tracked' \subseteq tracked
        BY <1>31 DEF ReplaceLacksCollateral, Forget
    <2>2. \E from, to \in ReplacerSteps : from # "idle" /\ ReplaceGoes(o, from, to)
        BY <1>31 DEF ReplaceLacksCollateral, ReplacerSteps
    <2> QED
        BY <2>1, <2>2, LockReplace
<1>32. ASSUME NEW o \in Orders, ReplaceAppears(o) PROVE LockInv'
    <2>1. tracked' \subseteq tracked
        BY <1>32 DEF ReplaceAppears, BackToEntry
    <2>2. \E from, to \in ReplacerSteps : from # "idle" /\ ReplaceGoes(o, from, to)
        BY <1>32 DEF ReplaceAppears, ReplacerSteps
    <2> QED
        BY <2>1, <2>2, LockReplace
<1>33. ASSUME NEW o \in Orders, ReplaceAborts(o) PROVE LockInv'
    <2>1. tracked' \subseteq tracked
        BY <1>33 DEF ReplaceAborts
    <2>2. \E from, to \in ReplacerSteps : from # "idle" /\ ReplaceGoes(o, from, to)
        BY <1>33 DEF ReplaceAborts, ReplacerSteps
    <2> QED
        BY <2>1, <2>2, LockReplace
<1>34. ASSUME NEW o \in Orders, ReplaceGivenUp(o) PROVE LockInv'
    <2>1. tracked' \subseteq tracked
        BY <1>34 DEF ReplaceGivenUp, BackToEntry, Slips
    <2>2. \E from, to \in ReplacerSteps : from # "idle" /\ ReplaceGoes(o, from, to)
        BY <1>34 DEF ReplaceGivenUp, ReplacerSteps
    <2> QED
        BY <2>1, <2>2, LockReplace
<1>35. ASSUME NEW o \in Orders, MonitorForceRemoves(o) PROVE LockInv'
    <2>1. UNCHANGED <<locked, replacer, faller>> /\ tracked' \subseteq tracked
        BY <1>35 DEF MonitorForceRemoves, Forget, Slips, orderVars, workVars, chainVars
    <2>2. \A p \in Orders : opener'[p] = "pricing" => opener[p] = "pricing"
        BY <1>35 DEF MonitorForceRemoves, Forget, Slips, orderVars, workVars, chainVars, TypeOK, WorkTypes
    <2> QED
        BY <2>1, <2>2, LockAlone
<1>36. ASSUME NEW o \in Orders, MonitorCancels(o) PROVE LockInv'
    <2>1. UNCHANGED <<locked, replacer, faller>> /\ tracked' \subseteq tracked
        BY <1>36 DEF MonitorCancels, orderVars, workVars, chainVars
    <2>2. \A p \in Orders : opener'[p] = "pricing" => opener[p] = "pricing"
        BY <1>36 DEF MonitorCancels, workVars, chainVars, TypeOK, WorkTypes
    <2> QED
        BY <2>1, <2>2, LockAlone
<1>37. ASSUME NEW o \in Orders, MonitorMissesOrder(o) PROVE LockInv'
    <2>1. UNCHANGED <<locked, replacer, faller>> /\ tracked' \subseteq tracked
        BY <1>37 DEF MonitorMissesOrder, orderVars, workVars, chainVars
    <2>2. \A p \in Orders : opener'[p] = "pricing" => opener[p] = "pricing"
        BY <1>37 DEF MonitorMissesOrder, orderVars, workVars, chainVars, TypeOK, WorkTypes
    <2> QED
        BY <2>1, <2>2, LockAlone
<1>38. ASSUME NEW o \in Orders, MonitorFindsPosition(o) PROVE LockInv'
    <2>1. UNCHANGED <<locked, replacer, faller>> /\ tracked' \subseteq tracked
        BY <1>38 DEF MonitorFindsPosition, Report, Forget, Slips, orderVars, workVars, chainVars
    <2>2. \A p \in Orders : opener'[p] = "pricing" => opener[p] = "pricing"
        BY <1>38 DEF MonitorFindsPosition, Forget, Slips, orderVars, workVars, chainVars, TypeOK, WorkTypes
    <2> QED
        BY <2>1, <2>2, LockAlone
<1>39. ASSUME NEW o \in Orders, CancelAnswered(o) PROVE LockInv'
    <2>1. UNCHANGED <<locked, replacer, faller>> /\ tracked' \subseteq tracked
        BY <1>39 DEF CancelAnswered, Forget, Slips, orderVars, workVars, chainVars
    <2>2. \A p \in Orders : opener'[p] = "pricing" => opener[p] = "pricing"
        BY <1>39 DEF CancelAnswered, Slips, orderVars, workVars, chainVars, TypeOK, WorkTypes
    <2> QED
        BY <2>1, <2>2, LockAlone
<1>40. ASSUME NEW o \in Orders, MonitorFallsBack(o) PROVE LockInv'
    BY <1>40, LockStarts DEF MonitorFallsBack, Monitors
<1>41. ASSUME NEW o \in Orders, MonitorReplaces(o) PROVE LockInv'
    BY <1>41, LockStarts DEF MonitorReplaces, Monitors
<1>42. ASSUME NEW o \in Orders, MonitorGivesUp(o) PROVE LockInv'
    <2>1. CASE UNCHANGED tracked /\ StartFallback(o)
        <3>1. CASE o \in tracked
            BY <1>42, <2>1, <3>1, LockStarts DEF MonitorGivesUp
        <3>2. CASE o \notin tracked
            BY <1>42, <2>1, <3>2, LockAlone DEF MonitorGivesUp, StartFallback
        <3> QED
            BY <3>1, <3>2
    <2>2. CASE Forget(o) /\ UNCHANGED <<locked, faller>>
        BY <1>42, <2>2, LockAlone DEF MonitorGivesUp, Forget
    <2> QED
        BY <1>42, <2>1, <2>2 DEF MonitorGivesUp
<1>43. CASE OpenRefused
    <2>1. UNCHANGED <<locked, replacer, faller>> /\ tracked' \subseteq tracked
        BY <1>43 DEF OpenRefused, orderVars, workVars, chainVars
    <2>2. \A p \in Orders : opener'[p] = "pricing" => opener[p] = "pricing"
        BY <1>43 DEF OpenRefused, workVars, chainVars, TypeOK, WorkTypes
    <2> QED
        BY <2>1, <2>2, LockAlone
<1>44. CASE MonitorWaits
    <2>1. UNCHANGED <<locked, replacer, faller>> /\ tracked' \subseteq tracked
        BY <1>44 DEF MonitorWaits, orderVars, workVars, chainVars
    <2>2. \A p \in Orders : opener'[p] = "pricing" => opener[p] = "pricing"
        BY <1>44 DEF MonitorWaits, workVars, chainVars, TypeOK, WorkTypes
    <2> QED
        BY <2>1, <2>2, LockAlone
<1>45. CASE PositionSync
    <2>1. UNCHANGED <<locked, replacer, faller>> /\ tracked' \subseteq tracked
        BY <1>45 DEF PositionSync, ChainStep, orderVars, workVars, chainVars
    <2>2. \A p \in Orders : opener'[p] = "pricing" => opener[p] = "pricing"
        BY <1>45 DEF PositionSync, ChainStep, orderVars, workVars, chainVars, TypeOK, WorkTypes
    <2> QED
        BY <2>1, <2>2, LockAlone
<1>46. CASE ClosePosition
    <2>1. UNCHANGED <<locked, replacer, faller>> /\ tracked' \subseteq tracked
        BY <1>46 DEF ClosePosition, ChainStep, orderVars, workVars, chainVars
    <2>2. \A p \in Orders : opener'[p] = "pricing" => opener[p] = "pricing"
        BY <1>46 DEF ClosePosition, ChainStep, orderVars, workVars, chainVars, TypeOK, WorkTypes
    <2> QED
        BY <2>1, <2>2, LockAlone
<1>47. ASSUME NEW i \in Limits \union {Fallback}, Land(i) PROVE LockInv'
    <2>1. UNCHANGED <<locked, replacer, faller>> /\ tracked' \subseteq tracked
        BY <1>47 DEF Land, ChainStep, orderVars, workVars, chainVars
    <2>2. \A p \in Orders : opener'[p] = "pricing" => opener[p] = "pricing"
        BY <1>47 DEF Land, ChainStep, orderVars, workVars, chainVars, TypeOK, WorkTypes
    <2> QED
        BY <2>1, <2>2, LockAlone
<1>48. ASSUME NEW i \in Limits \union {Fallback}, Expire(i) PROVE LockInv'
    <2>1. UNCHANGED <<locked, replacer, faller>> /\ tracked' \subseteq tracked
        BY <1>48 DEF Expire, ChainStep, orderVars, workVars, chainVars
    <2>2. \A p \in Orders : opener'[p] = "pricing" => opener[p] = "pricing"
        BY <1>48 DEF Expire, ChainStep, orderVars, workVars, chainVars, TypeOK, WorkTypes
    <2> QED
        BY <2>1, <2>2, LockAlone
<1>49. ASSUME NEW i \in Limits, Fill(i) PROVE LockInv'
    <2>1. UNCHANGED <<locked, replacer, faller>> /\ tracked' \subseteq tracked
        BY <1>49 DEF Fill, ChainStep, orderVars, workVars, chainVars
    <2>2. \A p \in Orders : opener'[p] = "pricing" => opener[p] = "pricing"
        BY <1>49 DEF Fill, ChainStep, orderVars, workVars, chainVars, TypeOK, WorkTypes
    <2> QED
        BY <2>1, <2>2, LockAlone
<1>50. ASSUME NEW i \in Limits, Removed(i) PROVE LockInv'
    <2>1. UNCHANGED <<locked, replacer, faller>> /\ tracked' \subseteq tracked
        BY <1>50 DEF Removed, ChainStep, orderVars, workVars, chainVars
    <2>2. \A p \in Orders : opener'[p] = "pricing" => opener[p] = "pricing"
        BY <1>50 DEF Removed, ChainStep, orderVars, workVars, chainVars, TypeOK, WorkTypes
    <2> QED
        BY <2>1, <2>2, LockAlone
<1>51. CASE UNCHANGED vars
    <2>1. UNCHANGED <<locked, replacer, faller>> /\ tracked' \subseteq tracked
        BY <1>51 DEF vars, orderVars, workVars, chainVars
    <2>2. \A p \in Orders : opener'[p] = "pricing" => opener[p] = "pricing"
        BY <1>51 DEF vars, workVars, chainVars, TypeOK, WorkTypes
    <2> QED
        BY <2>1, <2>2, LockAlone
<1> QED
    BY <1>1, <1>2, <1>3, <1>4, <1>5, <1>6, <1>7, <1>8, <1>9, <1>10, <1>11, <1>12, <1>13, <1>14, <1>15, <1>16, <1>17, <1>18, <1>19, <1>20, <1>21, <1>22, <1>23, <1>24, <1>25, <1>26, <1>27, <1>28, <1>29, <1>30, <1>31, <1>32, <1>33, <1>34, <1>35, <1>36, <1>37, <1>38, <1>39, <1>40, <1>41, <1>42, <1>43, <1>44, <1>45, <1>46, <1>47, <1>48, <1>49, <1>50, <1>51
       DEF Next, OpenStep, FallbackStep, ReplaceStep, MonitorStep

\* "SAFETY LOCK: Prevent concurrent replace/fallback operations" (4637): in
\* every interleaving of _openMaker, the monitor, requotes and fallbacks, one
\* of the two at most works on an order, whatever is lost or comes late.
THEOREM OneOperationAtATime == Spec => []OneOperation
<1>1. Init => LockInv
    BY LockInit
<1>2. TypeOK /\ LockInv /\ [Next]_vars => LockInv'
    BY LockStep
<1>3. LockInv => OneOperation
    BY DEF LockInv
<1> QED
    BY <1>1, <1>2, <1>3, TypeCorrect, PTL DEF Spec

-----------------------------------------------------------------------------
(***************************************************************************)
(* Why only slips double a position.  Load counts what has filled and what *)
(* still may.  A tracked order stands for one unit of it; it is vacant     *)
(* when that unit is provably not there: the code has seen the cancel, or  *)
(* neither a position nor an id that its operation answers for is left.    *)
(* An order that is vacant may be sent anew, and only such a one is.       *)
(***************************************************************************)
Load == position + Cardinality(book) + Cardinality(coming)

ReplaceIsOut(o) == replacer[o] \in {"placing", "discarding", "appearing", "aborting"}

FallbackIsOut(o) ==
    faller[o] \in {"placing", "confirming", "verifying", "recovering", "pricing"}

\* The ids that the operation on an order answers for.
Own(o) ==
    IF ReplaceIsOut(o) THEN {Replace}
    ELSE IF replacer[o] = "cancelling" THEN {uoid[o]}
    ELSE IF FallbackIsOut(o) THEN {Fallback}
    ELSE {uoid[o], Fallback}

Absent(o) == position = 0 /\ Own(o) \cap Out = {}
Vacant(o) == replacer[o] = "confirming" \/ Absent(o)

\* An order that was deduped has taken an order of earlier opens for its own.
Borrowed(o) == IF opener[o] = "deduped" THEN 1 ELSE 0

OneTracked == \A o, p \in tracked : o = p

OneOpener ==
    /\ \A o, p \in Orders : opener[o] # "idle" /\ opener[p] # "idle" => o = p
    /\ \A o \in Orders : opener[o] = "pricing" => tracked = {}

NewIdIsKnown == \A o \in tracked : replacer[o] = "appearing" => uoid[o] = Replace

Actors == OneTracked /\ OneOpener /\ NewIdIsKnown

UntrackedLoad ==
    /\ tracked = {} /\ position = 0 => Load <= slips
    /\ \A o \in Orders : opener[o] = "pricing" => Load <= slips

TrackedLoad ==
    \A o \in tracked : /\ Load + Borrowed(o) <= 1 + slips
                       /\ Vacant(o) => Load + Borrowed(o) <= slips

Sums == Load <= 1 + slips /\ UntrackedLoad /\ TrackedLoad

-----------------------------------------------------------------------------
\* The ids of one market, whatever its index, differ by purpose.
LEMMA PurposesDiffer ==
    ASSUME NEW m \in Nat, NEW p \in DOMAIN PurposeOffset, NEW q \in DOMAIN PurposeOffset,
           UserOrderId(m, p) = UserOrderId(m, q)
    PROVE  p = q
<1> DEFINE k == m % 51
           c == PurposeOffset[p]
           d == PurposeOffset[q]
<1>1. k \in 0 .. 50
    OBVIOUS
<1>2. c \in 1 .. 5 /\ d \in 1 .. 5
    BY OffsetTypes
<1>3. (k * 5 + c) % 254 = (k * 5 + d) % 254
    <2>1. (k * 5 + c) % 254 \in Nat /\ (k * 5 + d) % 254 \in Nat
        BY <1>1, <1>2
    <2>2. ((k * 5 + c) % 254) + 1 = ((k * 5 + d) % 254) + 1
        BY DEF UserOrderId
    <2> HIDE DEF k, c, d
    <2> QED
        BY <2>1, <2>2
<1> HIDE DEF k, c, d
<1>4. \A i \in 0 .. 253 : i % 254 = i
    OBVIOUS
<1>5. \A i \in 254 .. 260 : i % 254 = i - 254
    OBVIOUS
<1>6. \A i \in 1 .. 5 : k * 5 + i \in 0 .. 253 \/ k * 5 + i \in 254 .. 260
    BY <1>1
<1>7. c = d
    BY <1>1, <1>2, <1>3, <1>4, <1>5, <1>6
<1> QED
    BY <1>7, OffsetsDiffer DEF c, d

LEMMA FallbackIsNoLimit == Fallback \notin Limits
<1>1. Fallback # Entry
    BY PurposesDiffer, WorkingOrdersAssumption DEF Fallback, Entry, PurposeOffset
<1>2. Fallback # Replace
    BY PurposesDiffer, WorkingOrdersAssumption DEF Fallback, Replace, PurposeOffset
<1> QED
    BY <1>1, <1>2 DEF Limits

-----------------------------------------------------------------------------
LEMMA OutFinite ==
    ASSUME TypeOK
    PROVE  /\ IsFiniteSet(book) /\ IsFiniteSet(coming)
           /\ Cardinality(book) \in Nat /\ Cardinality(coming) \in Nat
           /\ position \in Nat /\ slips \in Nat /\ Load \in Nat
<1>1. IsFiniteSet({Entry, Replace}) /\ IsFiniteSet({Entry, Replace, Fallback})
    <2>1. IsFiniteSet({Entry}) /\ IsFiniteSet({Entry} \cup {Replace})
        BY FS_Singleton, FS_AddElement
    <2>2. IsFiniteSet(({Entry} \cup {Replace}) \cup {Fallback})
        BY <2>1, FS_AddElement
    <2>3. {Entry, Replace} = {Entry} \cup {Replace} /\ {Entry, Replace, Fallback} = ({Entry} \cup {Replace}) \cup {Fallback}
        OBVIOUS
    <2> QED
        BY <2>1, <2>2, <2>3
<1>2. book \subseteq {Entry, Replace} /\ coming \subseteq {Entry, Replace, Fallback}
    BY DEF TypeOK, ChainTypes, Limits
<1>3. IsFiniteSet(book) /\ IsFiniteSet(coming)
    BY <1>1, <1>2, FS_Subset
<1>4. Cardinality(book) \in Nat /\ Cardinality(coming) \in Nat
    BY <1>3, FS_CardinalityType
<1>5. position \in Nat /\ slips \in Nat
    BY DEF TypeOK, ChainTypes
<1> QED
    BY <1>3, <1>4, <1>5 DEF Load

LEMMA LessOfThree ==
    ASSUME NEW x \in Nat, NEW y \in Nat, NEW z \in Nat,
           NEW x1 \in Nat, NEW y1 \in Nat, NEW z1 \in Nat, x1 <= x, y1 <= y, z1 <= z
    PROVE  /\ x1 + y1 + z1 <= x + y + z
           /\ x1 + y1 + z1 < x + y + z \/ (x = x1 /\ y = y1 /\ z = z1)
    OBVIOUS

\* Nothing is added: the load stays only where all of it stays.
LEMMA LessLoad ==
    ASSUME TypeOK, TypeOK', book' \subseteq book, coming' \subseteq coming, position' <= position
    PROVE  /\ Load' <= Load
           /\ Load' < Load \/ UNCHANGED chainVars
<1>1. /\ Cardinality(book') <= Cardinality(book)
      /\ Cardinality(book) = Cardinality(book') => book' = book
    BY OutFinite, FS_Subset
<1>2. /\ Cardinality(coming') <= Cardinality(coming)
      /\ Cardinality(coming) = Cardinality(coming') => coming' = coming
    BY OutFinite, FS_Subset
<1>3. /\ Cardinality(book) \in Nat /\ Cardinality(coming) \in Nat /\ position \in Nat
      /\ Cardinality(book') \in Nat /\ Cardinality(coming') \in Nat /\ position' \in Nat
    <2>1. Cardinality(book) \in Nat /\ Cardinality(coming) \in Nat /\ position \in Nat
        BY OutFinite
    <2>2. IsFiniteSet(book') /\ IsFiniteSet(coming')
        BY OutFinite, FS_Subset
    <2>3. Cardinality(book') \in Nat /\ Cardinality(coming') \in Nat
        BY <2>2, FS_CardinalityType
    <2>4. position' \in Nat
        BY DEF TypeOK, ChainTypes
    <2> QED
        BY <2>1, <2>3, <2>4
<1> DEFINE a == Cardinality(book)
           b == Cardinality(coming)
           a1 == Cardinality(book')
           b1 == Cardinality(coming')
           c == position
           c1 == position'
<1>4. Load = c + a + b /\ Load' = c1 + a1 + b1
    BY DEF Load
<1>5. /\ a1 <= a /\ b1 <= b /\ a \in Nat /\ b \in Nat /\ a1 \in Nat /\ b1 \in Nat
      /\ c \in Nat /\ c1 \in Nat /\ c1 <= c
    BY <1>1, <1>2, <1>3
<1>6. (a = a1 => book' = book) /\ (b = b1 => coming' = coming)
    BY <1>1, <1>2
<1> HIDE DEF a, b, c, a1, b1, c1
<1>7. Load' <= Load /\ (Load' < Load \/ (a = a1 /\ b = b1 /\ c = c1))
    BY <1>4, <1>5, LessOfThree
<1> QED
    BY <1>6, <1>7 DEF chainVars, c, c1

\* One order is sent.
LEMMA MoreLoad ==
    ASSUME TypeOK, NEW i, coming' = coming \cup {i}, book' \subseteq book, position' = position
    PROVE  /\ Load' <= Load + 1
           /\ i \in coming => Load' <= Load
           /\ book' # book => Load' <= Load
           /\ Load' \in Nat
<1> DEFINE a == Cardinality(book)
           b == Cardinality(coming)
           a1 == Cardinality(book')
           b1 == Cardinality(coming')
<1>1. a \in Nat /\ b \in Nat /\ position \in Nat
    BY OutFinite
<1>2. a1 \in Nat /\ a1 <= a /\ (book' # book => a1 # a)
    BY OutFinite, FS_Subset, FS_CardinalityType
<1>3. b1 = (IF i \in coming THEN b ELSE b + 1)
    BY OutFinite, FS_AddElement
<1>4. Load = position + a + b /\ Load' = position + a1 + b1
    BY DEF Load
<1> HIDE DEF a, b, a1, b1
<1>5. b1 \in Nat /\ b1 <= b + 1 /\ (i \in coming => b1 <= b)
    BY <1>1, <1>3
<1> QED
    BY <1>1, <1>2, <1>4, <1>5

\* An order comes to rest, or fills.
LEMMA MovedLoad ==
    ASSUME TypeOK, NEW i,
           \/ i \in coming /\ coming' = coming \ {i} /\ book' = book \cup {i} /\ position' = position
           \/ i \in coming /\ coming' = coming \ {i} /\ book' = book /\ position' = position + 1
           \/ i \in book /\ book' = book \ {i} /\ coming' = coming /\ position' = position + 1
    PROVE  Load' <= Load /\ Load' \in Nat
<1> DEFINE a == Cardinality(book)
           b == Cardinality(coming)
           a1 == Cardinality(book')
           b1 == Cardinality(coming')
<1>1. a \in Nat /\ b \in Nat /\ position \in Nat
    BY OutFinite
<1>2. Load = position + a + b /\ Load' = position' + a1 + b1
    BY DEF Load
<1>3. CASE i \in coming /\ coming' = coming \ {i} /\ book' = book \cup {i} /\ position' = position
    <2>1. b1 = b - 1 /\ b1 \in Nat
        BY <1>3, OutFinite, FS_RemoveElement, FS_CardinalityType
    <2>2. a1 = a \/ a1 = a + 1
        BY <1>3, OutFinite, FS_AddElement
    <2> HIDE DEF a, b, a1, b1
    <2> QED
        BY <1>1, <1>2, <1>3, <2>1, <2>2
<1>4. CASE i \in coming /\ coming' = coming \ {i} /\ book' = book /\ position' = position + 1
    <2>1. b1 = b - 1 /\ b1 \in Nat
        BY <1>4, OutFinite, FS_RemoveElement, FS_CardinalityType
    <2>2. a1 = a
        BY <1>4
    <2> HIDE DEF a, b, a1, b1
    <2> QED
        BY <1>1, <1>2, <1>4, <2>1, <2>2
<1>5. CASE i \in book /\ book' = book \ {i} /\ coming' = coming /\ position' = position + 1
    <2>1. a1 = a - 1 /\ a1 \in Nat
        BY <1>5, OutFinite, FS_RemoveElement, FS_CardinalityType
    <2>2. b1 = b
        BY <1>5
    <2> HIDE DEF a, b, a1, b1
    <2> QED
        BY <1>1, <1>2, <1>5, <2>1, <2>2
<1> QED
    BY <1>3, <1>4, <1>5

-----------------------------------------------------------------------------
\* A step that sends nothing on credit: it adds no more than it pays for.
Pays == Load' + slips <= Load + slips'
Saves == Load' + 1 + slips <= Load + slips'

\* What the operation on an order answers for only grows.
Loosens(o) == /\ Own(o) \subseteq Own(o)'
              /\ replacer'[o] = "confirming" => replacer[o] = "confirming"

Ends == tracked' = {} /\ position' = 0 =>
            \/ tracked = {} /\ position = 0
            \/ Load' <= slips'
            \/ Saves

OpenersStay ==
    \A o \in Orders : /\ opener'[o] # "idle" => opener[o] # "idle"
                      /\ opener'[o] = "pricing" => opener[o] = "pricing"

OrdersStay ==
    \A o \in tracked' : /\ Borrowed(o)' = Borrowed(o)
                        /\ Vacant(o)' => Vacant(o) \/ Saves

Plain == Pays /\ tracked' \subseteq tracked /\ Ends /\ OpenersStay /\ OrdersStay

LEMMA PaysUp ==
    ASSUME NEW l \in Nat, NEW l1 \in Nat, NEW s \in Nat, NEW s1 \in Nat, l1 + s <= l + s1
    PROVE  /\ l <= s => l1 <= s1
           /\ l <= 1 + s => l1 <= 1 + s1
           /\ \A n \in Nat : l + n <= s => l1 + n <= s1
           /\ \A n \in Nat : l + n <= 1 + s => l1 + n <= 1 + s1
    OBVIOUS

LEMMA SavesUp ==
    ASSUME NEW l \in Nat, NEW l1 \in Nat, NEW s \in Nat, NEW s1 \in Nat, l1 + 1 + s <= l + s1
    PROVE  /\ l <= 1 + s => l1 <= s1
           /\ \A n \in Nat : l + n <= 1 + s => l1 + n <= s1
    OBVIOUS

LEMMA PlainKeeps ==
    ASSUME TypeOK, TypeOK', Sums, Actors, Plain
    PROVE  Sums'
<1>1. Load \in Nat /\ Load' \in Nat /\ slips \in Nat /\ slips' \in Nat
    <2>1. Load \in Nat /\ slips \in Nat
        BY OutFinite
    <2>2. slips' \in Nat
        BY DEF TypeOK, ChainTypes
    <2>3. Load' \in Nat
        <3>1. (TypeOK => Load \in Nat)'
            BY OutFinite, PTL
        <3> QED
            BY <3>1
    <2> QED
        BY <2>1, <2>2, <2>3
<1>2. Load' <= 1 + slips'
    BY <1>1, PaysUp DEF Sums, Plain, Pays
<1>3. UntrackedLoad'
    <2>1. ASSUME tracked' = {}, position' = 0
          PROVE  Load' <= slips'
        <3>1. CASE tracked = {} /\ position = 0
            BY <1>1, <3>1, PaysUp DEF Sums, UntrackedLoad, Plain, Pays
        <3>2. CASE Saves
            BY <1>1, <3>2, SavesUp DEF Sums, Saves
        <3> QED
            BY <2>1, <3>1, <3>2 DEF Plain, Ends
    <2>2. ASSUME NEW o \in Orders, opener'[o] = "pricing"
          PROVE  Load' <= slips'
        <3>1. Load <= slips
            BY <2>2 DEF Plain, OpenersStay, Sums, UntrackedLoad
        <3> QED
            BY <1>1, <3>1, PaysUp DEF Plain, Pays
    <2> QED
        BY <2>1, <2>2 DEF UntrackedLoad
<1>4. TrackedLoad'
    <2> SUFFICES ASSUME NEW o \in tracked'
                 PROVE  /\ Load' + Borrowed(o)' <= 1 + slips'
                        /\ Vacant(o)' => Load' + Borrowed(o)' <= slips'
        BY DEF TrackedLoad
    <2> DEFINE n == Borrowed(o)
    <2>1. Borrowed(o)' = n /\ n \in Nat /\ o \in tracked
        BY DEF Plain, OrdersStay, Borrowed
    <2>2. Load + n <= 1 + slips /\ (Vacant(o) => Load + n <= slips)
        BY <2>1 DEF Sums, TrackedLoad
    <2>3. Vacant(o)' => Vacant(o) \/ Saves
        BY DEF Plain, OrdersStay
    <2> HIDE DEF n
    <2>4. Load' + n <= 1 + slips'
        BY <1>1, <2>1, <2>2, PaysUp DEF Plain, Pays
    <2>5. Vacant(o) => Load' + n <= slips'
        BY <1>1, <2>1, <2>2, PaysUp DEF Plain, Pays
    <2>6. Saves => Load' + n <= slips'
        BY <1>1, <2>1, <2>2, SavesUp DEF Saves
    <2> QED
        BY <2>1, <2>3, <2>4, <2>5, <2>6
<1> QED
    BY <1>2, <1>3, <1>4 DEF Sums

\* A tracked order whose unit is gone is sent anew.
LEMMA SendsKeeps ==
    ASSUME TypeOK, TypeOK', Sums, Actors, NEW o \in tracked, UNCHANGED <<tracked, opener>>,
           Vacant(o), ~Vacant(o)', Load' <= Load + 1, slips <= slips'
    PROVE  Sums'
<1> DEFINE n == Borrowed(o)
           l == Load
           l1 == Load'
           s == slips
           s1 == slips'
<1>1. l \in Nat /\ s \in Nat /\ s1 \in Nat /\ l1 \in Nat
    <2>1. l \in Nat /\ s \in Nat
        BY OutFinite
    <2>2. s1 \in Nat
        BY DEF TypeOK, ChainTypes
    <2>3. (TypeOK => Load \in Nat)'
        BY OutFinite, PTL
    <2> QED
        BY <2>1, <2>2, <2>3
<1>2. n \in Nat /\ Borrowed(o)' = n
    BY DEF Borrowed
<1>3. l + n <= s
    BY DEF Sums, TrackedLoad
<1>4. l1 <= l + 1 /\ s <= s1
    OBVIOUS
<1>5. \A p \in tracked' : p = o
    BY DEF Actors, OneTracked
<1>6. Sums' <=> l1 <= 1 + s1 /\ UntrackedLoad' /\ TrackedLoad'
    BY DEF Sums
<1>7. UntrackedLoad'
    BY DEF UntrackedLoad, Actors, OneOpener
<1> HIDE DEF n, l, l1, s, s1
<1>8. l1 + n <= 1 + s1 /\ l1 <= 1 + s1
    BY <1>1, <1>2, <1>3, <1>4
<1>9. TrackedLoad'
    BY <1>2, <1>5, <1>8 DEF TrackedLoad, l1, s1
<1> QED
    BY <1>6, <1>7, <1>8, <1>9

\* A step that sends nothing is plain if an operation that ends, or answers
\* for less from now on, had no unit or finds one.
LEMMA EasyPlain ==
    ASSUME TypeOK, TypeOK', book' \subseteq book, coming' \subseteq coming, position' <= position,
           slips <= slips', tracked' \subseteq tracked, OpenersStay,
           tracked' = {} => tracked = {} \/ position' # 0 \/ Load' <= slips' \/ Saves,
           \A p \in tracked' : /\ Borrowed(p)' = Borrowed(p)
                               /\ Loosens(p) \/ Vacant(p) \/ ~Vacant(p)' \/ Saves
    PROVE  Plain
<1>1. Load \in Nat /\ Load' \in Nat /\ slips \in Nat /\ slips' \in Nat
    <2>1. Load \in Nat /\ slips \in Nat
        BY OutFinite
    <2>2. slips' \in Nat
        BY DEF TypeOK, ChainTypes
    <2>3. (TypeOK => Load \in Nat)'
        BY OutFinite, PTL
    <2> QED
        BY <2>1, <2>2, <2>3
<1>2. Load' <= Load /\ (Load' < Load \/ UNCHANGED chainVars)
    BY LessLoad
<1>3. Pays /\ (Load' < Load => Saves)
    <2> DEFINE l == Load
               l1 == Load'
               s == slips
               s1 == slips'
    <2>1. l \in Nat /\ l1 \in Nat /\ s \in Nat /\ s1 \in Nat /\ l1 <= l /\ s <= s1
        BY <1>1, <1>2
    <2> SUFFICES l1 + s <= l + s1 /\ (l1 < l => l1 + 1 + s <= l + s1)
        BY DEF Pays, Saves
    <2> HIDE DEF l, l1, s, s1
    <2> QED
        BY <2>1
<1>4. Ends
    BY <1>2, <1>3 DEF Ends, chainVars
<1>5. ASSUME NEW p \in tracked', Loosens(p), Vacant(p)', ~Saves
      PROVE  Vacant(p)
    <2>1. UNCHANGED chainVars
        BY <1>2, <1>3, <1>5
    <2>2. Out' = Out /\ position' = position
        BY <2>1 DEF Out, chainVars
    <2>3. CASE replacer'[p] = "confirming"
        BY <1>5, <2>3 DEF Loosens, Vacant
    <2>4. CASE Absent(p)'
        <3>1. Own(p)' \cap Out' = {} /\ position' = 0
            BY <2>4 DEF Absent
        <3>2. Own(p) \subseteq Own(p)'
            BY <1>5 DEF Loosens
        <3> QED
            BY <2>2, <3>1, <3>2 DEF Absent, Vacant
    <2> QED
        BY <1>5, <2>3, <2>4 DEF Vacant
<1>6. OrdersStay
    BY <1>5 DEF OrdersStay
<1> QED
    BY <1>3, <1>4, <1>6 DEF Plain

\* Who leaves whom alone.
LEMMA OpenersAlone ==
    ASSUME UNCHANGED opener
    PROVE  OpenersStay /\ \A p \in Orders : Borrowed(p)' = Borrowed(p)
BY DEF OpenersStay, Borrowed

LEMMA WorkAlone ==
    ASSUME UNCHANGED <<uoid, replacer, faller>>
    PROVE  \A p \in Orders : Loosens(p) /\ Own(p)' = Own(p)
BY DEF Loosens, Own, ReplaceIsOut, FallbackIsOut

LEMMA OpenerGoes ==
    ASSUME TypeOK, NEW o \in Orders, NEW from \in OpenerSteps \ {"idle"},
           NEW to \in OpenerSteps \ {"pricing", "deduped"}, OpenGoes(o, from, to)
    PROVE  /\ OpenersStay
           /\ \A p \in Orders : /\ Loosens(p)
                                /\ p # o \/ from # "deduped" => Borrowed(p)' = Borrowed(p)
<1>1. UNCHANGED <<uoid, replacer, faller>>
    BY DEF OpenGoes
<1>2. \A p \in Orders : opener'[p] = IF p = o THEN to ELSE opener[p]
    BY DEF OpenGoes, TypeOK, WorkTypes
<1>3. opener[o] = from
    BY DEF OpenGoes
<1>4. OpenersStay
    BY <1>2, <1>3 DEF OpenersStay
<1>5. \A p \in Orders : p # o \/ from # "deduped" => Borrowed(p)' = Borrowed(p)
    BY <1>2, <1>3 DEF Borrowed
<1> QED
    BY <1>1, <1>4, <1>5, WorkAlone

LEMMA SlipsUp == ASSUME TypeOK, NEW h, Slips(h) PROVE slips <= slips' /\ (h => slips' = slips + 1)
BY OutFinite DEF Slips

LEMMA SlipSaves ==
    ASSUME TypeOK, Load' \in Nat, Load' <= Load, slips' = slips + 1
    PROVE  Saves
<1> DEFINE l == Load
           l1 == Load'
           s == slips
<1>1. l \in Nat /\ s \in Nat /\ l1 \in Nat /\ l1 <= l
    BY OutFinite
<1> SUFFICES l1 + 1 + s <= l + (s + 1)
    BY DEF Saves
<1> HIDE DEF l, l1, s
<1> QED
    BY <1>1

LEMMA LessSaves ==
    ASSUME TypeOK, TypeOK', Load' < Load, slips <= slips'
    PROVE  Saves
<1> DEFINE l == Load
           l1 == Load'
           s == slips
           s1 == slips'
<1>1. l \in Nat /\ s \in Nat /\ l1 \in Nat /\ s1 \in Nat /\ l1 < l /\ s <= s1
    <2>1. l \in Nat /\ s \in Nat
        BY OutFinite
    <2>2. s1 \in Nat
        BY DEF TypeOK, ChainTypes
    <2>3. (TypeOK => Load \in Nat)'
        BY OutFinite, PTL
    <2> QED
        BY <2>1, <2>2, <2>3
<1> SUFFICES l1 + 1 + s <= l + s1
    BY DEF Saves
<1> HIDE DEF l, l1, s, s1
<1> QED
    BY <1>1

LEMMA NoLoad == ASSUME Out = {}, position = 0 PROVE Load = 0
<1>1. book = {} /\ coming = {}
    BY DEF Out
<1> QED
    BY <1>1, FS_EmptySet DEF Load

\* An order is dropped at the price of a slip, unless nothing is out.
LEMMA DropsPaid ==
    ASSUME TypeOK, UNCHANGED chainVars, NEW h, Slips(h), Out # {} \/ position > 0 => h
    PROVE  Load' <= slips' \/ Saves
<1>1. Load' = Load
    BY DEF Load, chainVars
<1>2. CASE h
    <2>1. slips' = slips + 1 /\ Load' \in Nat /\ Load' <= Load
        <3>1. slips' = slips + 1
            BY <1>2, SlipsUp
        <3>2. Load \in Nat
            BY OutFinite
        <3>3. \A i \in Nat : i <= i
            OBVIOUS
        <3> QED
            BY <1>1, <3>1, <3>2, <3>3
    <2> QED
        BY <2>1, SlipSaves
<1>3. CASE ~h
    <2>1. Load = 0
        BY <1>3, NoLoad, OutFinite
    <2>2. slips' \in Nat
        BY OutFinite, SlipsUp DEF Slips
    <2> QED
        BY <1>1, <2>1, <2>2
<1> QED
    BY <1>2, <1>3

LEMMA OpenerEasy ==
    ASSUME TypeOK, TypeOK', Sums, Actors, NEW o \in Orders,
           NEW from \in OpenerSteps \ {"idle", "deduped"}, NEW to \in OpenerSteps \ {"pricing", "deduped"},
           OpenGoes(o, from, to), coming' \subseteq coming, slips <= slips', tracked' \subseteq tracked,
           tracked' = {} => tracked = {} \/ position' # 0 \/ Load' <= slips' \/ Saves
    PROVE  Sums'
<1>1. book' \subseteq book /\ position' <= position
    BY OutFinite DEF OpenGoes
<1>2. OpenersStay /\ \A p \in Orders : Loosens(p) /\ Borrowed(p)' = Borrowed(p)
    BY OpenerGoes
<1>3. \A p \in tracked' : p \in Orders
    BY DEF TypeOK, OrderTypes
<1>4. Plain
    BY <1>1, <1>2, <1>3, EasyPlain
<1> QED
    BY <1>4, PlainKeeps

LEMMA OpenSums ==
    ASSUME TypeOK, TypeOK', LockInv, Sums, Actors, NEW o \in Orders, OpenStep(o)
    PROVE  Sums'
<1>1. CASE Open(o)
    <2>1. tracked' = {} /\ tracked = {} /\ position = 0 /\ UNCHANGED chainVars /\ slips' = IF Quiet THEN 0 ELSE slips
        BY <1>1 DEF Open, NoWorkingOrder, orderVars
    <2>2. Load' = Load /\ Load <= slips
        BY <2>1 DEF Load, chainVars, Sums, UntrackedLoad
    <2>3. Load' <= slips'
        <3>1. CASE Quiet
            BY <2>1, <2>2, <3>1, NoLoad DEF Quiet
        <3> QED
            BY <2>1, <2>2, <3>1
    <2>4. Load' \in Nat /\ slips' \in Nat
        BY <2>1, <2>2, OutFinite
    <2>5. Load' <= 1 + slips'
        <3> HIDE DEF Load
        <3>1. \A i, j \in Nat : i <= j => i <= 1 + j
            OBVIOUS
        <3> QED
            BY <2>3, <2>4, <3>1
    <2> QED
        BY <2>1, <2>3, <2>5 DEF Sums, UntrackedLoad, TrackedLoad
<1>2. CASE OpenSend(o)
    <2>1. opener[o] = "pricing" /\ tracked = {} /\ replacer[o] = "idle" /\ faller[o] = "idle"
        BY <1>2 DEF OpenSend, Actors, OneOpener, LockInv, NewIsUnknown
    <2>2. tracked' = {o} /\ uoid'[o] = Entry /\ replacer'[o] = "idle" /\ faller'[o] = "idle" /\ slips' = slips
        BY <1>2, <2>1 DEF OpenSend, TypeOK, OrderTypes
    <2>3. Load \in Nat /\ slips \in Nat /\ Load <= slips
        BY <2>1, OutFinite DEF Sums, UntrackedLoad
    <2>4. Entry \in Out'
        BY <1>2 DEF OpenSend, Out
    <2>5. ~Vacant(o)'
        <3>1. Own(o)' = {Entry, Fallback}
            BY <2>2 DEF Own, ReplaceIsOut, FallbackIsOut
        <3> QED
            BY <2>2, <2>4, <3>1 DEF Vacant, Absent
    <2>6. \A p \in Orders : opener'[p] # "pricing"
        BY <1>2, <2>1 DEF OpenSend, TypeOK, WorkTypes, Actors, OneOpener
    <2>7. \A i, j \in Nat : i <= j => i <= 1 + j /\ i + 1 <= 1 + j /\ i + 0 <= 1 + j
        OBVIOUS
    <2>8. \A i, j, k \in Nat : i <= j + 1 /\ j <= k => i + 0 <= 1 + k /\ i <= 1 + k
        OBVIOUS
    <2>9. Load' + Borrowed(o)' <= 1 + slips' /\ Load' <= 1 + slips'
        <3>1. CASE Entry \in book
            <4>1. Load' = Load /\ Borrowed(o)' = 1
                BY <1>2, <3>1 DEF OpenSend, Load, Borrowed, TypeOK, WorkTypes
            <4> QED
                BY <2>2, <2>3, <2>7, <4>1
        <3>2. CASE Entry \notin book
            <4>1. Borrowed(o)' = 0
                BY <1>2, <3>2 DEF OpenSend, Borrowed, TypeOK, WorkTypes
            <4>2. coming' = coming \cup {Entry} /\ book' \subseteq book /\ position' = position
                BY <1>2, <3>2 DEF OpenSend
            <4>3. Load' <= Load + 1 /\ Load' \in Nat
                BY <4>2, MoreLoad
            <4> QED
                BY <2>2, <2>3, <2>8, <4>1, <4>3
        <3> QED
            BY <3>1, <3>2
    <2> QED
        BY <2>2, <2>5, <2>6, <2>9 DEF Sums, UntrackedLoad, TrackedLoad
<1>3. CASE OpenDeduped(o)
    <2>1. OpenGoes(o, "deduped", "idle") /\ tracked' = tracked \ {o} /\ UNCHANGED <<chainVars, slips>>
        BY <1>3 DEF OpenDeduped, OpenGoes, Forget, chainVars
    <2>2. /\ OpenersStay
          /\ \A p \in Orders : Loosens(p) /\ (p # o => Borrowed(p)' = Borrowed(p))
        BY <2>1, OpenerGoes DEF OpenerSteps
    <2>3. tracked' = {} => tracked = {} \/ Load' <= slips'
        <3> SUFFICES ASSUME o \in tracked PROVE Load' <= slips'
            BY <2>1
        <3>1. Load + 1 <= 1 + slips
            BY <2>1 DEF OpenGoes, Borrowed, Sums, TrackedLoad
        <3>2. \A i, j \in Nat : i + 1 <= 1 + j => i <= j
            OBVIOUS
        <3>3. Load' = Load /\ slips' = slips
            BY <2>1 DEF Load, chainVars
        <3> QED
            BY <3>1, <3>2, <3>3, OutFinite
    <2>4. book' \subseteq book /\ coming' \subseteq coming /\ position' <= position /\ slips <= slips'
        BY <2>1, OutFinite DEF chainVars
    <2>5. tracked' \subseteq tracked /\ \A p \in tracked' : p \in Orders /\ p # o
        BY <2>1 DEF TypeOK, OrderTypes
    <2>6. Plain
        BY <2>2, <2>3, <2>4, <2>5, EasyPlain
    <2> QED
        BY <2>6, PlainKeeps
<1>4. CASE OpenAnswered(o)
    <2>1. OpenGoes(o, "sent", "appearing") /\ UNCHANGED <<tracked, coming, slips>>
        BY <1>4 DEF OpenAnswered
    <2> QED
        BY <2>1, OutFinite, OpenerEasy DEF OpenerSteps
<1>5. CASE OpenTimesOut(o)
    <2>1. OpenGoes(o, "sent", "adopting") /\ UNCHANGED <<tracked, coming, slips>>
        BY <1>5 DEF OpenTimesOut
    <2> QED
        BY <2>1, OutFinite, OpenerEasy DEF OpenerSteps
<1>6. CASE OpenAppears(o)
    <2>1. OpenGoes(o, "appearing", "idle") /\ UNCHANGED <<tracked, coming, slips>>
        BY <1>6 DEF OpenAppears
    <2> QED
        BY <2>1, OutFinite, OpenerEasy DEF OpenerSteps
<1>7. CASE OpenNotFound(o)
    <2>1. OpenGoes(o, "appearing", "positioning") /\ UNCHANGED <<tracked, coming, slips>>
        BY <1>7 DEF OpenNotFound
    <2> QED
        BY <2>1, OutFinite, OpenerEasy DEF OpenerSteps
<1>8. CASE OpenNotAdopted(o)
    <2>1. OpenGoes(o, "adopting", "looking") /\ UNCHANGED <<tracked, coming, slips>>
        BY <1>8 DEF OpenNotAdopted
    <2> QED
        BY <2>1, OutFinite, OpenerEasy DEF OpenerSteps
<1>9. CASE OpenFindsOrder(o)
    <2>1. OpenGoes(o, "looking", "idle") /\ UNCHANGED <<tracked, coming, slips>>
        BY <1>9 DEF OpenFindsOrder
    <2> QED
        BY <2>1, OutFinite, OpenerEasy DEF OpenerSteps
<1>10. CASE OpenGivesUp(o)
    <2>1. /\ OpenGoes(o, "positioning", "idle") /\ tracked' \subseteq tracked /\ UNCHANGED chainVars
          /\ Slips(Out # {} \/ position > 0)
        BY <1>10 DEF OpenGivesUp, Forget, OpenGoes, chainVars
    <2>2. slips <= slips' /\ (Load' <= slips' \/ Saves)
        BY <2>1, DropsPaid, SlipsUp
    <2> QED
        BY <2>1, <2>2, OpenerEasy DEF OpenerSteps, chainVars
<1>11. CASE OpenForgets(o)
    <2>1. /\ OpenGoes(o, "looking", "idle") /\ tracked' \subseteq tracked /\ UNCHANGED chainVars
          /\ Slips(Out # {} \/ position > 0)
        BY <1>11 DEF OpenForgets, Forget, OpenGoes, chainVars
    <2>2. slips <= slips' /\ (Load' <= slips' \/ Saves)
        BY <2>1, DropsPaid, SlipsUp
    <2> QED
        BY <2>1, <2>2, OpenerEasy DEF OpenerSteps, chainVars
<1>12. CASE OpenFindsPosition(o)
    <2>1. tracked' \subseteq tracked /\ UNCHANGED <<coming, slips>> /\ position' # 0 /\ slips <= slips'
        BY <1>12, OutFinite DEF OpenFindsPosition, OpenGoes, Report, Forget
    <2>2. OpenGoes(o, "positioning", "idle") \/ OpenGoes(o, "adopting", "idle")
        BY <1>12 DEF OpenFindsPosition
    <2> QED
        BY <2>1, <2>2, OpenerEasy DEF OpenerSteps
<1>13. CASE OpenRejected(o)
    <2>1. /\ OpenGoes(o, "sent", "idle") /\ tracked' \subseteq tracked
          /\ coming' \subseteq coming /\ UNCHANGED <<book, position>>
        BY <1>13 DEF OpenRejected, Forget, OpenGoes
    <2>2. CASE slips' = slips /\ coming' # coming
        <3>1. Load' < Load /\ slips <= slips'
            BY <2>1, <2>2, OutFinite, LessLoad DEF chainVars
        <3>2. Saves
            BY <2>1, <3>1, LessSaves
        <3> QED
            BY <2>1, <3>1, <3>2, OpenerEasy DEF OpenerSteps
    <2>3. CASE coming' = coming /\ Slips(Out # {} \/ position > 0)
        <3>1. UNCHANGED chainVars
            BY <2>1, <2>3 DEF chainVars
        <3>2. slips <= slips' /\ (Load' <= slips' \/ Saves)
            BY <2>3, <3>1, DropsPaid, SlipsUp
        <3> QED
            BY <2>1, <3>1, <3>2, OpenerEasy DEF OpenerSteps, chainVars
    <2> QED
        BY <1>13, <2>2, <2>3 DEF OpenRejected
<1> QED
    BY <1>1, <1>2, <1>3, <1>4, <1>5, <1>6, <1>7, <1>8, <1>9, <1>10, <1>11, <1>12, <1>13 DEF OpenStep

LEMMA PaysWhen ==
    ASSUME TypeOK, Load' \in Nat, slips <= slips', slips' \in Nat,
           Load' <= Load \/ (Load' <= Load + 1 /\ slips' = slips + 1)
    PROVE  Pays
<1> DEFINE l == Load
           l1 == Load'
           s == slips
           s1 == slips'
<1>1. l \in Nat /\ s \in Nat /\ l1 \in Nat /\ s1 \in Nat /\ s <= s1
    BY OutFinite
<1>2. l1 <= l \/ (l1 <= l + 1 /\ s1 = s + 1)
    OBVIOUS
<1> SUFFICES l1 + s <= l + s1
    BY DEF Pays
<1> HIDE DEF l, l1, s, s1
<1> QED
    BY <1>1, <1>2

LEMMA FallerGoes ==
    ASSUME TypeOK, OneOperation, NEW o \in Orders, NEW from \in FallerSteps \ {"idle"}, NEW to \in FallerSteps,
           FallbackGoes(o, from, to),
           \/ from \in {"placing", "confirming", "verifying", "recovering", "pricing"}
           \/ to \in {"idle", "cancelling", "rechecking"}
    PROVE  OpenersStay /\ \A p \in Orders : Loosens(p) /\ Borrowed(p)' = Borrowed(p)
<1>1. UNCHANGED <<uoid, replacer, opener>> /\ faller[o] = from
    BY DEF FallbackGoes
<1>2. \A p \in Orders : faller'[p] = IF p = o THEN to ELSE faller[p]
    BY DEF FallbackGoes, TypeOK, WorkTypes
<1>3. \A p \in Orders : FallbackIsOut(p)' => FallbackIsOut(p) \/ p = o
    BY <1>2 DEF FallbackIsOut
<1>4. FallbackIsOut(o)' => FallbackIsOut(o)
    BY <1>1, <1>2 DEF FallbackIsOut
<1>5. \A p \in Orders : Own(p) \subseteq Own(p)'
    BY <1>1, <1>2, <1>3, <1>4 DEF Own, ReplaceIsOut, FallbackIsOut
<1> QED
    BY <1>1, <1>5, OpenersAlone DEF Loosens

LEMMA FallerEasy ==
    ASSUME TypeOK, TypeOK', OneOperation, Sums, Actors, NEW o \in Orders,
           NEW from \in FallerSteps \ {"idle"}, NEW to \in FallerSteps, FallbackGoes(o, from, to),
           \/ from \in {"placing", "confirming", "verifying", "recovering", "pricing"}
           \/ to \in {"idle", "cancelling", "rechecking"},
           coming' \subseteq coming, UNCHANGED <<book, position>>, slips <= slips', tracked' \subseteq tracked,
           tracked' = {} => tracked = {} \/ position' # 0 \/ Load' <= slips' \/ Saves
    PROVE  Sums'
<1>1. book' \subseteq book /\ position' <= position
    BY OutFinite
<1>2. OpenersStay /\ \A p \in Orders : Loosens(p) /\ Borrowed(p)' = Borrowed(p)
    BY FallerGoes
<1>3. \A p \in tracked' : p \in Orders
    BY DEF TypeOK, OrderTypes
<1>4. Plain
    BY <1>1, <1>2, <1>3, EasyPlain
<1> QED
    BY <1>4, PlainKeeps

\* The market order goes out: it is paid for, or the limit order was seen to
\* leave the book, or neither it nor a position nor another market order is there.
LEMMA FallbackSends ==
    ASSUME TypeOK, TypeOK', OneOperation, Sums, Actors, NEW o \in Orders,
           NEW from \in {"cancelling", "rechecking"}, FallbackGoes(o, from, "placing"),
           coming' = coming \cup {Fallback}, book' \in {book, book \ {uoid[o]}}, UNCHANGED <<position, tracked>>,
           slips <= slips',
           \/ slips' = slips + 1
           \/ o \in tracked /\ book' = book \ {uoid[o]} /\ (uoid[o] \in book \/ (position = 0 /\ uoid[o] \notin coming))
    PROVE  Sums'
<1>1. UNCHANGED <<uoid, replacer, opener>> /\ faller[o] = from /\ replacer[o] = "idle"
    BY DEF FallbackGoes, OneOperation
<1>2. \A p \in Orders : faller'[p] = IF p = o THEN "placing" ELSE faller[p]
    BY DEF FallbackGoes, TypeOK, WorkTypes
<1>3. ~Vacant(o)'
    <2>1. Own(o)' = {Fallback} /\ Fallback \in Out'
        BY <1>1, <1>2 DEF Own, ReplaceIsOut, FallbackIsOut, Out
    <2> QED
        BY <1>1, <2>1 DEF Vacant, Absent
<1>4. /\ Load' <= Load + 1 /\ Load' \in Nat
      /\ Fallback \in coming => Load' <= Load
      /\ book' # book => Load' <= Load
    BY MoreLoad
<1>5. OpenersStay /\ \A p \in Orders : Borrowed(p)' = Borrowed(p)
    BY <1>1, OpenersAlone
<1>6. slips' \in Nat /\ tracked \subseteq Orders
    BY DEF TypeOK, ChainTypes, OrderTypes
<1>7. \A p \in Orders \ {o} : Own(p)' = Own(p)
    BY <1>1, <1>2 DEF Own, ReplaceIsOut, FallbackIsOut
<1>8. CASE slips' = slips + 1
    <2>1. Pays
        BY <1>4, <1>6, <1>8, PaysWhen
    <2>2. ASSUME NEW p \in tracked, p # o, Vacant(p)', ~Saves
          PROVE  Vacant(p)
        <3>1. book' = book
            BY <1>4, <1>8, <2>2, SlipSaves
        <3>2. Out \subseteq Out'
            BY <3>1 DEF Out
        <3> QED
            BY <1>1, <1>6, <1>7, <2>2, <3>2 DEF Vacant, Absent
    <2>3. OrdersStay
        BY <1>3, <1>5, <1>6, <2>2 DEF OrdersStay
    <2>4. Plain
        BY <1>5, <2>1, <2>3 DEF Plain, Ends
    <2> QED
        BY <2>4, PlainKeeps
<1>9. CASE /\ o \in tracked /\ book' = book \ {uoid[o]}
           /\ uoid[o] \in book \/ (position = 0 /\ uoid[o] \notin coming)
    <2>1. CASE Load' <= Load
        <3>1. Pays
            BY <1>4, <1>6, <2>1, PaysWhen
        <3>2. \A p \in tracked : p = o
            BY <1>9 DEF Actors, OneTracked
        <3>3. Plain
            BY <1>3, <1>5, <1>6, <3>1, <3>2 DEF Plain, Ends, OrdersStay
        <3> QED
            BY <3>3, PlainKeeps
    <2>2. CASE ~(Load' <= Load)
        <3>1. uoid[o] \notin book /\ position = 0 /\ uoid[o] \notin coming /\ Fallback \notin coming
            BY <1>4, <1>9, <2>2
        <3>2. Fallback \notin book
            BY FallbackIsNoLimit DEF TypeOK, ChainTypes
        <3>3. Own(o) = {uoid[o], Fallback}
            BY <1>1 DEF Own, ReplaceIsOut, FallbackIsOut
        <3>4. Vacant(o)
            BY <3>1, <3>2, <3>3 DEF Vacant, Absent, Out
        <3> QED
            BY <1>1, <1>3, <1>4, <1>9, <3>4, SendsKeeps
    <2> QED
        BY <2>1, <2>2
<1> QED
    BY <1>8, <1>9

LEMMA FallbackSums ==
    ASSUME TypeOK, TypeOK', OneOperation, Sums, Actors, NEW o \in Orders, FallbackStep(o)
    PROVE  Sums'
<1>1. CASE FallbackFindsPosition(o)
    <2>1. tracked' \subseteq tracked /\ UNCHANGED <<chainVars, slips>> /\ position' # 0 /\ slips <= slips'
        BY <1>1, OutFinite DEF FallbackFindsPosition, Report, Forget, chainVars
    <2>2. PICK from \in {"checking", "rechecking", "verifying", "recovering"} : FallbackGoes(o, from, "idle")
        BY <1>1 DEF FallbackFindsPosition
    <2> QED
        BY <2>1, <2>2, FallerEasy DEF FallerSteps, chainVars
<1>2. CASE FallbackChecked(o)
    <2>1. FallbackGoes(o, "checking", "cancelling") /\ UNCHANGED <<tracked, chainVars, slips>>
        BY <1>2 DEF FallbackChecked
    <2> QED
        BY <2>1, OutFinite, FallerEasy DEF FallerSteps, chainVars
<1>3. CASE FallbackAnswered(o)
    <2>1. FallbackGoes(o, "placing", "confirming") /\ UNCHANGED <<tracked, chainVars, slips>>
        BY <1>3 DEF FallbackAnswered
    <2> QED
        BY <2>1, OutFinite, FallerEasy DEF FallerSteps, chainVars
<1>4. CASE FallbackReports(o)
    <2>1. FallbackGoes(o, "pricing", "idle") /\ UNCHANGED <<tracked, chainVars, slips>>
        BY <1>4 DEF FallbackReports
    <2> QED
        BY <2>1, OutFinite, FallerEasy DEF FallerSteps, chainVars
<1>5. CASE FallbackUnconfirmed(o)
    <2>1. FallbackGoes(o, "confirming", "verifying") /\ UNCHANGED <<tracked, chainVars, slips>>
        BY <1>5 DEF FallbackUnconfirmed
    <2> QED
        BY <2>1, OutFinite, FallerEasy DEF FallerSteps, chainVars
<1>6. CASE FallbackCancelled(o)
    <2> DEFINE h == CancelMisleads(o) \/ Dropped(o)
    <2>1. /\ FallbackGoes(o, "cancelling", "placing") /\ UNCHANGED <<tracked, position>>
          /\ book' \in {book, book \ {uoid[o]}} /\ coming' = coming \cup {Fallback} /\ Slips(h)
        BY <1>6 DEF FallbackCancelled, CancelSucceeds
    <2>2. slips <= slips' /\ (h => slips' = slips + 1)
        <3> HIDE DEF h
        <3> QED
            BY <2>1, SlipsUp
    <2>3. position \in Nat
        BY OutFinite
    <2>4. ~h => /\ o \in tracked /\ book' = book \ {uoid[o]}
                /\ uoid[o] \in book \/ (position = 0 /\ uoid[o] \notin coming)
        BY <2>1, <2>3 DEF CancelMisleads, NotFoundThough, Dropped
    <2> QED
        BY <2>1, <2>2, <2>4, FallbackSends
<1>7. CASE FallbackCancelFails(o)
    <2>1. CASE FallbackGoes(o, "cancelling", "rechecking") /\ UNCHANGED <<coming, slips>>
        <3>1. UNCHANGED <<tracked, book, position>>
            BY <1>7 DEF FallbackCancelFails
        <3> QED
            BY <2>1, <3>1, OutFinite, FallerEasy DEF FallerSteps
    <2>2. CASE /\ \E from \in {"cancelling", "rechecking"} : FallbackGoes(o, from, "placing")
               /\ coming' = coming \cup {Fallback} /\ Slips(TRUE)
        <3>1. UNCHANGED <<tracked, book, position>>
            BY <1>7 DEF FallbackCancelFails
        <3>2. slips' = slips + 1 /\ slips <= slips'
            BY <2>2, SlipsUp
        <3> QED
            BY <2>2, <3>1, <3>2, FallbackSends
    <2> QED
        BY <1>7, <2>1, <2>2 DEF FallbackCancelFails
<1>8. CASE FallbackFails(o)
    <2>1. FallbackGoes(o, "placing", "recovering") /\ UNCHANGED <<tracked, book, position, slips>> /\ coming' \subseteq coming
        BY <1>8 DEF FallbackFails
    <2> QED
        BY <2>1, OutFinite, FallerEasy DEF FallerSteps
<1>9. CASE FallbackConfirmed(o)
    <2>1. /\ FallbackGoes(o, "confirming", "pricing") /\ UNCHANGED <<chainVars, slips>>
          /\ tracked' = tracked \ {o} /\ Fallback \notin coming /\ slips <= slips'
        BY <1>9, OutFinite DEF FallbackConfirmed, Forget
    <2>2. tracked' = {} => tracked = {} \/ position' # 0 \/ Load' <= slips'
        <3> SUFFICES ASSUME o \in tracked, position = 0 PROVE Load <= slips
            BY <2>1 DEF chainVars, Load
        <3>1. Own(o) = {Fallback}
            BY <2>1 DEF FallbackGoes, OneOperation, Own, ReplaceIsOut, FallbackIsOut
        <3>2. Fallback \notin Out
            BY <2>1, FallbackIsNoLimit DEF Out, TypeOK, ChainTypes
        <3>3. Load + Borrowed(o) <= slips
            BY <3>1, <3>2 DEF Vacant, Absent, Sums, TrackedLoad
        <3>4. \A i, j \in Nat : (i + 0 <= j => i <= j) /\ (i + 1 <= j => i <= j)
            OBVIOUS
        <3>5. Borrowed(o) = 0 \/ Borrowed(o) = 1
            BY DEF Borrowed
        <3> QED
            BY <3>3, <3>4, <3>5, OutFinite
    <2> QED
        BY <2>1, <2>2, FallerEasy DEF FallerSteps, chainVars
<1>10. CASE FallbackDefers(o)
    <2>1. UNCHANGED <<tracked, chainVars>> /\ slips <= slips'
        BY <1>10, SlipsUp DEF FallbackDefers
    <2>2. PICK from \in {"verifying", "recovering"} : FallbackGoes(o, from, "idle")
        BY <1>10 DEF FallbackDefers
    <2> QED
        BY <2>1, <2>2, FallerEasy DEF FallerSteps, chainVars
<1>11. CASE FallbackFindsNothing(o)
    <2>1. /\ tracked' \subseteq tracked /\ UNCHANGED chainVars /\ position = 0 /\ Slips(Out # {})
        BY <1>11 DEF FallbackFindsNothing, Forget
    <2>2. slips <= slips' /\ (Load' <= slips' \/ Saves)
        <3>1. Out # {} \/ position > 0 => Out # {}
            BY <2>1
        <3> QED
            BY <2>1, <3>1, SlipsUp, DropsPaid
    <2>3. PICK from \in {"verifying", "recovering"} : FallbackGoes(o, from, "idle")
        BY <1>11 DEF FallbackFindsNothing
    <2> QED
        BY <2>1, <2>2, <2>3, FallerEasy DEF FallerSteps, chainVars
<1> QED
    BY <1>1, <1>2, <1>3, <1>4, <1>5, <1>6, <1>7, <1>8, <1>9, <1>10, <1>11 DEF FallbackStep

LEMMA ReplacerGoes ==
    ASSUME TypeOK, NEW o \in Orders, NEW from \in ReplacerSteps, NEW to \in ReplacerSteps,
           ReplaceGoes(o, from, to), \A p \in Orders \ {o} : uoid'[p] = uoid[p]
    PROVE  /\ replacer[o] = from /\ replacer'[o] = to /\ UNCHANGED faller
           /\ OpenersStay /\ \A p \in Orders : Borrowed(p)' = Borrowed(p)
           /\ \A p \in Orders \ {o} : Loosens(p) /\ Own(p)' = Own(p) /\ replacer'[p] = replacer[p]
<1>1. UNCHANGED <<opener, faller>> /\ replacer[o] = from
    BY DEF ReplaceGoes
<1>2. \A p \in Orders : replacer'[p] = IF p = o THEN to ELSE replacer[p]
    BY DEF ReplaceGoes, TypeOK, WorkTypes
<1>3. \A p \in Orders \ {o} : Own(p)' = Own(p)
    BY <1>1, <1>2 DEF Own, ReplaceIsOut, FallbackIsOut
<1> QED
    BY <1>1, <1>2, <1>3, OpenersAlone DEF Loosens

LEMMA ReplacerEasy ==
    ASSUME TypeOK, TypeOK', Sums, Actors, NEW o \in Orders, NEW from \in ReplacerSteps, NEW to \in ReplacerSteps,
           ReplaceGoes(o, from, to), \A p \in Orders \ {o} : uoid'[p] = uoid[p],
           book' \subseteq book, coming' \subseteq coming, slips <= slips', tracked' \subseteq tracked,
           tracked' = {} => tracked = {} \/ Load' <= slips' \/ Saves,
           o \in tracked' => Loosens(o) \/ Vacant(o) \/ Saves
    PROVE  Sums'
<1>1. position' <= position
    BY OutFinite DEF ReplaceGoes
<1>2. OpenersStay /\ \A p \in Orders : Borrowed(p)' = Borrowed(p) /\ (p # o => Loosens(p))
    BY ReplacerGoes
<1>3. \A p \in tracked' : p \in Orders
    BY DEF TypeOK, OrderTypes
<1>4. Plain
    BY <1>1, <1>2, <1>3, EasyPlain
<1> QED
    BY <1>4, PlainKeeps

\* Something leaves the chain, or a slip is counted, and nothing is sent.
LEMMA LeavesSaves ==
    ASSUME TypeOK, TypeOK', book' \subseteq book, coming' \subseteq coming, position' <= position, slips <= slips',
           book' # book \/ coming' # coming \/ slips' = slips + 1
    PROVE  Saves
<1>1. Load' <= Load /\ (Load' < Load \/ UNCHANGED chainVars)
    BY LessLoad
<1>2. (TypeOK => Load \in Nat)'
    BY OutFinite, PTL
<1>3. CASE slips' = slips + 1
    BY <1>1, <1>2, <1>3, SlipSaves
<1>4. CASE book' # book \/ coming' # coming
    BY <1>1, <1>4, LessSaves DEF chainVars
<1> QED
    BY <1>3, <1>4

\* The new order goes out, for one whose old order was seen to leave the book.
LEMMA ReplaceSums ==
    ASSUME TypeOK, TypeOK', OneOperation, Sums, Actors, NEW o \in Orders, ReplaceStep(o)
    PROVE  Sums'
<1> USE DEF ReplacerSteps
<1>0. position <= position
    BY OutFinite
<1>1. CASE ReplaceCancelled(o)
    <2> DEFINE h == CancelMisleads(o)
    <2>1. /\ ReplaceGoes(o, "cancelling", "confirming") /\ UNCHANGED <<tracked, uoid, coming>>
          /\ book' \in {book, book \ {uoid[o]}} /\ position' = position /\ Slips(h)
        BY <1>1 DEF ReplaceCancelled, CancelSucceeds, ReplaceGoes
    <2>2. slips <= slips' /\ (h => slips' = slips + 1)
        <3> HIDE DEF h
        <3> QED
            BY <2>1, SlipsUp
    <2>3. Vacant(o) \/ Saves
        <3>1. CASE h \/ uoid[o] \in book
            <4>1. h \/ book' # book
                BY <2>1, <3>1 DEF CancelMisleads
            <4> HIDE DEF h
            <4> QED
                BY <1>0, <2>1, <2>2, <4>1, LeavesSaves
        <3>2. CASE ~h /\ uoid[o] \notin book
            <4>1. position = 0 /\ uoid[o] \notin Out
                BY <3>2, OutFinite DEF CancelMisleads, NotFoundThough, Out
            <4>2. Own(o) = {uoid[o]}
                BY <2>1 DEF ReplaceGoes, Own, ReplaceIsOut
            <4> QED
                BY <4>1, <4>2 DEF Vacant, Absent
        <3> QED
            BY <3>1, <3>2
    <2> HIDE DEF h
    <2> QED
        BY <2>1, <2>2, <2>3, ReplacerEasy
<1>2. CASE ReplaceNotCancelled(o)
    <2>1. UNCHANGED <<tracked, uoid, book, coming, slips>> /\ slips <= slips'
        BY <1>2, OutFinite DEF ReplaceNotCancelled
    <2>2. CASE ReplaceGoes(o, "cancelling", "idle")
        <3>1. /\ replacer[o] = "cancelling" /\ replacer'[o] = "idle" /\ UNCHANGED <<faller, uoid>>
              /\ faller[o] = "idle"
            BY <2>1, <2>2, ReplacerGoes DEF OneOperation
        <3>2. Loosens(o)
            BY <3>1 DEF Loosens, Own, ReplaceIsOut, FallbackIsOut
        <3> QED
            BY <2>1, <2>2, <3>2, ReplacerEasy
    <2>3. CASE ReplaceGoes(o, "confirming", "idle")
        <3>1. Vacant(o)
            BY <2>3 DEF ReplaceGoes, Vacant
        <3> QED
            BY <2>1, <2>3, <3>1, ReplacerEasy
    <2> QED
        BY <1>2, <2>2, <2>3 DEF ReplaceNotCancelled
<1>3. CASE ReplaceSends(o)
    <2>1. /\ replacer[o] = "confirming" /\ Vacant(o) /\ UNCHANGED <<tracked, uoid, book>>
          /\ position' = position /\ Slips(Dropped(o))
        BY <1>3 DEF ReplaceSends, ReplaceGoes, Vacant
    <2>2. slips <= slips' /\ (Dropped(o) => slips' = slips + 1)
        BY <2>1, SlipsUp
    <2>3. CASE Replace \in book
        <3>1. ReplaceGoes(o, "confirming", "idle") /\ coming' = coming
            BY <1>3, <2>3 DEF ReplaceSends
        <3> QED
            BY <2>1, <2>2, <3>1, ReplacerEasy
    <2>4. CASE Replace \notin book
        <3>1. ReplaceGoes(o, "confirming", "placing") /\ coming' = coming \cup {Replace}
            BY <1>3, <2>4 DEF ReplaceSends
        <3>2. /\ replacer'[o] = "placing" /\ OpenersStay /\ UNCHANGED opener
              /\ \A p \in Orders : Borrowed(p)' = Borrowed(p)
              /\ \A p \in Orders \ {o} : Own(p)' = Own(p) /\ replacer'[p] = replacer[p]
            BY <2>1, <3>1, ReplacerGoes DEF ReplaceGoes
        <3>3. Load' <= Load + 1 /\ Load' \in Nat
            BY <2>1, <3>1, MoreLoad
        <3>4. CASE o \in tracked
            <4>1. Own(o)' = {Replace} /\ Replace \in Out'
                BY <3>1, <3>2 DEF Own, ReplaceIsOut, Out
            <4>2. ~Vacant(o)'
                BY <3>2, <4>1 DEF Vacant, Absent
            <4> QED
                BY <2>1, <2>2, <3>2, <3>3, <3>4, <4>2, SendsKeeps
        <3>5. CASE o \notin tracked
            <4>1. slips' = slips + 1 /\ slips' \in Nat
                BY <2>2, <3>5 DEF Dropped, TypeOK, ChainTypes
            <4>2. Pays
                BY <2>2, <3>3, <4>1, PaysWhen
            <4>3. Out \subseteq Out' /\ tracked \subseteq Orders \ {o}
                BY <2>1, <3>1, <3>5 DEF Out, TypeOK, OrderTypes
            <4>4. \A p \in tracked : Vacant(p)' => Vacant(p)
                BY <2>1, <3>2, <4>3 DEF Vacant, Absent
            <4>5. Plain
                BY <2>1, <3>2, <4>2, <4>3, <4>4 DEF Plain, Ends, OrdersStay
            <4> QED
                BY <4>5, PlainKeeps
        <3> QED
            BY <3>4, <3>5
    <2> QED
        BY <2>3, <2>4
<1>4. CASE ReplaceAnswered(o)
    <2>1. /\ ReplaceGoes(o, "placing", "appearing") /\ UNCHANGED <<tracked, book, coming, slips>>
          /\ \A p \in Orders \ {o} : uoid'[p] = uoid[p]
        BY <1>4 DEF ReplaceAnswered, TypeOK, OrderTypes
    <2>2. Loosens(o)
        BY <2>1, ReplacerGoes DEF Loosens, Own, ReplaceIsOut
    <2> QED
        BY <2>1, <2>2, OutFinite, ReplacerEasy
<1>5. CASE ReplaceDiscards(o)
    <2>1. ReplaceGoes(o, "placing", "discarding") /\ UNCHANGED <<tracked, uoid, book, coming, slips>>
        BY <1>5 DEF ReplaceDiscards
    <2>2. Loosens(o)
        BY <2>1, ReplacerGoes DEF Loosens, Own, ReplaceIsOut
    <2> QED
        BY <2>1, <2>2, OutFinite, ReplacerEasy
<1>6. CASE ReplaceFails(o)
    <2>1. ReplaceGoes(o, "placing", "idle") /\ UNCHANGED <<tracked, uoid, book>> /\ position' = position
        BY <1>6 DEF ReplaceFails, ReplaceGoes
    <2>2. CASE Replace \in coming /\ coming' = coming \ {Replace} /\ slips' = slips
        <3>1. Saves
            BY <1>0, <2>1, <2>2, OutFinite, LeavesSaves
        <3> QED
            BY <2>1, <2>2, <3>1, OutFinite, ReplacerEasy
    <2>3. CASE coming' = coming /\ Slips(TRUE)
        <3>1. slips' = slips + 1 /\ slips <= slips'
            BY <2>3, SlipsUp
        <3>2. Saves
            BY <1>0, <2>1, <2>3, <3>1, LeavesSaves
        <3> QED
            BY <2>1, <2>3, <3>1, <3>2, ReplacerEasy
    <2> QED
        BY <1>6, <2>2, <2>3 DEF ReplaceFails
<1>7. CASE ReplaceLacksCollateral(o)
    <2>1. /\ ReplaceGoes(o, "placing", "idle") /\ UNCHANGED <<uoid, book, slips>> /\ position' = position
          /\ tracked' \subseteq tracked /\ Replace \in coming /\ coming' = coming \ {Replace}
        BY <1>7 DEF ReplaceLacksCollateral, ReplaceGoes, Forget
    <2>2. Saves
        BY <1>0, <2>1, OutFinite, LeavesSaves
    <2> QED
        BY <2>1, <2>2, OutFinite, ReplacerEasy
<1>8. CASE ReplaceAppears(o)
    <2>1. ReplaceGoes(o, "appearing", "idle") /\ UNCHANGED <<tracked, uoid, book, coming, slips>> /\ o \in tracked
        BY <1>8 DEF ReplaceAppears, IsOrderActive
    <2>2. uoid[o] = Replace /\ replacer[o] = "appearing" /\ replacer'[o] = "idle" /\ UNCHANGED faller
        BY <2>1, ReplacerGoes DEF Actors, NewIdIsKnown
    <2>3. Loosens(o)
        BY <2>1, <2>2 DEF Loosens, Own, ReplaceIsOut, FallbackIsOut, OneOperation
    <2> QED
        BY <2>1, <2>3, OutFinite, ReplacerEasy
<1>9. CASE ReplaceAborts(o)
    <2>1. ReplaceGoes(o, "appearing", "aborting") /\ UNCHANGED <<tracked, uoid, book, coming, slips>>
        BY <1>9 DEF ReplaceAborts
    <2>2. Loosens(o)
        BY <2>1, ReplacerGoes DEF Loosens, Own, ReplaceIsOut
    <2> QED
        BY <2>1, <2>2, OutFinite, ReplacerEasy
<1>10. CASE ReplaceGivenUp(o)
    <2> DEFINE h == Replace \in book' \union coming \/ position > 0
    <2>1. /\ book' \in {book, book \ {Replace}} /\ UNCHANGED <<tracked, coming>> /\ Slips(h)
          /\ \A p \in Orders \ {o} : uoid'[p] = uoid[p]
        BY <1>10 DEF ReplaceGivenUp, TypeOK, OrderTypes
    <2>2. PICK from \in {"discarding", "aborting"} : ReplaceGoes(o, from, "idle")
        BY <1>10 DEF ReplaceGivenUp
    <2>3. slips <= slips' /\ (h => slips' = slips + 1) /\ position' = position
        <3>1. slips <= slips' /\ (h => slips' = slips + 1)
            <4> HIDE DEF h
            <4> QED
                BY <2>1, SlipsUp
        <3> QED
            BY <2>2, <3>1 DEF ReplaceGoes
    <2>4. Vacant(o) \/ Saves
        <3>1. CASE h \/ book' # book
            BY <1>0, <2>1, <2>3, <3>1, LeavesSaves
        <3>2. CASE ~h /\ book' = book
            <4>1. position = 0 /\ Replace \notin Out
                BY <3>2, OutFinite DEF Out
            <4>2. Own(o) = {Replace}
                BY <2>2 DEF ReplaceGoes, Own, ReplaceIsOut
            <4> QED
                BY <4>1, <4>2 DEF Vacant, Absent
        <3> QED
            BY <3>1, <3>2
    <2> HIDE DEF h
    <2> QED
        BY <2>1, <2>2, <2>3, <2>4, ReplacerEasy
<1> QED
    BY <1>1, <1>2, <1>3, <1>4, <1>5, <1>6, <1>7, <1>8, <1>9, <1>10 DEF ReplaceStep

\* Steps that move no opener and no operation.
LEMMA WorkEasy ==
    ASSUME TypeOK, TypeOK', Sums, Actors, UNCHANGED <<opener, replacer, faller, uoid>>,
           book' \subseteq book, coming' \subseteq coming, position' <= position, slips <= slips',
           tracked' \subseteq tracked,
           tracked' = {} => tracked = {} \/ position' # 0 \/ Load' <= slips' \/ Saves
    PROVE  Sums'
<1>1. OpenersStay /\ \A p \in Orders : Borrowed(p)' = Borrowed(p) /\ Loosens(p)
    BY OpenersAlone, WorkAlone
<1>2. \A p \in tracked' : p \in Orders
    BY DEF TypeOK, OrderTypes
<1>3. Plain
    BY <1>1, <1>2, EasyPlain
<1> QED
    BY <1>3, PlainKeeps

\* The monitor starts a fallback of an order that nobody works on.
LEMMA StartEasy ==
    ASSUME TypeOK, TypeOK', LockInv, Sums, Actors, NEW o \in Orders, StartFallback(o),
           UNCHANGED <<opener, replacer, uoid, tracked, chainVars>>, slips <= slips'
    PROVE  Sums'
<1>1. \A p \in Orders : p # o => faller'[p] = faller[p]
    BY DEF StartFallback, TypeOK, WorkTypes
<1>2. faller'[o] = faller[o] \/ (faller[o] = "idle" /\ faller'[o] = "checking")
    BY DEF StartFallback, TypeOK, OrderTypes, WorkTypes, LockInv, LockIsHeld
<1>3. \A p \in Orders : FallbackIsOut(p)' = FallbackIsOut(p)
    BY <1>1, <1>2 DEF FallbackIsOut
<1>4. \A p \in Orders : Loosens(p)
    BY <1>3 DEF Loosens, Own, ReplaceIsOut
<1>5. OpenersStay /\ \A p \in Orders : Borrowed(p)' = Borrowed(p)
    BY OpenersAlone
<1>6. \A p \in tracked' : p \in Orders
    BY DEF TypeOK, OrderTypes
<1>7. book' \subseteq book /\ coming' \subseteq coming /\ position' <= position
    BY OutFinite DEF chainVars
<1>8. Plain
    BY <1>4, <1>5, <1>6, <1>7, EasyPlain
<1> QED
    BY <1>8, PlainKeeps

LEMMA MonitorSums ==
    ASSUME TypeOK, TypeOK', LockInv, Sums, Actors, NEW o \in Orders, MonitorStep(o)
    PROVE  Sums'
<1>0. position <= position /\ slips <= slips
    BY OutFinite
<1>1. CASE MonitorForceRemoves(o)
    <2>1. /\ UNCHANGED <<opener, replacer, faller, uoid, chainVars>> /\ tracked' \subseteq tracked /\ Slips(TRUE)
        BY <1>1 DEF MonitorForceRemoves, Forget, workVars
    <2>2. Saves /\ slips <= slips'
        BY <1>0, <2>1, SlipsUp, LeavesSaves DEF chainVars
    <2> QED
        BY <1>0, <2>1, <2>2, WorkEasy DEF chainVars
<1>2. CASE MonitorFallsBack(o)
    BY <1>0, <1>2, StartEasy DEF MonitorFallsBack
<1>3. CASE MonitorCancels(o)
    BY <1>0, <1>3, WorkEasy DEF MonitorCancels, orderVars, chainVars
<1>4. CASE MonitorReplaces(o)
    <2>1. UNCHANGED <<opener, faller, uoid, tracked, chainVars, slips>> /\ uoid[o] \in book /\ StartReplace(o)
        BY <1>4 DEF MonitorReplaces
    <2>2. CASE UNCHANGED replacer
        BY <1>0, <2>1, <2>2, WorkEasy DEF chainVars
    <2>3. CASE replacer' = [replacer EXCEPT ![o] = "cancelling"]
        <3>1. \A p \in Orders : replacer'[p] = IF p = o THEN "cancelling" ELSE replacer[p]
            BY <2>3 DEF TypeOK, WorkTypes
        <3>2. ~Vacant(o)'
            <4>1. Own(o)' = {uoid[o]} /\ uoid[o] \in Out'
                BY <2>1, <3>1 DEF Own, ReplaceIsOut, Out, chainVars
            <4> QED
                BY <3>1, <4>1 DEF Vacant, Absent
        <3>3. \A p \in Orders \ {o} : Loosens(p)
            BY <2>1, <3>1 DEF Loosens, Own, ReplaceIsOut, FallbackIsOut
        <3>4. OpenersStay /\ \A p \in Orders : Borrowed(p)' = Borrowed(p)
            BY <2>1, OpenersAlone
        <3>5. \A p \in tracked' : p \in Orders
            BY DEF TypeOK, OrderTypes
        <3>6. Plain
            BY <1>0, <2>1, <3>2, <3>3, <3>4, <3>5, EasyPlain DEF chainVars
        <3> QED
            BY <3>6, PlainKeeps
    <2> QED
        BY <2>1, <2>2, <2>3 DEF StartReplace
<1>5. CASE MonitorMissesOrder(o)
    <2>1. UNCHANGED <<opener, replacer, faller, uoid, tracked, chainVars>> /\ slips <= slips'
        BY <1>5, SlipsUp DEF MonitorMissesOrder, orderVars
    <2> QED
        BY <1>0, <2>1, WorkEasy DEF chainVars
<1>6. CASE MonitorFindsPosition(o)
    <2>1. /\ UNCHANGED <<opener, replacer, faller, uoid, chainVars, slips>> /\ tracked' \subseteq tracked
          /\ position' # 0
        BY <1>6, OutFinite DEF MonitorFindsPosition, Report, Forget, chainVars
    <2> QED
        BY <1>0, <2>1, WorkEasy DEF chainVars
<1>7. CASE MonitorGivesUp(o)
    <2>1. UNCHANGED <<opener, replacer, uoid, chainVars>>
        BY <1>7 DEF MonitorGivesUp
    <2>2. CASE FallbackToTaker /\ CanFallback(o)
        <3>1. StartFallback(o) /\ tracked' = tracked /\ slips <= slips'
            BY <1>7, <2>2, SlipsUp DEF MonitorGivesUp
        <3> QED
            BY <2>1, <3>1, StartEasy
    <2>3. CASE ~(FallbackToTaker /\ CanFallback(o))
        <3>1. tracked' \subseteq tracked /\ UNCHANGED faller /\ Slips(position > 0 \/ Out # {})
            BY <1>7, <2>3 DEF MonitorGivesUp, Forget
        <3>2. slips <= slips' /\ (Load' <= slips' \/ Saves)
            BY <2>1, <3>1, SlipsUp, DropsPaid
        <3> QED
            BY <1>0, <2>1, <3>1, <3>2, WorkEasy DEF chainVars
    <2> QED
        BY <2>2, <2>3
<1> QED
    BY <1>1, <1>2, <1>3, <1>4, <1>5, <1>6, <1>7 DEF MonitorStep

LEMMA CancelSums ==
    ASSUME TypeOK, TypeOK', Sums, Actors, NEW o \in Orders, CancelAnswered(o)
    PROVE  Sums'
<1> DEFINE h == book' \union coming # {} \/ NotFoundThough(o)
<1>1. /\ UNCHANGED <<opener, replacer, faller, uoid, coming, position>> /\ tracked' \subseteq tracked
      /\ book' \subseteq book /\ Slips(h)
    BY DEF CancelAnswered, Forget
<1>2. slips <= slips' /\ (h => slips' = slips + 1)
    <2> HIDE DEF h
    <2> QED
        BY <1>1, SlipsUp
<1>3. position <= position /\ slips' \in Nat
    BY OutFinite DEF TypeOK, ChainTypes
<1>4. position' # 0 \/ Load' <= slips' \/ Saves
    <2>1. CASE h
        BY <1>1, <1>2, <1>3, <2>1, LeavesSaves
    <2>2. CASE ~h /\ position = 0
        <3>1. book' = {} /\ coming' = {} /\ position' = 0
            BY <1>1, <2>2
        <3>2. Load' = 0
            BY <3>1, FS_EmptySet DEF Load
        <3> QED
            BY <1>3, <3>2
    <2> QED
        BY <1>1, <2>1, <2>2
<1> QED
    BY <1>1, <1>2, <1>3, <1>4, WorkEasy

\* What the chain and the bot do to the orders.
LEMMA ChainSums ==
    ASSUME TypeOK, TypeOK', Sums, Actors,
           \/ \E i \in Limits \union {Fallback} : Land(i) \/ Expire(i)
           \/ \E i \in Limits : Fill(i) \/ Removed(i)
           \/ PositionSync \/ ClosePosition
    PROVE  Sums'
<1>0. position <= position /\ slips <= slips /\ position \in Nat /\ slips' \in Nat
    BY OutFinite DEF TypeOK, ChainTypes
<1>1. UNCHANGED <<tracked, opener, replacer, faller, uoid, slips>>
    BY DEF Land, Expire, Fill, Removed, PositionSync, ClosePosition, ChainStep, orderVars, workVars
<1>2. OpenersStay /\ \A p \in Orders : Borrowed(p)' = Borrowed(p) /\ Own(p)' = Own(p)
    BY <1>1, OpenersAlone, WorkAlone
<1>3. \A p \in tracked' : p \in Orders
    BY DEF TypeOK, OrderTypes
<1>4. ASSUME Load' <= Load, Load' \in Nat, position' = 0 => position = 0 /\ Out \subseteq Out'
      PROVE  Sums'
    <2>1. Pays
        BY <1>0, <1>1, <1>4, PaysWhen
    <2>2. \A p \in tracked' : Vacant(p)' => Vacant(p)
        BY <1>1, <1>2, <1>3, <1>4 DEF Vacant, Absent
    <2>3. Plain
        BY <1>1, <1>2, <1>3, <1>4, <2>1, <2>2 DEF Plain, Ends, OrdersStay
    <2> QED
        BY <2>3, PlainKeeps
<1>5. ASSUME NEW i \in Limits \union {Fallback}, Land(i)
      PROVE  Sums'
    <2>1. CASE i = Fallback
        <3>1. i \in coming /\ coming' = coming \ {i} /\ book' = book /\ position' = position + 1
            BY <1>5, <2>1 DEF Land
        <3>2. position' # 0
            BY <1>0, <3>1
        <3> QED
            BY <1>4, <3>1, <3>2, MovedLoad
    <2>2. CASE i # Fallback
        <3>1. i \in coming /\ coming' = coming \ {i} /\ book' = book \cup {i} /\ position' = position
            BY <1>5, <2>2 DEF Land
        <3>2. Out \subseteq Out'
            BY <3>1 DEF Out
        <3> QED
            BY <1>4, <3>1, <3>2, MovedLoad
    <2> QED
        BY <2>1, <2>2
<1>6. ASSUME NEW i \in Limits \union {Fallback}, Expire(i)
      PROVE  Sums'
    BY <1>0, <1>1, <1>6, WorkEasy DEF Expire
<1>7. ASSUME NEW i \in Limits, Fill(i)
      PROVE  Sums'
    <2>1. i \in book /\ book' = book \ {i} /\ coming' = coming /\ position' = position + 1
        BY <1>7 DEF Fill
    <2>2. position' # 0
        BY <1>0, <2>1
    <2> QED
        BY <1>4, <2>1, <2>2, MovedLoad
<1>8. ASSUME NEW i \in Limits, Removed(i)
      PROVE  Sums'
    BY <1>0, <1>1, <1>8, WorkEasy DEF Removed
<1>9. CASE PositionSync
    BY <1>0, <1>1, <1>9, WorkEasy DEF PositionSync, chainVars
<1>10. CASE ClosePosition
    <2>1. book' = book /\ coming' = coming /\ position' <= position
        BY <1>0, <1>10 DEF ClosePosition
    <2> QED
        BY <1>0, <1>1, <2>1, WorkEasy
<1> QED
    BY <1>5, <1>6, <1>7, <1>8, <1>9, <1>10

-----------------------------------------------------------------------------
\* One order is tracked and one call of _openMaker under way, at most.
LEMMA ActorsKept ==
    ASSUME Actors, tracked' \subseteq tracked, tracked \subseteq Orders, OpenersStay,
           \A p \in Orders : replacer'[p] = "appearing" =>
               uoid'[p] = Replace \/ (replacer[p] = "appearing" /\ uoid'[p] = uoid[p])
    PROVE  Actors'
<1>1. OneTracked'
    BY DEF Actors, OneTracked
<1>2. OneOpener'
    BY DEF Actors, OneOpener, OpenersStay
<1>3. NewIdIsKnown'
    BY DEF Actors, NewIdIsKnown
<1> QED
    BY <1>1, <1>2, <1>3 DEF Actors

LEMMA OpenMoves ==
    ASSUME NEW o \in Orders, OpenStep(o), ~Open(o), ~OpenSend(o)
    PROVE  /\ tracked' \subseteq tracked
           /\ \E from \in OpenerSteps \ {"idle"}, to \in OpenerSteps \ {"pricing", "deduped"} : OpenGoes(o, from, to)
<1> USE DEF OpenerSteps
<1>1. CASE OpenDeduped(o) \/ OpenRejected(o) \/ OpenGivesUp(o) \/ OpenForgets(o)
    BY <1>1 DEF OpenDeduped, OpenRejected, OpenGivesUp, OpenForgets, Forget
<1>2. CASE OpenAnswered(o) \/ OpenTimesOut(o) \/ OpenAppears(o)
    BY <1>2 DEF OpenAnswered, OpenTimesOut, OpenAppears
<1>3. CASE OpenNotFound(o) \/ OpenNotAdopted(o) \/ OpenFindsOrder(o)
    BY <1>3 DEF OpenNotFound, OpenNotAdopted, OpenFindsOrder
<1>4. CASE OpenFindsPosition(o)
    BY <1>4 DEF OpenFindsPosition, Report, Forget
<1> QED
    BY <1>1, <1>2, <1>3, <1>4 DEF OpenStep

LEMMA OpenActors ==
    ASSUME TypeOK, LockInv, Actors, NEW o \in Orders, OpenStep(o)
    PROVE  Actors'
<1>1. CASE Open(o)
    <2>1. UNCHANGED <<tracked, uoid, replacer>> /\ tracked = {} /\ \A p \in Orders : opener[p] = "idle"
        BY <1>1 DEF Open, NoWorkingOrder, orderVars
    <2>2. \A p \in Orders : opener'[p] # "idle" => p = o
        BY <1>1, <2>1 DEF Open, TypeOK, WorkTypes
    <2> QED
        BY <2>1, <2>2 DEF Actors, OneTracked, OneOpener, NewIdIsKnown
<1>2. CASE OpenSend(o)
    <2>1. tracked' = {o} /\ replacer'[o] = "idle"
        BY <1>2 DEF OpenSend, Actors, OneOpener, LockInv, NewIsUnknown
    <2>2. \A p \in Orders : opener'[p] # "idle" => p = o
        BY <1>2 DEF OpenSend, Actors, OneOpener, TypeOK, WorkTypes
    <2>3. opener'[o] # "pricing"
        BY <1>2 DEF OpenSend, TypeOK, WorkTypes
    <2> QED
        BY <2>1, <2>2, <2>3 DEF Actors, OneTracked, OneOpener, NewIdIsKnown
<1>3. CASE ~Open(o) /\ ~OpenSend(o)
    <2>1. tracked' \subseteq tracked /\ OpenersStay /\ UNCHANGED <<uoid, replacer>>
        BY <1>3, OpenMoves, OpenerGoes DEF OpenGoes
    <2> QED
        BY <2>1, ActorsKept DEF TypeOK, OrderTypes
<1> QED
    BY <1>1, <1>2, <1>3

LEMMA ReplaceActors ==
    ASSUME TypeOK, Actors, NEW o \in Orders, ReplaceStep(o)
    PROVE  Actors'
<1>1. tracked' \subseteq tracked
    BY DEF ReplaceStep, ReplaceCancelled, ReplaceNotCancelled, ReplaceSends, ReplaceAnswered, ReplaceDiscards,
           ReplaceFails, ReplaceLacksCollateral, ReplaceAppears, ReplaceAborts, ReplaceGivenUp, Forget
<1>2. CASE ReplaceAnswered(o)
    <2>1. \A p \in Orders : uoid'[p] = IF p = o THEN Replace ELSE uoid[p]
        BY <1>2 DEF ReplaceAnswered, TypeOK, OrderTypes
    <2>2. UNCHANGED opener /\ \A p \in Orders : p # o => replacer'[p] = replacer[p]
        BY <1>2 DEF ReplaceAnswered, ReplaceGoes, TypeOK, WorkTypes
    <2> QED
        BY <1>1, <2>1, <2>2, OpenersAlone, ActorsKept DEF TypeOK, OrderTypes
<1>3. CASE ReplaceGivenUp(o)
    <2>1. \A p \in Orders : p # o => uoid'[p] = uoid[p]
        BY <1>3 DEF ReplaceGivenUp, TypeOK, OrderTypes
    <2>2. UNCHANGED opener /\ \A p \in Orders : replacer'[p] = IF p = o THEN "idle" ELSE replacer[p]
        BY <1>3 DEF ReplaceGivenUp, ReplaceGoes, TypeOK, WorkTypes
    <2> QED
        BY <1>1, <2>1, <2>2, OpenersAlone, ActorsKept DEF TypeOK, OrderTypes
<1>4. CASE ~ReplaceAnswered(o) /\ ~ReplaceGivenUp(o)
    <2>1. UNCHANGED uoid
        BY <1>4 DEF ReplaceStep, ReplaceCancelled, ReplaceNotCancelled, ReplaceSends, ReplaceDiscards, ReplaceFails,
                    ReplaceLacksCollateral, ReplaceAppears, ReplaceAborts
    <2>2. \E from, to \in ReplacerSteps : ReplaceGoes(o, from, to) /\ to # "appearing"
        BY <1>4 DEF ReplaceStep, ReplaceCancelled, ReplaceNotCancelled, ReplaceSends, ReplaceDiscards, ReplaceFails,
                    ReplaceLacksCollateral, ReplaceAppears, ReplaceAborts, ReplacerSteps
    <2>3. UNCHANGED opener /\ \A p \in Orders : replacer'[p] = "appearing" => replacer[p] = "appearing"
        BY <2>2 DEF ReplaceGoes, TypeOK, WorkTypes
    <2> QED
        BY <1>1, <2>1, <2>3, OpenersAlone, ActorsKept DEF TypeOK, OrderTypes
<1> QED
    BY <1>2, <1>3, <1>4

LEMMA ActorsStep == TypeOK /\ LockInv /\ Actors /\ [Next]_vars => Actors'
<1> SUFFICES ASSUME TypeOK, LockInv, Actors, [Next]_vars PROVE Actors'
    OBVIOUS
<1>1. ASSUME UNCHANGED <<opener, uoid>>, tracked' \subseteq tracked,
             \A p \in Orders : replacer'[p] = "appearing" => replacer[p] = "appearing"
      PROVE  Actors'
    BY <1>1, OpenersAlone, ActorsKept DEF TypeOK, OrderTypes
<1>2. CASE UNCHANGED vars
    BY <1>1, <1>2 DEF vars, orderVars, workVars
<1>3. ASSUME NEW o \in Orders, OpenStep(o) PROVE Actors'
    BY <1>3, OpenActors
<1>4. ASSUME NEW o \in Orders, FallbackStep(o) PROVE Actors'
    <2>1. UNCHANGED <<opener, uoid, replacer>>
        BY <1>4 DEF FallbackStep, FallbackFindsPosition, FallbackChecked, FallbackCancelled, FallbackCancelFails,
               FallbackAnswered, FallbackFails, FallbackConfirmed, FallbackReports, FallbackUnconfirmed,
               FallbackDefers, FallbackFindsNothing, FallbackGoes
    <2>2. tracked' \subseteq tracked
        BY <1>4 DEF FallbackStep, FallbackFindsPosition, FallbackChecked, FallbackCancelled, FallbackCancelFails,
               FallbackAnswered, FallbackFails, FallbackConfirmed, FallbackReports, FallbackUnconfirmed,
               FallbackDefers, FallbackFindsNothing, Report, Forget
    <2> QED
        BY <1>1, <2>1, <2>2
<1>5. ASSUME NEW o \in Orders, ReplaceStep(o) PROVE Actors'
    BY <1>5, ReplaceActors
<1>6. ASSUME NEW o \in Orders, MonitorStep(o) PROVE Actors'
    <2>1. UNCHANGED <<opener, uoid>> /\ tracked' \subseteq tracked
        BY <1>6 DEF MonitorStep, MonitorForceRemoves, MonitorFallsBack, MonitorCancels, MonitorReplaces,
               MonitorMissesOrder, MonitorFindsPosition, MonitorGivesUp, Report, Forget, orderVars, workVars
    <2>2. UNCHANGED replacer \/ replacer' = [replacer EXCEPT ![o] = "cancelling"]
        BY <1>6 DEF MonitorStep, MonitorForceRemoves, MonitorFallsBack, MonitorCancels, MonitorReplaces, StartReplace,
               MonitorMissesOrder, MonitorFindsPosition, MonitorGivesUp, workVars
    <2>3. \A p \in Orders : replacer'[p] = "appearing" => replacer[p] = "appearing"
        BY <2>2 DEF TypeOK, WorkTypes
    <2> QED
        BY <1>1, <2>1, <2>3
<1>7. ASSUME NEW o \in Orders, CancelAnswered(o) PROVE Actors'
    BY <1>1, <1>7 DEF CancelAnswered, Forget
<1>8. CASE OpenRefused \/ MonitorWaits
    BY <1>1, <1>8 DEF OpenRefused, MonitorWaits, orderVars, workVars
<1>9. CASE \/ \E i \in Limits \union {Fallback} : Land(i) \/ Expire(i)
           \/ \E i \in Limits : Fill(i) \/ Removed(i)
           \/ PositionSync \/ ClosePosition
    <2>1. UNCHANGED <<tracked, opener, replacer, uoid>>
        BY <1>9 DEF Land, Expire, Fill, Removed, PositionSync, ClosePosition, ChainStep, orderVars, workVars
    <2> QED
        BY <1>1, <2>1
<1> QED
    BY <1>2, <1>3, <1>4, <1>5, <1>6, <1>7, <1>8, <1>9 DEF Next

LEMMA SumsStep == TypeOK /\ TypeOK' /\ LockInv /\ Actors /\ Sums /\ [Next]_vars => Sums'
<1> SUFFICES ASSUME TypeOK, TypeOK', LockInv, Actors, Sums, [Next]_vars PROVE Sums'
    OBVIOUS
<1>0. position <= position /\ slips <= slips
    BY OutFinite
<1>1. CASE UNCHANGED vars
    BY <1>0, <1>1, WorkEasy DEF vars, orderVars, workVars, chainVars
<1>2. ASSUME NEW o \in Orders, OpenStep(o) \/ FallbackStep(o) \/ ReplaceStep(o) \/ MonitorStep(o) \/ CancelAnswered(o)
      PROVE  Sums'
    BY <1>2, OpenSums, FallbackSums, ReplaceSums, MonitorSums, CancelSums DEF LockInv
<1>3. CASE OpenRefused
    BY <1>0, <1>3, WorkEasy DEF OpenRefused, orderVars, workVars, chainVars
<1>4. CASE MonitorWaits
    BY <1>0, <1>4, WorkEasy DEF MonitorWaits, orderVars, chainVars
<1> QED
    BY <1>1, <1>2, <1>3, <1>4, ChainSums DEF Next

LEMMA SumsInit == Init => Sums /\ Actors
<1> SUFFICES ASSUME Init PROVE Sums /\ Actors
    OBVIOUS
<1>1. Load = 0 /\ slips = 0 /\ tracked = {}
    BY NoLoad DEF Init, Out
<1>2. Sums
    BY <1>1 DEF Sums, UntrackedLoad, TrackedLoad
<1> QED
    BY <1>2 DEF Init, Actors, OneTracked, OneOpener, NewIdIsKnown

\* "Enforce one working maker order per market" (2321): of the orders sent for
\* one open those that fill and those that still may are one, and one more for
\* each slip, for any number of order objects, operations and slips.
THEOREM DoublingNeedsSlips == Spec => []DoubledOnlyBySlips
<1>1. TypeOK /\ LockInv /\ [Next]_vars => LockInv'
    BY LockStep
<1>2. Sums => DoubledOnlyBySlips
    BY DEF Sums, Load, DoubledOnlyBySlips
<1> QED
    BY SumsInit, SumsStep, ActorsStep, TypeInit, TypeStep, LockInit, <1>1, <1>2, PTL DEF Spec

-----------------------------------------------------------------------------
(***************************************************************************)
(* Why a fill is reported: while no slip has come between, somebody still  *)
(* has the order, or the fallback that dropped it is about to report.      *)
(***************************************************************************)
Cared == tracked # {} \/ \E o \in Orders : faller[o] = "pricing"

Known == slips = 0 /\ position > 0 => cached \/ Cared

\* An order that is out counts for one.
LEMMA OutCounts == ASSUME TypeOK, NEW i \in Out PROVE position + 1 <= Load
<1> DEFINE a == Cardinality(book)
           b == Cardinality(coming)
<1>1. a \in Nat /\ b \in Nat /\ position \in Nat /\ Load = position + a + b
    BY OutFinite DEF Load
<1>2. a # 0 \/ b # 0
    BY OutFinite, FS_EmptySet DEF Out
<1> HIDE DEF a, b
<1> QED
    BY <1>1, <1>2

\* Without a slip a position is all there is.
LEMMA NothingElseOut ==
    ASSUME TypeOK, Sums, slips = 0, position > 0
    PROVE  Out = {} /\ \A o \in tracked : opener[o] # "deduped"
<1> DEFINE l == Load
<1>1. l \in Nat /\ position \in Nat /\ l <= 1
    BY OutFinite DEF Sums
<1>2. Out = {}
    <2> SUFFICES ASSUME NEW i \in Out PROVE FALSE
        OBVIOUS
    <2>1. position + 1 <= l
        BY OutCounts
    <2> HIDE DEF l
    <2> QED
        BY <1>1, <2>1
<1>3. ASSUME NEW o \in tracked, opener[o] = "deduped"
      PROVE  FALSE
    <2>1. l + 1 <= 1
        BY <1>3 DEF Sums, TrackedLoad, Borrowed
    <2>2. position <= l
        <3> DEFINE a == Cardinality(book)
                   b == Cardinality(coming)
        <3>1. a \in Nat /\ b \in Nat /\ l = position + a + b
            BY OutFinite DEF Load
        <3> HIDE DEF a, b, l
        <3> QED
            BY <1>1, <3>1
    <2> HIDE DEF l
    <2> QED
        BY <1>1, <2>1, <2>2
<1> QED
    BY <1>2, <1>3

\* Before it fills, an order that is out is cared for.
LEMMA OutIsTracked ==
    ASSUME TypeOK, Sums, slips = 0, position = 0, NEW i \in Out
    PROVE  tracked # {}
<1> SUFFICES ASSUME tracked = {} PROVE FALSE
    OBVIOUS
<1> DEFINE l == Load
<1>1. l \in Nat /\ l <= 0 /\ 0 + 1 <= l
    BY OutFinite, OutCounts DEF Sums, UntrackedLoad
<1> HIDE DEF l
<1> QED
    BY <1>1

LEMMA KnownKept ==
    ASSUME Known, slips' = 0 => slips = 0, cached => cached', position' > 0 => position > 0,
           Cared => Cared' \/ cached' \/ slips' # 0 \/ ~(position' > 0)
    PROVE  Known'
BY DEF Known

LEMMA Unslipped == ASSUME TypeOK, NEW h, Slips(h) PROVE (slips' = 0 => slips = 0) /\ (h => slips' # 0)
<1>1. \A i \in Nat : i + 1 # 0
    OBVIOUS
<1>2. slips \in Nat
    BY OutFinite
<1>3. slips' = slips + 1 \/ slips' = slips
    BY <1>2 DEF Slips
<1> QED
    BY <1>1, <1>2, <1>3, SlipsUp

\* Steps that leave fallbacks, the chain and who tracks what alone.
LEMMA StillKnown ==
    ASSUME Known, slips' = 0 => slips = 0, cached => cached', position' = position,
           tracked' = tracked, \A o \in Orders : faller[o] = "pricing" => faller'[o] = "pricing"
    PROVE  Known'
BY KnownKept DEF Cared

LEMMA OpenKnown ==
    ASSUME TypeOK, TypeOK', LockInv, Sums, Known, NEW o \in Orders, OpenStep(o)
    PROVE  Known'
<1> USE DEF OpenGoes
<1>1. CASE Open(o)
    <2>1. ~(position' > 0)
        BY <1>1 DEF Open, chainVars
    <2> QED
        BY <2>1 DEF Known
<1>2. CASE OpenSend(o)
    <2>1. tracked' # {}
        BY <1>2 DEF OpenSend
    <2> QED
        BY <2>1 DEF Known, Cared
<1>3. CASE OpenDeduped(o)
    <2>1. slips' = slips /\ cached' = cached /\ position' = position /\ faller' = faller /\ tracked' = tracked \ {o} /\ opener[o] = "deduped"
        BY <1>3 DEF OpenDeduped, Forget
    <2>2. slips = 0 /\ position > 0 => tracked' = tracked
        BY <2>1, NothingElseOut
    <2> QED
        BY <2>1, <2>2 DEF Known, Cared
<1>4. CASE OpenRejected(o)
    <2>1. position' = position
        BY <1>4 DEF OpenRejected, OpenGoes
    <2>2. CASE slips' = slips /\ Entry \in Out
        <3>1. ~(slips = 0 /\ position > 0)
            BY <2>2, NothingElseOut
        <3> QED
            BY <2>1, <2>2, <3>1 DEF Known
    <2>3. CASE Slips(Out # {} \/ position > 0)
        <3>1. position > 0 => slips' # 0
            BY <2>3, Unslipped
        <3> QED
            BY <2>1, <3>1 DEF Known
    <2> QED
        BY <1>4, <2>2, <2>3 DEF OpenRejected, Out
<1>5. CASE OpenGivesUp(o) \/ OpenForgets(o)
    <2>1. position' = position /\ Slips(Out # {} \/ position > 0)
        BY <1>5 DEF OpenGivesUp, OpenForgets
    <2>2. position > 0 => slips' # 0
        BY <2>1, Unslipped
    <2> QED
        BY <2>1, <2>2 DEF Known
<1>6. CASE OpenFindsPosition(o)
    BY <1>6 DEF OpenFindsPosition, Report, Known
<1>7. CASE \/ OpenAnswered(o) \/ OpenTimesOut(o) \/ OpenAppears(o)
           \/ OpenNotFound(o) \/ OpenNotAdopted(o) \/ OpenFindsOrder(o)
    <2>1. UNCHANGED <<slips, cached, position, tracked, faller>>
        BY <1>7 DEF OpenAnswered, OpenTimesOut, OpenAppears, OpenNotFound, OpenNotAdopted, OpenFindsOrder
    <2> QED
        BY <2>1, StillKnown
<1> QED
    BY <1>1, <1>2, <1>3, <1>4, <1>5, <1>6, <1>7 DEF OpenStep

LEMMA FallbackKnown ==
    ASSUME TypeOK, Known, NEW o \in Orders, FallbackStep(o)
    PROVE  Known'
<1>1. CASE FallbackFindsPosition(o) \/ FallbackReports(o)
    BY <1>1 DEF FallbackFindsPosition, FallbackReports, Report, Known
<1>2. CASE FallbackConfirmed(o)
    <2>1. faller'[o] = "pricing"
        BY <1>2 DEF FallbackConfirmed, FallbackGoes, TypeOK, WorkTypes
    <2> QED
        BY <2>1 DEF Known, Cared
<1>3. CASE FallbackFindsNothing(o)
    <2>1. ~(position' > 0)
        BY <1>3 DEF FallbackFindsNothing, chainVars
    <2> QED
        BY <2>1 DEF Known
<1>4. CASE \/ FallbackChecked(o) \/ FallbackCancelled(o) \/ FallbackCancelFails(o) \/ FallbackAnswered(o)
           \/ FallbackFails(o) \/ FallbackUnconfirmed(o) \/ FallbackDefers(o)
    <2>1. UNCHANGED <<tracked, cached, position>>
        BY <1>4 DEF FallbackChecked, FallbackCancelled, FallbackCancelFails, FallbackAnswered, FallbackFails,
                    FallbackUnconfirmed, FallbackDefers, chainVars
    <2>2. slips' = 0 => slips = 0
        <3>1. slips' = slips \/ Slips(TRUE) \/ Slips(CancelMisleads(o) \/ Dropped(o)) \/ Slips(Dropped(o))
            BY <1>4 DEF FallbackChecked, FallbackCancelled, FallbackCancelFails, FallbackAnswered, FallbackFails,
                    FallbackUnconfirmed, FallbackDefers
        <3> QED
            BY <3>1, Unslipped
    <2>3. faller[o] # "pricing" /\ \A p \in Orders : p # o => faller'[p] = faller[p]
        BY <1>4 DEF FallbackChecked, FallbackCancelled, FallbackCancelFails, FallbackAnswered, FallbackFails,
                    FallbackUnconfirmed, FallbackDefers, FallbackGoes, TypeOK, WorkTypes
    <2> QED
        BY <2>1, <2>2, <2>3, StillKnown
<1> QED
    BY <1>1, <1>2, <1>3, <1>4 DEF FallbackStep

LEMMA ReplaceKnown ==
    ASSUME TypeOK, Sums, Known, NEW o \in Orders, ReplaceStep(o)
    PROVE  Known'
<1>1. UNCHANGED <<position, cached, faller>>
    BY DEF ReplaceStep, ReplaceCancelled, ReplaceNotCancelled, ReplaceSends, ReplaceAnswered, ReplaceDiscards,
           ReplaceFails, ReplaceLacksCollateral, ReplaceAppears, ReplaceAborts, ReplaceGivenUp, ReplaceGoes
<1>2. CASE ReplaceLacksCollateral(o)
    <2>1. slips' = slips /\ Replace \in Out
        BY <1>2 DEF ReplaceLacksCollateral, Out
    <2>2. ~(slips = 0 /\ position > 0)
        BY <2>1, NothingElseOut
    <2> QED
        BY <1>1, <2>1, <2>2 DEF Known
<1>3. CASE ~ReplaceLacksCollateral(o)
    <2>1. tracked' = tracked
        BY <1>3 DEF ReplaceStep, ReplaceCancelled, ReplaceNotCancelled, ReplaceSends, ReplaceAnswered, ReplaceDiscards,
                    ReplaceFails, ReplaceAppears, ReplaceAborts, ReplaceGivenUp
    <2>2. \E h \in BOOLEAN : slips' = slips \/ Slips(h)
        <3>1. CASE ReplaceCancelled(o)
            <4>1. CancelMisleads(o) \in BOOLEAN
                BY DEF CancelMisleads, NotFoundThough
            <4> QED
                BY <3>1, <4>1 DEF ReplaceCancelled
        <3>2. CASE ReplaceSends(o)
            <4>1. Dropped(o) \in BOOLEAN
                BY DEF Dropped
            <4> QED
                BY <3>2, <4>1 DEF ReplaceSends
        <3>3. CASE ReplaceFails(o)
            BY <3>3 DEF ReplaceFails
        <3>4. CASE ReplaceGivenUp(o)
            <4>1. (Replace \in book' \union coming \/ position > 0) \in BOOLEAN
                OBVIOUS
            <4> QED
                BY <3>4, <4>1 DEF ReplaceGivenUp
        <3>5. CASE slips' = slips
            BY <3>5
        <3> QED
            BY <1>3, <3>1, <3>2, <3>3, <3>4, <3>5
               DEF ReplaceStep, ReplaceNotCancelled, ReplaceAnswered, ReplaceDiscards, ReplaceAppears, ReplaceAborts
    <2> QED
        BY <1>1, <2>1, <2>2, Unslipped, StillKnown
<1> QED
    BY <1>2, <1>3

LEMMA MonitorKnown ==
    ASSUME TypeOK, LockInv, Known, NEW o \in Orders, MonitorStep(o)
    PROVE  Known'
<1>1. CASE MonitorForceRemoves(o)
    <2>1. slips' # 0
        BY <1>1, Unslipped DEF MonitorForceRemoves
    <2> QED
        BY <2>1 DEF Known
<1>2. ASSUME StartFallback(o), NEW p \in Orders, faller[p] = "pricing"
      PROVE  faller'[p] = "pricing"
    BY <1>2 DEF StartFallback, LockInv, LockIsHeld, TypeOK, OrderTypes, WorkTypes
<1>3. CASE MonitorFallsBack(o) \/ MonitorCancels(o) \/ MonitorReplaces(o) \/ MonitorMissesOrder(o)
    <2>1. UNCHANGED <<tracked, position, cached>>
        BY <1>3 DEF MonitorFallsBack, MonitorCancels, MonitorReplaces, MonitorMissesOrder, orderVars, chainVars
    <2>2. UNCHANGED faller \/ StartFallback(o)
        BY <1>3 DEF MonitorFallsBack, MonitorCancels, MonitorReplaces, MonitorMissesOrder
    <2>3. slips' = 0 => slips = 0
        <3>1. slips' = slips \/ Slips(uoid[o] \in book)
            BY <1>3 DEF MonitorFallsBack, MonitorCancels, MonitorReplaces, MonitorMissesOrder
        <3> QED
            BY <3>1, Unslipped
    <2> QED
        BY <1>2, <2>1, <2>2, <2>3, StillKnown
<1>4. CASE MonitorFindsPosition(o)
    BY <1>4 DEF MonitorFindsPosition, Report, Known
<1>5. CASE MonitorGivesUp(o)
    <2>1. UNCHANGED <<position, cached>>
        BY <1>5 DEF MonitorGivesUp, chainVars
    <2>2. Slips(position > 0) \/ Slips(position > 0 \/ Out # {})
        BY <1>5 DEF MonitorGivesUp
    <2>3. position > 0 => slips' # 0
        BY <2>2, Unslipped
    <2> QED
        BY <2>1, <2>3 DEF Known
<1> QED
    BY <1>1, <1>3, <1>4, <1>5 DEF MonitorStep

\* A cancel that is answered after the fill is one of the slips.
LEMMA CancelKnown ==
    ASSUME TypeOK, Sums, Known, NEW o \in Orders, CancelAnswered(o)
    PROVE  Known'
<1> DEFINE h == book' \union coming # {} \/ NotFoundThough(o)
<1>1. position' = position /\ Slips(h)
    BY DEF CancelAnswered
<1>2. (slips' = 0 => slips = 0) /\ (h => slips' # 0)
    <2> HIDE DEF h
    <2> QED
        BY <1>1, Unslipped
<1>3. slips = 0 /\ position > 0 => h
    BY NothingElseOut DEF NotFoundThough, Out
<1> QED
    BY <1>1, <1>2, <1>3 DEF Known

\* What fills was tracked, or another order had filled before.
LEMMA FilledIsKnown ==
    ASSUME TypeOK, Sums, Known, NEW i \in Out, UNCHANGED <<tracked, faller, cached, slips>>
    PROVE  Known'
<1>1. position = 0 \/ position > 0
    BY OutFinite
<1>2. slips = 0 => cached \/ Cared
    BY <1>1, OutIsTracked DEF Known, Cared
<1> QED
    BY <1>2 DEF Known, Cared

LEMMA ChainKnown ==
    ASSUME TypeOK, Sums, Known,
           \/ \E i \in Limits \union {Fallback} : Land(i) \/ Expire(i)
           \/ \E i \in Limits : Fill(i) \/ Removed(i)
           \/ PositionSync \/ ClosePosition
    PROVE  Known'
<1> USE DEF ChainStep, orderVars, workVars, chainVars
<1>1. ASSUME NEW i \in Limits \union {Fallback}, Land(i)
      PROVE  Known'
    <2>1. i \in Out /\ UNCHANGED <<tracked, faller, cached, slips>>
        BY <1>1 DEF Land, Out
    <2> QED
        BY <2>1, FilledIsKnown
<1>2. ASSUME NEW i \in Limits, Fill(i)
      PROVE  Known'
    <2>1. i \in Out /\ UNCHANGED <<tracked, faller, cached, slips>>
        BY <1>2 DEF Fill, Out
    <2> QED
        BY <2>1, FilledIsKnown
<1>3. CASE \/ \E i \in Limits \union {Fallback} : Expire(i)
           \/ \E i \in Limits : Removed(i)
           \/ PositionSync
    <2>1. UNCHANGED <<tracked, faller, position, slips>>
        BY <1>3 DEF Expire, Removed, PositionSync
    <2>2. cached => cached'
        BY <1>3 DEF Expire, Removed, PositionSync
    <2> QED
        BY <2>1, <2>2, StillKnown
<1>4. CASE ClosePosition
    <2>1. ~(position' > 0)
        BY <1>4 DEF ClosePosition
    <2> QED
        BY <2>1 DEF Known
<1> QED
    BY <1>1, <1>2, <1>3, <1>4

LEMMA KnownStep == TypeOK /\ TypeOK' /\ LockInv /\ Sums /\ Known /\ [Next]_vars => Known'
<1> SUFFICES ASSUME TypeOK, TypeOK', LockInv, Sums, Known, [Next]_vars PROVE Known'
    OBVIOUS
<1>1. CASE UNCHANGED vars
    BY <1>1, StillKnown DEF vars, orderVars, workVars, chainVars
<1>2. ASSUME NEW o \in Orders, OpenStep(o) \/ FallbackStep(o) \/ ReplaceStep(o) \/ MonitorStep(o) \/ CancelAnswered(o)
      PROVE  Known'
    BY <1>2, OpenKnown, FallbackKnown, ReplaceKnown, MonitorKnown, CancelKnown
<1>3. CASE OpenRefused
    BY <1>3 DEF OpenRefused, Known
<1>4. CASE MonitorWaits
    BY <1>4, StillKnown DEF MonitorWaits, orderVars, chainVars
<1> QED
    BY <1>1, <1>2, <1>3, <1>4, ChainKnown DEF Next

\* An open whose order filled is reported before nobody works on it any more
\* (1049, 4333, 4960), unless one of the slips came between: an order is
\* dropped without a report only by a step that knows it has not filled, or
\* that is itself a slip.
THEOREM FillsAreReported == Spec => []FillIsReported
<1>1. TypeOK /\ LockInv /\ [Next]_vars => LockInv'
    BY LockStep
<1>2. TypeOK /\ Known => FillIsReported
    BY DEF FillIsReported, Known, Cared, Idle
<1>3. Init => Known
    BY DEF Init, Known
<1> QED
    BY SumsInit, SumsStep, ActorsStep, KnownStep, TypeInit, TypeStep, LockInit,
       <1>1, <1>2, <1>3, PTL DEF Spec

LEMMA EachOutCounts == TypeOK => \A i \in Out : position + 1 <= Load
BY OutCounts

\* An order that is sent is out: with the position that came first, two.
LEMMA SentBesideFill ==
    ASSUME NEW l \in Nat, NEW n \in Nat, NEW s \in Nat, n > 0, n + 1 <= l, l <= 1 + s
    PROVE  s > 0
OBVIOUS

\* Of what the check before a replacement is said to prevent (4645), this much
\* is so: an order is replaced after it has filled, or after another one of
\* the same open has, only when a slip has come between.
THEOREM FilledIsReplacedAfterSlips ==
    Spec => [][\A o \in Orders :
                 replacer[o] = "confirming" /\ replacer'[o] = "placing" /\ position > 0
                   => slips' > 0]_vars
<1>1. ASSUME TypeOK, TypeOK', Sums', [Next]_vars, NEW o \in Orders,
             replacer[o] = "confirming", replacer'[o] = "placing", position > 0
      PROVE  slips' > 0
    <2>1. ReplaceSends(o)
        <3>1. PICK p \in Orders : ReplaceStep(p) \/ MonitorReplaces(p)
            <4>1. CASE \E p \in Orders : OpenStep(p)
                BY <1>1, <4>1
                   DEF OpenStep, Open, OpenSend, OpenDeduped, OpenAnswered, OpenRejected, OpenTimesOut,
                       OpenAppears, OpenNotFound, OpenFindsPosition, OpenGivesUp, OpenNotAdopted,
                       OpenFindsOrder, OpenForgets, OpenGoes
            <4>2. CASE \E p \in Orders : FallbackStep(p)
                BY <1>1, <4>2
                   DEF FallbackStep, FallbackFindsPosition, FallbackChecked, FallbackCancelled,
                       FallbackCancelFails, FallbackAnswered, FallbackFails, FallbackConfirmed,
                       FallbackReports, FallbackUnconfirmed, FallbackDefers, FallbackFindsNothing,
                       FallbackGoes
            <4>3. CASE \E p \in Orders : MonitorStep(p) /\ ~MonitorReplaces(p)
                BY <1>1, <4>3
                   DEF MonitorStep, MonitorForceRemoves, MonitorFallsBack, MonitorCancels,
                       MonitorMissesOrder, MonitorFindsPosition, MonitorGivesUp, workVars
            <4>4. CASE \/ \E p \in Orders : CancelAnswered(p)
                       \/ OpenRefused \/ MonitorWaits
                       \/ \E i \in Limits \union {Fallback} : Land(i) \/ Expire(i)
                       \/ \E i \in Limits : Fill(i) \/ Removed(i)
                       \/ PositionSync \/ ClosePosition \/ UNCHANGED vars
                BY <1>1, <4>4
                   DEF CancelAnswered, OpenRefused, MonitorWaits, Land, Expire, Fill, Removed,
                       PositionSync, ClosePosition, ChainStep, workVars, vars
            <4> QED
                BY <1>1, <4>1, <4>2, <4>3, <4>4 DEF Next
        <3>2. CASE MonitorReplaces(p)
            <4>1. UNCHANGED replacer \/ replacer' = [replacer EXCEPT ![p] = "cancelling"]
                BY <3>2 DEF MonitorReplaces, StartReplace
            <4> QED
                BY <1>1, <4>1 DEF TypeOK, WorkTypes
        <3>3. CASE ReplaceStep(p)
            <4>1. p = o
                BY <1>1, <3>3
                   DEF ReplaceStep, ReplaceCancelled, ReplaceNotCancelled, ReplaceSends, ReplaceAnswered,
                       ReplaceDiscards, ReplaceFails, ReplaceLacksCollateral, ReplaceAppears,
                       ReplaceAborts, ReplaceGivenUp, ReplaceGoes, TypeOK, WorkTypes
            <4> QED
                BY <1>1, <3>3, <4>1
                   DEF ReplaceStep, ReplaceCancelled, ReplaceNotCancelled, ReplaceAnswered,
                       ReplaceDiscards, ReplaceFails, ReplaceLacksCollateral, ReplaceAppears,
                       ReplaceAborts, ReplaceGivenUp, ReplaceGoes, TypeOK, WorkTypes
        <3> QED
            BY <3>1, <3>2, <3>3
    <2>2. position' = position /\ Replace \in Out'
        BY <1>1, <2>1 DEF ReplaceSends, ReplaceGoes, Out, TypeOK, WorkTypes
    <2>3. position' + 1 <= Load'
        <3>1. (TypeOK => \A i \in Out : position + 1 <= Load)'
            BY EachOutCounts, PTL
        <3> QED
            BY <1>1, <2>2, <3>1
    <2>4. Load' \in Nat /\ position' \in Nat /\ slips' \in Nat
        <3>1. (TypeOK => Load \in Nat /\ position \in Nat /\ slips \in Nat)'
            BY OutFinite, PTL
        <3> QED
            BY <1>1, <3>1
    <2>5. Load' <= 1 + slips'
        BY <1>1 DEF Sums
    <2> DEFINE l == Load'
               n == position'
               s == slips'
    <2>6. n > 0
        BY <1>1, <2>2
    <2> HIDE DEF l, n, s
    <2>7. s > 0
        BY <2>3, <2>4, <2>5, <2>6, SentBesideFill DEF l, n, s
    <2> QED
        BY <2>7 DEF s
<1>2. TypeOK /\ TypeOK' /\ Sums' /\ [Next]_vars =>
        [\A o \in Orders :
           replacer[o] = "confirming" /\ replacer'[o] = "placing" /\ position > 0
             => slips' > 0]_vars
    BY <1>1
<1>3. TypeOK /\ LockInv /\ [Next]_vars => LockInv'
    BY LockStep
<1> QED
    BY SumsInit, SumsStep, ActorsStep, TypeInit, TypeStep, LockInit, <1>2, <1>3, PTL DEF Spec

-----------------------------------------------------------------------------
(***************************************************************************)
(* The other place that cancels orders on the book, module OrphanSync,     *)
(* over parameters and variables of its own: the theorem is about that     *)
(* module alone, whoever tracks orders and puts them on the book.          *)
(***************************************************************************)
CONSTANTS Ours, MaxOrphanCancels

VARIABLES syncTracked, syncBook, syncPosition, syncCached,
          starting, uncertain, sync, snapshot, stale, attempts

Sync == INSTANCE OrphanSync
        WITH tracked <- syncTracked, book <- syncBook,
             position <- syncPosition, cached <- syncCached

\* An order that the sync is about to cancel has a cancel left.
CancelsAreLeft == sync = "cancelling" => \A i \in snapshot : attempts[i] < MaxOrphanCancels

SyncInv == Sync!TypeOK /\ CancelsAreLeft

LEMMA OneMoreFailure ==
    ASSUME NEW n \in Nat, NEW m \in Nat, m < n
    PROVE  m + 1 \in 0 .. n /\ n \in 0 .. n
OBVIOUS

LEMMA SyncInit == Sync!OrphanSyncAssumption /\ Sync!Init => SyncInv
<1> SUFFICES ASSUME Sync!OrphanSyncAssumption, Sync!Init PROVE SyncInv
    OBVIOUS
<1>1. [i \in Ours |-> 0] \in [Ours -> 0 .. MaxOrphanCancels]
    BY DEF Sync!OrphanSyncAssumption
<1>2. [i \in Ours |-> "no"] \in [Ours -> {"no", "seen", "due"}]
    OBVIOUS
<1> QED
    BY <1>1, <1>2 DEF Sync!Init, Sync!TypeOK, SyncInv, CancelsAreLeft

\* Judge leaves only orders with a cancel left, and a cancel is the last of
\* its order in the round.
LEMMA SyncStepKeeps ==
    ASSUME Sync!OrphanSyncAssumption, SyncInv, [Sync!Next]_(Sync!vars)
    PROVE  SyncInv'
<1> USE DEF SyncInv
<1>1. CASE Sync!Read \/ Sync!ReadEmpty \/ Sync!ReadFails
    BY <1>1 DEF Sync!Read, Sync!ReadEmpty, Sync!ReadFails, Sync!ReadGets, Sync!TypeOK, CancelsAreLeft
<1>2. ASSUME NEW known \in BOOLEAN, Sync!Judge(known) PROVE SyncInv'
    <2>1. stale' \in [Ours -> {"no", "seen", "due"}]
        BY <1>2 DEF Sync!Judge, Sync!TypeOK
    <2>2. snapshot' \subseteq Ours /\ sync' \in {"idle", "orders", "cancelling"}
        BY <1>2 DEF Sync!Judge, Sync!Orphans, Sync!TypeOK
    <2>3. CancelsAreLeft'
        BY <1>2 DEF Sync!Judge, CancelsAreLeft
    <2>4. UNCHANGED <<syncTracked, syncBook, syncPosition, syncCached, starting, uncertain, attempts>>
        BY <1>2 DEF Sync!Judge
    <2> QED
        BY <2>1, <2>2, <2>3, <2>4 DEF Sync!TypeOK
<1>3. ASSUME NEW i \in Ours, Sync!Cancel(i) \/ Sync!CancelSimulated(i) \/ Sync!CancelFails(i)
      PROVE  SyncInv'
    <2>1. attempts' \in [Ours -> 0 .. MaxOrphanCancels]
        <3>1. CASE Sync!Cancel(i) \/ Sync!CancelSimulated(i)
            BY <3>1 DEF Sync!Cancel, Sync!CancelSimulated, Sync!TypeOK, Sync!OrphanSyncAssumption
        <3>2. CASE Sync!CancelFails(i)
            <4>1. attempts[i] < MaxOrphanCancels /\ attempts[i] \in Nat /\ MaxOrphanCancels \in Nat
                BY <3>2 DEF Sync!CancelFails, Sync!CancelEnds, Sync!TypeOK, CancelsAreLeft,
                            Sync!OrphanSyncAssumption
            <4>2. attempts[i] + 1 \in 0 .. MaxOrphanCancels /\ MaxOrphanCancels \in 0 .. MaxOrphanCancels
                BY <4>1, OneMoreFailure
            <4> QED
                BY <3>2, <4>2 DEF Sync!CancelFails, Sync!TypeOK
        <3> QED
            BY <1>3, <3>1, <3>2
    <2>2. Sync!CancelEnds(i) /\ syncBook' \subseteq Ours
        BY <1>3 DEF Sync!Cancel, Sync!CancelSimulated, Sync!CancelFails, Sync!TypeOK
    <2>3. \A j \in Ours \ {i} : attempts'[j] = attempts[j]
        BY <1>3 DEF Sync!Cancel, Sync!CancelSimulated, Sync!CancelFails, Sync!TypeOK
    <2>4. CancelsAreLeft'
        BY <2>2, <2>3 DEF Sync!CancelEnds, Sync!TypeOK, CancelsAreLeft
    <2> QED
        BY <2>1, <2>2, <2>4 DEF Sync!CancelEnds, Sync!TypeOK
<1>4. CASE Sync!Reconcile
    BY <1>4 DEF Sync!Reconcile, Sync!TypeOK, CancelsAreLeft
<1>5. CASE Sync!Restart
    <2>1. [i \in Ours |-> 0] \in [Ours -> 0 .. MaxOrphanCancels]
        BY DEF Sync!OrphanSyncAssumption
    <2>2. [i \in Ours |-> "no"] \in [Ours -> {"no", "seen", "due"}]
        OBVIOUS
    <2> QED
        BY <1>5, <2>1, <2>2 DEF Sync!Restart, Sync!TypeOK, CancelsAreLeft
<1>6. CASE Sync!GraceEnds \/ Sync!WindowEnds \/ Sync!Doubt
    BY <1>6 DEF Sync!GraceEnds, Sync!WindowEnds, Sync!Doubt, Sync!Outside, Sync!TypeOK, CancelsAreLeft
<1>7. ASSUME NEW i \in Ours, Sync!CandidateTimesOut(i) \/ Sync!Track(i) \/ Sync!Untrack(i)
      PROVE  SyncInv'
    BY <1>7 DEF Sync!CandidateTimesOut, Sync!Track, Sync!Untrack, Sync!Outside, Sync!TypeOK, CancelsAreLeft
<1>8. CASE Sync!ChainMoves
    BY <1>8 DEF Sync!ChainMoves, Sync!Outside, Sync!TypeOK, CancelsAreLeft
<1>9. CASE UNCHANGED Sync!vars
    BY <1>9 DEF Sync!vars, Sync!TypeOK, CancelsAreLeft
<1> QED
    BY <1>1, <1>2, <1>3, <1>4, <1>5, <1>6, <1>7, <1>8, <1>9 DEF Sync!Next, Sync!SyncStep

\* For any orders and any limit, _syncWithOnChainOrders (4035-4141) never
\* counts more failed cancels of an order than _maxOrphanCancelAttempts, and
\* never sends a cancel for an order that has used them up.
THEOREM CancelsAreLimited ==
    Sync!OrphanSyncAssumption => (Sync!Spec => [](Sync!TypeOK /\ CancelsAreLeft))
<1> SUFFICES ASSUME Sync!OrphanSyncAssumption
             PROVE  Sync!Spec => [](Sync!TypeOK /\ CancelsAreLeft)
    OBVIOUS
<1>1. Sync!Init => SyncInv
    BY SyncInit
<1>2. SyncInv /\ [Sync!Next]_(Sync!vars) => SyncInv'
    BY SyncStepKeeps
<1>3. SyncInv => Sync!TypeOK /\ CancelsAreLeft
    BY DEF SyncInv
<1> QED
    BY <1>1, <1>2, <1>3, PTL DEF Sync!Spec

=============================================================================
