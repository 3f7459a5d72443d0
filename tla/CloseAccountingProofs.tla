----------------------- MODULE CloseAccountingProofs -----------------------
(***************************************************************************)
(* Proofs that the trade of an open position stays in the books, that its  *)
(* close is written before its row goes, and that it is booked once, for   *)
(* any number of close calls and any number of mishaps; that the tables    *)
(* implement a ledger (module Ledger); and where a position that is still  *)
(* open can be taken for gone, and a verified close be left unbooked.      *)
(***************************************************************************)
EXTENDS CloseAccounting, FiniteSetTheorems, TLAPS

LEMMA TypeInit == Init => TypeOK
<1>1. Init => FlagTypes
  BY DEF Init, FlagTypes
<1>2. Init => StateTypes
  BY DEF Init, StateTypes, CallerSteps, FallbackSteps
<1>3. Init => CounterTypes
  BY CloseAssumption DEF Init, CounterTypes
<1>4. QED
  BY <1>1, <1>2, <1>3 DEF TypeOK

(* What the larger steps do to the variables that the lemmas look at.      *)

LEMMA ReconcileShape ==
  ASSUME FlagTypes, Reconcile
  PROVE  \/ UNCHANGED <<cached, tracked, strayed, doubt>>
         \/ /\ cached' = "other" /\ strayed' = TRUE /\ doubt' = TRUE
            /\ tracked' \in {tracked, FALSE}
<1>1. CASE UNCHANGED <<limit, order, cached, tracked, strayed, doubt>>
  BY <1>1
<1>2. ASSUME NEW applied \in BOOLEAN,
             cached' = IF applied THEN "other" ELSE cached,
             tracked' \in {tracked} \cup (IF applied THEN {FALSE} ELSE {}),
             strayed' = (strayed \/ applied), doubt' = (doubt \/ applied)
      PROVE  \/ UNCHANGED <<cached, tracked, strayed, doubt>>
             \/ /\ cached' = "other" /\ strayed' = TRUE /\ doubt' = TRUE
                /\ tracked' \in {tracked, FALSE}
  BY <1>2 DEF FlagTypes
<1>3. QED
  BY <1>1, <1>2 DEF Reconcile

LEMMA SyncShape ==
  ASSUME FlagTypes, SyncPositions
  PROVE  /\ tracked' \in {tracked, TRUE, FALSE} /\ automated' \in BOOLEAN /\ strayed' \in BOOLEAN
         /\ doubt' = doubt \/ ConcludeGone
         /\ \/ UNCHANGED <<row, trades>>
            \/ ~row /\ Mishap /\ row' = TRUE /\ trades' = trades + 1
<1>1. tracked' \in {tracked, TRUE, FALSE} /\ (doubt' = doubt \/ ConcludeGone)
  BY DEF SyncPositions, AddFromChain
<1>2. automated' \in BOOLEAN /\ strayed' \in BOOLEAN
  BY DEF SyncPositions, AddFromChain, InsertRow, FlagTypes
<1>3. \/ UNCHANGED <<row, trades>>
      \/ ~row /\ Mishap /\ row' = TRUE /\ trades' = trades + 1
  BY DEF SyncPositions, AddFromChain, InsertRow
<1>4. QED
  BY <1>1, <1>2, <1>3

RecoverAdds == ~row /\ Mishap /\ row' = TRUE /\ trades' = trades + 1 /\ UNCHANGED <<closes, booking, faults>>

LEMMA RecoverShape ==
  ASSUME FlagTypes, Recover
  PROVE  /\ tracked' \in {tracked, TRUE} /\ automated' \in BOOLEAN /\ strayed' \in BOOLEAN
         /\ doubt' = doubt \/ ConcludeGone
         /\ UNCHANGED dbVars \/ RecoverAdds \/ (row /\ LogClose)
<1>1. tracked' \in {tracked, TRUE} /\ (doubt' = doubt \/ ConcludeGone)
  BY DEF Recover
<1>2. automated' \in BOOLEAN /\ strayed' \in BOOLEAN
  BY DEF Recover, InsertRow, FlagTypes
<1>3. UNCHANGED dbVars \/ RecoverAdds \/ (row /\ LogClose)
  BY DEF Recover, RecoverAdds, InsertRow, dbVars
<1>4. QED
  BY <1>1, <1>2, <1>3

LEMMA EventShape ==
  ASSUME FlagTypes, PositionClosedEvent
  PROVE  /\ UNCHANGED <<automated, mark, runouts>>
         /\ tracked' \in BOOLEAN /\ (tracked' => tracked) /\ pending' \in BOOLEAN /\ finalized' \in BOOLEAN
         /\ UNCHANGED dbVars \/ LogClose
<1>1. UNCHANGED <<automated, mark, runouts>>
  BY DEF PositionClosedEvent
<1>2. tracked' \in BOOLEAN /\ (tracked' => tracked)
  <2>1. tracked' \in {tracked, FALSE}
    <3>1. tracked' \in {tracked, FALSE} \/ tracked' = (tracked /\ mark)
      BY DEF PositionClosedEvent
    <3>2. CASE tracked' = (tracked /\ mark)
      BY <3>2 DEF FlagTypes
    <3>3. QED
      BY <3>1, <3>2
  <2>2. CASE tracked' = tracked
    BY <2>2 DEF FlagTypes
  <2>3. CASE tracked' = FALSE
    BY <2>3
  <2>4. QED
    BY <2>1, <2>2, <2>3
<1>3. pending' \in BOOLEAN /\ finalized' \in BOOLEAN
  BY DEF PositionClosedEvent, FlagTypes
<1>4. UNCHANGED dbVars \/ LogClose
  BY DEF PositionClosedEvent
<1>5. QED
  BY <1>1, <1>2, <1>3, <1>4

LEMMA CounterShape ==
  ASSUME CounterTypes, UNCHANGED <<runouts, outages>>,
         \/ UNCHANGED <<trades, closes, faults>>
         \/ LogClose
         \/ Mishap /\ trades' = trades + 1 /\ UNCHANGED <<closes, faults>>
  PROVE  CounterTypes'
<1>1. CASE UNCHANGED <<trades, closes, faults>>
  BY <1>1 DEF CounterTypes
<1>2. CASE LogClose
  BY <1>2, CloseAssumption DEF LogClose, Mishap, CounterTypes
<1>3. CASE Mishap /\ trades' = trades + 1 /\ UNCHANGED <<closes, faults>>
  BY <1>3, CloseAssumption DEF Mishap, CounterTypes
<1>4. QED
  BY <1>1, <1>2, <1>3

LEMMA FlagTypesStep == TypeOK /\ Next => FlagTypes'
<1> SUFFICES ASSUME FlagTypes, StateTypes, CounterTypes, Next PROVE FlagTypes'
  BY DEF TypeOK
<1> USE CloseAssumption
<1>1. FinishClose => FlagTypes'
  BY DEF FinishClose, FlagTypes, caseVars, exchangeVars, clientVars
<1>2. DeleteFails => FlagTypes'
  BY DEF DeleteFails, Mishap, FlagTypes, caseVars, exchangeVars, processVars, botVars, clientVars, dbVars
<1>3. Crash => FlagTypes'
  BY DEF Crash, FlagTypes, caseVars, exchangeVars, dbVars
<1>4. ExchangeNext => FlagTypes'
  BY DEF ExchangeNext, Leave, Gone, FlagTypes, caseVars, exchangeVars, processVars, botVars, clientVars, dbVars
<1>5. ASSUME NEW c \in Callers, Close(c)
       PROVE  FlagTypes'
  BY <1>5 DEF Close, FlagTypes, caseVars, exchangeVars, processVars, botVars, clientVars, dbVars
<1>6. ASSUME NEW c \in Callers, Guard(c)
       PROVE  FlagTypes'
  <2>1. UNCHANGED <<makerMarket, strayed, market, automated, tracked, pending, finalized, emitted, row, booking, doubt, limit>>
    BY <1>6 DEF Guard, caseVars, exchangeVars, clientVars, dbVars
  <2>2. mark' \in BOOLEAN
    BY <1>6 DEF Guard, FlagTypes
  <2>3. QED
    BY <2>1, <2>2 DEF FlagTypes
<1>7. ASSUME NEW c \in Callers, Throw(c)
       PROVE  FlagTypes'
  BY <1>7 DEF Throw, FlagTypes, caseVars, exchangeVars, processVars, botVars, clientVars, dbVars
<1>8. ASSUME NEW c \in Callers, CheckExit(c)
       PROVE  FlagTypes'
  BY <1>8 DEF CheckExit, FlagTypes, caseVars, exchangeVars, processVars, botVars, clientVars, dbVars
<1>9. ASSUME NEW c \in Callers, PlaceMaker(c)
       PROVE  FlagTypes'
  <2>1. UNCHANGED <<makerMarket, strayed, market, automated, mark, finalized, emitted, row, booking, doubt>>
    BY <1>9 DEF PlaceMaker, Phantom, caseVars, exchangeVars, botVars, clientVars, dbVars
  <2>2. tracked' \in BOOLEAN
    BY <1>9 DEF PlaceMaker, Phantom, FlagTypes, processVars, botVars, clientVars, dbVars
  <2>3. limit' \in [Callers -> BOOLEAN]
    BY <1>9 DEF PlaceMaker, Phantom, Gone, Live, LooksOpen, FlagTypes, caseVars, exchangeVars, processVars, botVars, clientVars, dbVars
  <2>4. pending' \in BOOLEAN
    BY <1>9 DEF PlaceMaker, Phantom, FlagTypes, processVars, botVars, clientVars, dbVars
  <2>5. QED
    BY <2>1, <2>2, <2>3, <2>4 DEF FlagTypes
<1>10. ASSUME NEW c \in Callers, PlaceTaker(c)
       PROVE  FlagTypes'
  <2>1. UNCHANGED <<makerMarket, strayed, automated, mark, pending, finalized, emitted, row, booking, doubt, limit>>
    BY <1>10 DEF PlaceTaker, Phantom, caseVars, exchangeVars, botVars, clientVars, dbVars
  <2>2. tracked' \in BOOLEAN
    BY <1>10 DEF PlaceTaker, Phantom, FlagTypes, processVars, botVars, clientVars, dbVars
  <2>3. market' \in BOOLEAN
    BY <1>10 DEF PlaceTaker, Phantom, Gone, Live, LooksOpen, FlagTypes, caseVars, exchangeVars, processVars, botVars, clientVars, dbVars
  <2>4. QED
    BY <2>1, <2>2, <2>3 DEF FlagTypes
<1>11. ASSUME NEW c \in Callers, Verify(c)
       PROVE  FlagTypes'
  <2>1. UNCHANGED <<makerMarket, strayed, market, automated, tracked, mark, pending, finalized, emitted, row, booking, doubt, limit>>
    BY <1>11 DEF Verify, caseVars, exchangeVars, botVars, dbVars
  <2>2. QED
    BY <2>1 DEF FlagTypes
<1>12. ASSUME NEW c \in Callers, Price(c)
       PROVE  FlagTypes'
  <2>1. UNCHANGED <<makerMarket, strayed, market, automated, mark, emitted, row, doubt, limit>>
    BY <1>12 DEF Price, PositionClosedEvent, LogClose, caseVars, exchangeVars, clientVars, dbVars
  <2>2. pending' \in BOOLEAN /\ finalized' \in BOOLEAN /\ tracked' \in BOOLEAN /\ (UNCHANGED dbVars \/ LogClose)
    BY <1>12, EventShape DEF Price
  <2>3. booking' \in BOOLEAN
    BY <2>2 DEF LogClose, FlagTypes, dbVars
  <2>4. QED
    BY <2>1, <2>2, <2>3 DEF FlagTypes
<1>13. ASSUME NEW c \in Callers, Account(c)
       PROVE  FlagTypes'
  <2>1. UNCHANGED <<makerMarket, strayed, market, automated, tracked, mark, pending, finalized, emitted, row, doubt, limit>>
    BY <1>13 DEF Account, LogClose, Mishap, caseVars, exchangeVars, processVars, botVars, clientVars, dbVars
  <2>2. booking' \in BOOLEAN
    BY <1>13 DEF Account, LogClose, FlagTypes, clientVars, dbVars
  <2>3. QED
    BY <2>1, <2>2 DEF FlagTypes
<1>14. ASSUME NEW c \in Callers, MonitorGone(c)
       PROVE  FlagTypes'
  BY <1>14 DEF MonitorGone, LooksGone, ConcludeGone, Gone, Live, FlagTypes, caseVars, exchangeVars, processVars, botVars, clientVars, dbVars
<1>15. ASSUME NEW c \in Callers, MonitorFallback(c)
       PROVE  FlagTypes'
  BY <1>15 DEF MonitorFallback, Gone, Live, FlagTypes, caseVars, exchangeVars, processVars, botVars, clientVars, dbVars
<1>16. ASSUME NEW c \in Callers, MonitorDrop(c)
       PROVE  FlagTypes'
  <2>1. UNCHANGED <<makerMarket, strayed, market, automated, tracked, mark, pending, finalized, emitted, row, booking, doubt>>
    BY <1>16 DEF MonitorDrop, caseVars, botVars, dbVars
  <2>2. limit' \in [Callers -> BOOLEAN]
    BY <1>16 DEF MonitorDrop, FlagTypes, clientVars, dbVars
  <2>3. QED
    BY <2>1, <2>2 DEF FlagTypes
<1>17. ASSUME NEW c \in Callers, FallbackCheck(c)
       PROVE  FlagTypes'
  <2>1. UNCHANGED <<makerMarket, strayed, market, automated, tracked, mark, pending, finalized, emitted, row, booking, limit>>
    BY <1>17 DEF FallbackCheck, caseVars, exchangeVars, botVars, clientVars, dbVars
  <2>2. doubt' \in BOOLEAN
    BY <1>17 DEF FallbackCheck, ConcludeGone, FlagTypes, processVars, botVars, clientVars, dbVars
  <2>3. QED
    BY <2>1, <2>2 DEF FlagTypes
<1>18. ASSUME NEW c \in Callers, FallbackCancel(c)
       PROVE  FlagTypes'
  <2>1. UNCHANGED <<makerMarket, strayed, market, automated, tracked, mark, pending, finalized, emitted, row, booking>>
    BY <1>18 DEF FallbackCancel, caseVars, botVars, clientVars, dbVars
  <2>2. limit' \in [Callers -> BOOLEAN]
    BY <1>18 DEF FallbackCancel, FlagTypes, processVars, botVars, clientVars, dbVars
  <2>3. doubt' \in BOOLEAN
    BY <1>18 DEF FallbackCancel, ConcludeGone, FlagTypes, processVars, botVars, clientVars, dbVars
  <2>4. QED
    BY <2>1, <2>2, <2>3 DEF FlagTypes
<1>19. ASSUME NEW c \in Callers, FallbackTaker(c)
       PROVE  FlagTypes'
  <2>1. UNCHANGED <<makerMarket, strayed, automated, tracked, mark, pending, finalized, emitted, row, booking, limit>>
    BY <1>19 DEF FallbackTaker, caseVars, processVars, botVars, clientVars, dbVars
  <2>2. market' \in BOOLEAN
    BY <1>19 DEF FallbackTaker, FlagTypes, exchangeVars, processVars, botVars, clientVars, dbVars
  <2>3. doubt' \in BOOLEAN
    BY <1>19 DEF FallbackTaker, ConcludeGone, FlagTypes, exchangeVars, processVars, botVars, clientVars, dbVars
  <2>4. QED
    BY <2>1, <2>2, <2>3 DEF FlagTypes
<1>20. ASSUME NEW c \in Callers, FallbackConfirm(c)
       PROVE  FlagTypes'
  <2>1. UNCHANGED <<makerMarket, strayed, market, automated, tracked, mark, pending, finalized, emitted, row, booking, limit>>
    BY <1>20 DEF FallbackConfirm, caseVars, exchangeVars, botVars, dbVars
  <2>2. doubt' \in BOOLEAN
    BY <1>20 DEF FallbackConfirm, ConcludeGone, FlagTypes, clientVars, dbVars
  <2>3. QED
    BY <2>1, <2>2 DEF FlagTypes
<1>21. ASSUME NEW c \in Callers, FallbackUnconfirmed(c)
       PROVE  FlagTypes'
  <2>1. UNCHANGED <<makerMarket, strayed, market, automated, tracked, mark, pending, finalized, emitted, row, booking, limit>>
    BY <1>21 DEF FallbackUnconfirmed, caseVars, exchangeVars, botVars, clientVars, dbVars
  <2>2. doubt' \in BOOLEAN
    BY <1>21 DEF FallbackUnconfirmed, ConcludeGone, FlagTypes, processVars, botVars, clientVars, dbVars
  <2>3. QED
    BY <2>1, <2>2 DEF FlagTypes
<1>22. ASSUME NEW c \in Callers, FallbackEmit(c)
       PROVE  FlagTypes'
  <2>1. UNCHANGED <<makerMarket, strayed, market, automated, mark, row, doubt, limit>>
    BY <1>22 DEF FallbackEmit, EmitPositionClosedOnce, PositionClosedEvent, LogClose, caseVars, exchangeVars, botVars, clientVars, dbVars
  <2>2. emitted' \in BOOLEAN
    BY <1>22 DEF FallbackEmit, EmitPositionClosedOnce, processVars, botVars, clientVars, dbVars
  <2>3. pending' \in BOOLEAN
    BY <1>22 DEF FallbackEmit, EmitPositionClosedOnce, PositionClosedEvent, FlagTypes, processVars, botVars, clientVars, dbVars
  <2>4. finalized' \in BOOLEAN
    BY <1>22 DEF FallbackEmit, EmitPositionClosedOnce, PositionClosedEvent, FlagTypes, processVars, botVars, clientVars, dbVars
  <2>5. tracked' \in BOOLEAN
    BY <1>22 DEF FallbackEmit, EmitPositionClosedOnce, PositionClosedEvent, FlagTypes, processVars, botVars, clientVars, dbVars
  <2>6. booking' \in BOOLEAN
    BY <1>22 DEF FallbackEmit, EmitPositionClosedOnce, PositionClosedEvent, LogClose, FlagTypes, processVars, botVars, clientVars, dbVars
  <2>7. QED
    BY <2>1, <2>2, <2>3, <2>4, <2>5, <2>6 DEF FlagTypes
<1>23. MonitorEmit => FlagTypes'
  BY DEF MonitorEmit, EmitPositionClosedOnce, PositionClosedEvent, LogClose, Mishap, FlagTypes, caseVars, exchangeVars, processVars, botVars, clientVars, dbVars
<1>24. MarkRunsOut => FlagTypes'
  BY DEF MarkRunsOut, Mishap, FlagTypes, caseVars, exchangeVars, processVars, botVars, clientVars, dbVars
<1>25. RecordsExpire => FlagTypes'
  BY DEF RecordsExpire, FlagTypes, caseVars, exchangeVars, dbVars
<1>26. SyncPositions => FlagTypes'
  <2> SUFFICES ASSUME SyncPositions PROVE FlagTypes'
    OBVIOUS
  <2>1. UNCHANGED <<makerMarket, market, mark, pending, finalized, emitted, booking, limit>>
    BY DEF SyncPositions, exchangeVars
  <2>2. tracked' \in BOOLEAN /\ automated' \in BOOLEAN /\ strayed' \in BOOLEAN /\ row' \in BOOLEAN /\ doubt' \in BOOLEAN
    BY SyncShape DEF ConcludeGone, FlagTypes
  <2>3. QED
    BY <2>1, <2>2 DEF FlagTypes
<1>27. SubprocessExits => FlagTypes'
  BY DEF SubprocessExits, Mishap, FlagTypes, caseVars, exchangeVars, processVars, botVars, clientVars, dbVars
<1>28. SubprocessStarts => FlagTypes'
  BY DEF SubprocessStarts, FlagTypes, caseVars, exchangeVars, processVars, botVars, clientVars, dbVars
<1>29. Reconcile => FlagTypes'
  BY DEF Reconcile, FlagTypes, caseVars, botVars, dbVars
<1>30. Recover => FlagTypes'
  <2> SUFFICES ASSUME Recover PROVE FlagTypes'
    OBVIOUS
  <2>1. UNCHANGED <<makerMarket, market, mark, pending, finalized, emitted, limit>>
    BY DEF Recover, exchangeVars
  <2>2. tracked' \in BOOLEAN /\ automated' \in BOOLEAN /\ strayed' \in BOOLEAN /\ doubt' \in BOOLEAN
    BY RecoverShape DEF ConcludeGone, FlagTypes
  <2>3. row' \in BOOLEAN /\ booking' \in BOOLEAN
    BY RecoverShape DEF RecoverAdds, LogClose, FlagTypes, dbVars
  <2>4. QED
    BY <2>1, <2>2, <2>3 DEF FlagTypes
<1>31. QueryPositions => FlagTypes'
  BY DEF QueryPositions, CacheAfterQuery, ListedAs, FlagTypes, caseVars, exchangeVars, processVars, botVars, clientVars, dbVars
<1>32. OtherId => FlagTypes'
  BY DEF OtherId, LogClose, FlagTypes, None, caseVars, exchangeVars, processVars, botVars, clientVars, dbVars
<1>33. QED
  BY <1>1, <1>2, <1>3, <1>4, <1>5, <1>6, <1>7, <1>8, <1>9, <1>10, <1>11, <1>12, <1>13, <1>14, <1>15, <1>16, <1>17, <1>18, <1>19, <1>20, <1>21, <1>22, <1>23, <1>24, <1>25, <1>26, <1>27, <1>28, <1>29, <1>30, <1>31, <1>32 DEF Next, CallerNext, OrderNext

LEMMA StateTypesStep == TypeOK /\ Next => StateTypes'
<1> SUFFICES ASSUME FlagTypes, StateTypes, CounterTypes, Next PROVE StateTypes'
  BY DEF TypeOK
<1> USE CloseAssumption
<1>1. FinishClose => StateTypes'
  BY DEF FinishClose, StateTypes, None, CallerSteps, FallbackSteps, caseVars, exchangeVars, processVars, botVars, clientVars, dbVars
<1>2. DeleteFails => StateTypes'
  BY DEF DeleteFails, Mishap, StateTypes, None, CallerSteps, FallbackSteps, caseVars, exchangeVars, processVars, botVars, clientVars, dbVars
<1>3. Crash => StateTypes'
  BY DEF Crash, Mishap, StateTypes, None, CallerSteps, FallbackSteps, caseVars, exchangeVars, processVars, botVars, clientVars, dbVars
<1>4. ExchangeNext => StateTypes'
  BY DEF ExchangeNext, Leave, StateTypes, exchangeVars, processVars, botVars, clientVars, dbVars
<1>5. ASSUME NEW c \in Callers, Close(c)
       PROVE  StateTypes'
  BY <1>5 DEF Close, StateTypes, None, CallerSteps, FallbackSteps, caseVars, exchangeVars, processVars, botVars, clientVars, dbVars
<1>6. ASSUME NEW c \in Callers, Guard(c)
       PROVE  StateTypes'
  BY <1>6 DEF Guard, StateTypes, None, CallerSteps, FallbackSteps, caseVars, exchangeVars, processVars, botVars, clientVars, dbVars
<1>7. ASSUME NEW c \in Callers, Throw(c)
       PROVE  StateTypes'
  BY <1>7 DEF Throw, StateTypes, None, CallerSteps, FallbackSteps, caseVars, exchangeVars, processVars, botVars, clientVars, dbVars
<1>8. ASSUME NEW c \in Callers, CheckExit(c)
       PROVE  StateTypes'
  BY <1>8 DEF CheckExit, StateTypes, None, CallerSteps, FallbackSteps, caseVars, exchangeVars, processVars, botVars, clientVars, dbVars
<1>9. ASSUME NEW c \in Callers, PlaceMaker(c)
       PROVE  StateTypes'
  BY <1>9 DEF PlaceMaker, Phantom, Gone, Live, LooksOpen, StateTypes, None, CallerSteps, FallbackSteps, caseVars, exchangeVars, processVars, botVars, clientVars, dbVars
<1>10. ASSUME NEW c \in Callers, PlaceTaker(c)
       PROVE  StateTypes'
  BY <1>10 DEF PlaceTaker, Phantom, Gone, Live, LooksOpen, StateTypes, None, CallerSteps, FallbackSteps, caseVars, exchangeVars, processVars, botVars, clientVars, dbVars
<1>11. ASSUME NEW c \in Callers, Verify(c)
       PROVE  StateTypes'
  BY <1>11 DEF Verify, StateTypes, CallerSteps, exchangeVars, processVars, botVars, clientVars, dbVars
<1>12. ASSUME NEW c \in Callers, Price(c)
       PROVE  StateTypes'
  BY <1>12 DEF Price, StateTypes, CallerSteps, caseVars, exchangeVars, processVars, botVars, clientVars, dbVars
<1>13. ASSUME NEW c \in Callers, Account(c)
       PROVE  StateTypes'
  BY <1>13 DEF Account, StateTypes, CallerSteps, exchangeVars, processVars, botVars, clientVars, dbVars
<1>14. ASSUME NEW c \in Callers, MonitorGone(c)
       PROVE  StateTypes'
  BY <1>14 DEF MonitorGone, StateTypes, FallbackSteps, caseVars, exchangeVars, processVars, botVars, clientVars, dbVars
<1>15. ASSUME NEW c \in Callers, MonitorFallback(c)
       PROVE  StateTypes'
  BY <1>15 DEF MonitorFallback, StateTypes, FallbackSteps, exchangeVars, processVars, botVars, clientVars, dbVars
<1>16. ASSUME NEW c \in Callers, MonitorDrop(c)
       PROVE  StateTypes'
  BY <1>16 DEF MonitorDrop, StateTypes, exchangeVars, processVars, botVars, clientVars, dbVars
<1>17. ASSUME NEW c \in Callers, FallbackCheck(c)
       PROVE  StateTypes'
  BY <1>17 DEF FallbackCheck, StateTypes, FallbackSteps, caseVars, exchangeVars, processVars, botVars, clientVars, dbVars
<1>18. ASSUME NEW c \in Callers, FallbackCancel(c)
       PROVE  StateTypes'
  BY <1>18 DEF FallbackCancel, StateTypes, FallbackSteps, caseVars, exchangeVars, processVars, botVars, clientVars, dbVars
<1>19. ASSUME NEW c \in Callers, FallbackTaker(c)
       PROVE  StateTypes'
  BY <1>19 DEF FallbackTaker, StateTypes, CallerSteps, FallbackSteps, caseVars, exchangeVars, processVars, botVars, clientVars, dbVars
<1>20. ASSUME NEW c \in Callers, FallbackConfirm(c)
       PROVE  StateTypes'
  BY <1>20 DEF FallbackConfirm, StateTypes, FallbackSteps, exchangeVars, processVars, botVars, clientVars, dbVars
<1>21. ASSUME NEW c \in Callers, FallbackUnconfirmed(c)
       PROVE  StateTypes'
  BY <1>21 DEF FallbackUnconfirmed, StateTypes, FallbackSteps, caseVars, exchangeVars, processVars, botVars, clientVars, dbVars
<1>22. ASSUME NEW c \in Callers, FallbackEmit(c)
       PROVE  StateTypes'
  <2>1. cached' = None
    BY <1>22 DEF FallbackEmit, EmitPositionClosedOnce
  <2>2. QED
    BY <1>22, <2>1 DEF FallbackEmit, StateTypes, FallbackSteps, caseVars, exchangeVars, processVars, botVars
<1>23. MonitorEmit => StateTypes'
  <2> SUFFICES ASSUME MonitorEmit PROVE StateTypes'
    OBVIOUS
  <2>1. cached' = None
    BY DEF MonitorEmit, EmitPositionClosedOnce
  <2>2. QED
    BY <2>1 DEF MonitorEmit, StateTypes, exchangeVars, processVars
<1>24. MarkRunsOut => StateTypes'
  BY DEF MarkRunsOut, Mishap, StateTypes, None, CallerSteps, FallbackSteps, caseVars, exchangeVars, processVars, botVars, clientVars, dbVars
<1>25. RecordsExpire => StateTypes'
  BY DEF RecordsExpire, Mishap, StateTypes, None, CallerSteps, FallbackSteps, caseVars, exchangeVars, processVars, botVars, clientVars, dbVars
<1>26. SyncPositions => StateTypes'
  BY DEF SyncPositions, CacheAfterQuery, AddFromChain, LooksOpen, ConcludeGone, Gone, Live, StateTypes, None, CallerSteps, FallbackSteps, caseVars, exchangeVars, processVars, botVars, clientVars, dbVars
<1>27. SubprocessExits => StateTypes'
  BY DEF SubprocessExits, Mishap, StateTypes, None, CallerSteps, FallbackSteps, caseVars, exchangeVars, processVars, botVars, clientVars, dbVars
<1>28. SubprocessStarts => StateTypes'
  BY DEF SubprocessStarts, StateTypes, exchangeVars, botVars, clientVars, dbVars
<1>29. Reconcile => StateTypes'
  BY DEF Reconcile, StateTypes, processVars, botVars, clientVars, dbVars
<1>30. Recover => StateTypes'
  BY DEF Recover, Live, StateTypes, None, CallerSteps, FallbackSteps, caseVars, exchangeVars, processVars, botVars, clientVars, dbVars
<1>31. QueryPositions => StateTypes'
  BY DEF QueryPositions, CacheAfterQuery, ListedAs, StateTypes, caseVars, exchangeVars, processVars, botVars, clientVars, dbVars
<1>32. OtherId => StateTypes'
  BY DEF OtherId, LogClose, StateTypes, None, caseVars, exchangeVars, processVars, botVars, clientVars, dbVars
<1>33. QED
  BY <1>1, <1>2, <1>3, <1>4, <1>5, <1>6, <1>7, <1>8, <1>9, <1>10, <1>11, <1>12, <1>13, <1>14, <1>15, <1>16, <1>17, <1>18, <1>19, <1>20, <1>21, <1>22, <1>23, <1>24, <1>25, <1>26, <1>27, <1>28, <1>29, <1>30, <1>31, <1>32 DEF Next, CallerNext, OrderNext

LEMMA CounterTypesStep == TypeOK /\ Next => CounterTypes'
<1> SUFFICES ASSUME FlagTypes, StateTypes, CounterTypes, Next PROVE CounterTypes'
  BY DEF TypeOK
<1> USE CloseAssumption
<1>1. FinishClose => CounterTypes'
  BY DEF FinishClose, CounterTypes, processVars
<1>2. DeleteFails => CounterTypes'
  BY DEF DeleteFails, Mishap, CounterTypes, processVars, botVars, dbVars
<1>3. Crash => CounterTypes'
  BY DEF Crash, Mishap, CounterTypes, dbVars
<1>4. ExchangeNext => CounterTypes'
  BY DEF ExchangeNext, Leave, Gone, CounterTypes, caseVars, exchangeVars, processVars, botVars, clientVars, dbVars
<1>5. ASSUME NEW c \in Callers, Close(c)
       PROVE  CounterTypes'
  BY <1>5 DEF Close, CounterTypes, caseVars, exchangeVars, processVars, botVars, clientVars, dbVars
<1>6. ASSUME NEW c \in Callers, Guard(c)
       PROVE  CounterTypes'
  BY <1>6 DEF Guard, CounterTypes, caseVars, exchangeVars, processVars, botVars, clientVars, dbVars
<1>7. ASSUME NEW c \in Callers, Throw(c)
       PROVE  CounterTypes'
  BY <1>7 DEF Throw, CounterTypes, caseVars, exchangeVars, processVars, botVars, clientVars, dbVars
<1>8. ASSUME NEW c \in Callers, CheckExit(c)
       PROVE  CounterTypes'
  BY <1>8 DEF CheckExit, CounterTypes, caseVars, exchangeVars, processVars, botVars, clientVars, dbVars
<1>9. ASSUME NEW c \in Callers, PlaceMaker(c)
       PROVE  CounterTypes'
  BY <1>9 DEF PlaceMaker, Phantom, CounterTypes, processVars, botVars, clientVars, dbVars
<1>10. ASSUME NEW c \in Callers, PlaceTaker(c)
       PROVE  CounterTypes'
  BY <1>10 DEF PlaceTaker, Phantom, CounterTypes, processVars, botVars, clientVars, dbVars
<1>11. ASSUME NEW c \in Callers, Verify(c)
       PROVE  CounterTypes'
  BY <1>11 DEF Verify, Gone, Live, CounterTypes, caseVars, exchangeVars, processVars, botVars, clientVars, dbVars
<1>12. ASSUME NEW c \in Callers, Price(c)
       PROVE  CounterTypes'
  BY <1>12, EventShape, CounterShape DEF Price, processVars, dbVars
<1>13. ASSUME NEW c \in Callers, Account(c)
       PROVE  CounterTypes'
  BY <1>13 DEF Account, LogClose, Mishap, CounterTypes, caseVars, exchangeVars, processVars, botVars, clientVars, dbVars
<1>14. ASSUME NEW c \in Callers, MonitorGone(c)
       PROVE  CounterTypes'
  BY <1>14 DEF MonitorGone, CounterTypes, processVars, botVars, clientVars, dbVars
<1>15. ASSUME NEW c \in Callers, MonitorFallback(c)
       PROVE  CounterTypes'
  BY <1>15 DEF MonitorFallback, Gone, Live, CounterTypes, caseVars, exchangeVars, processVars, botVars, clientVars, dbVars
<1>16. ASSUME NEW c \in Callers, MonitorDrop(c)
       PROVE  CounterTypes'
  BY <1>16 DEF MonitorDrop, Gone, Live, CounterTypes, caseVars, exchangeVars, processVars, botVars, clientVars, dbVars
<1>17. ASSUME NEW c \in Callers, FallbackCheck(c)
       PROVE  CounterTypes'
  BY <1>17 DEF FallbackCheck, CounterTypes, processVars, botVars, clientVars, dbVars
<1>18. ASSUME NEW c \in Callers, FallbackCancel(c)
       PROVE  CounterTypes'
  BY <1>18 DEF FallbackCancel, CounterTypes, processVars, botVars, clientVars, dbVars
<1>19. ASSUME NEW c \in Callers, FallbackTaker(c)
       PROVE  CounterTypes'
  BY <1>19 DEF FallbackTaker, CounterTypes, exchangeVars, processVars, botVars, clientVars, dbVars
<1>20. ASSUME NEW c \in Callers, FallbackConfirm(c)
       PROVE  CounterTypes'
  BY <1>20 DEF FallbackConfirm, ConcludeGone, Gone, CounterTypes, caseVars, exchangeVars, processVars, botVars, clientVars, dbVars
<1>21. ASSUME NEW c \in Callers, FallbackUnconfirmed(c)
       PROVE  CounterTypes'
  BY <1>21 DEF FallbackUnconfirmed, CounterTypes, processVars, botVars, clientVars, dbVars
<1>22. ASSUME NEW c \in Callers, FallbackEmit(c)
       PROVE  CounterTypes'
  BY <1>22, EventShape, CounterShape DEF FallbackEmit, EmitPositionClosedOnce, processVars, botVars, dbVars
<1>23. MonitorEmit => CounterTypes'
  BY EventShape, CounterShape DEF MonitorEmit, EmitPositionClosedOnce, processVars, botVars, dbVars
<1>24. MarkRunsOut => CounterTypes'
  BY DEF MarkRunsOut, Mishap, CounterTypes, processVars, dbVars
<1>25. RecordsExpire => CounterTypes'
  BY DEF RecordsExpire, Mishap, CounterTypes, processVars, dbVars
<1>26. SyncPositions => CounterTypes'
  BY SyncShape, CounterShape DEF SyncPositions, processVars
<1>27. SubprocessExits => CounterTypes'
  BY DEF SubprocessExits, Mishap, CounterTypes, botVars, dbVars
<1>28. SubprocessStarts => CounterTypes'
  BY DEF SubprocessStarts, CounterTypes, caseVars, exchangeVars, processVars, botVars, clientVars, dbVars
<1>29. Reconcile => CounterTypes'
  BY DEF Reconcile, CounterTypes, botVars, dbVars
<1>30. Recover => CounterTypes'
  BY RecoverShape, CounterShape DEF Recover, RecoverAdds, dbVars
<1>31. QueryPositions => CounterTypes'
  BY DEF QueryPositions, CacheAfterQuery, ListedAs, CounterTypes, Mishap, caseVars, exchangeVars, processVars, botVars, clientVars, dbVars
<1>32. OtherId => CounterTypes'
  BY DEF OtherId, LogClose, CounterTypes, Mishap, None, caseVars, exchangeVars, processVars, botVars, clientVars, dbVars
<1>33. QED
  BY <1>1, <1>2, <1>3, <1>4, <1>5, <1>6, <1>7, <1>8, <1>9, <1>10, <1>11, <1>12, <1>13, <1>14, <1>15, <1>16, <1>17, <1>18, <1>19, <1>20, <1>21, <1>22, <1>23, <1>24, <1>25, <1>26, <1>27, <1>28, <1>29, <1>30, <1>31, <1>32 DEF Next, CallerNext, OrderNext

LEMMA TypeStep == TypeOK /\ [Next]_vars => TypeOK'
<1>1. TypeOK /\ UNCHANGED vars => TypeOK'
  BY DEF TypeOK, FlagTypes, StateTypes, CounterTypes, vars, caseVars, exchangeVars, processVars, botVars, clientVars, dbVars
<1>2. QED
  BY <1>1, FlagTypesStep, StateTypesStep, CounterTypesStep DEF TypeOK

\* Type correctness, for any callers and bounds.
THEOREM TypeCorrect == Spec => []TypeOK
  BY TypeInit, TypeStep, PTL DEF Spec

-----------------------------------------------------------------------------
(* An open position nobody took for gone is in the books and in tracking,  *)
(* and nobody is on the way to report it closed.                           *)

InTheBooks == closes = 0 /\ row /\ ~booking
InTracking == bot = "up" => tracked
NoReport == mon = None /\ \A c \in Callers : pc[c] \notin {"price", "account"} /\ fb[c] # "price"
OwnId == ~strayed /\ cached # "other" /\ (bot = "up" => cached = "own")

Kept == doubt \/ Gone \/ (InTheBooks /\ InTracking /\ NoReport /\ OwnId)

LEMMA ConcludedStays == TypeOK /\ (doubt \/ Gone) /\ Next => (doubt \/ Gone)'
<1> SUFFICES ASSUME FlagTypes, StateTypes, doubt \/ Gone, Next PROVE (doubt \/ Gone)'
  BY DEF TypeOK
<1>1. FinishClose => (doubt \/ Gone)'
  BY DEF FinishClose, Gone, exchangeVars, clientVars, dbVars
<1>2. DeleteFails => (doubt \/ Gone)'
  BY DEF DeleteFails, Gone, exchangeVars, botVars, clientVars, dbVars
<1>3. Crash => (doubt \/ Gone)'
  BY DEF Crash, Gone, exchangeVars, botVars, clientVars, dbVars
<1>4. ExchangeNext => (doubt \/ Gone)'
  BY DEF ExchangeNext, Gone, botVars, clientVars, dbVars
<1>5. ASSUME NEW c \in Callers, Close(c)
       PROVE  (doubt \/ Gone)'
  BY <1>5 DEF Close, Gone, exchangeVars, clientVars, dbVars
<1>6. ASSUME NEW c \in Callers, Guard(c)
       PROVE  (doubt \/ Gone)'
  BY <1>6 DEF Guard, Gone, exchangeVars, clientVars, dbVars
<1>7. ASSUME NEW c \in Callers, Throw(c)
       PROVE  (doubt \/ Gone)'
  BY <1>7 DEF Throw, Gone, exchangeVars, clientVars, dbVars
<1>8. ASSUME NEW c \in Callers, CheckExit(c)
       PROVE  (doubt \/ Gone)'
  BY <1>8 DEF CheckExit, Gone, exchangeVars, clientVars, dbVars
<1>9. ASSUME NEW c \in Callers, PlaceMaker(c)
       PROVE  (doubt \/ Gone)'
  BY <1>9 DEF PlaceMaker, Phantom, Gone, exchangeVars, processVars, botVars, clientVars, dbVars
<1>10. ASSUME NEW c \in Callers, PlaceTaker(c)
       PROVE  (doubt \/ Gone)'
  BY <1>10 DEF PlaceTaker, Phantom, Gone, exchangeVars, processVars, botVars, clientVars, dbVars
<1>11. ASSUME NEW c \in Callers, Verify(c)
       PROVE  (doubt \/ Gone)'
  BY <1>11 DEF Verify, Gone, exchangeVars, botVars, clientVars, dbVars
<1>12. ASSUME NEW c \in Callers, Price(c)
       PROVE  (doubt \/ Gone)'
  BY <1>12 DEF Price, Gone, exchangeVars, processVars, botVars, clientVars, dbVars
<1>13. ASSUME NEW c \in Callers, Account(c)
       PROVE  (doubt \/ Gone)'
  BY <1>13 DEF Account, LogClose, Mishap, Gone, FlagTypes, StateTypes, caseVars, exchangeVars, processVars, botVars, clientVars, dbVars
<1>14. ASSUME NEW c \in Callers, MonitorGone(c)
       PROVE  (doubt \/ Gone)'
  BY <1>14 DEF MonitorGone, ConcludeGone, Gone, exchangeVars, processVars, botVars, clientVars, dbVars
<1>15. ASSUME NEW c \in Callers, MonitorFallback(c)
       PROVE  (doubt \/ Gone)'
  BY <1>15 DEF MonitorFallback, Gone, exchangeVars, botVars, clientVars, dbVars
<1>16. ASSUME NEW c \in Callers, MonitorDrop(c)
       PROVE  (doubt \/ Gone)'
  BY <1>16 DEF MonitorDrop, Gone, botVars, clientVars, dbVars
<1>17. ASSUME NEW c \in Callers, FallbackCheck(c)
       PROVE  (doubt \/ Gone)'
  BY <1>17 DEF FallbackCheck, ConcludeGone, Gone, exchangeVars, processVars, botVars, clientVars, dbVars
<1>18. ASSUME NEW c \in Callers, FallbackCancel(c)
       PROVE  (doubt \/ Gone)'
  BY <1>18 DEF FallbackCancel, ConcludeGone, Gone, exchangeVars, processVars, botVars, clientVars, dbVars
<1>19. ASSUME NEW c \in Callers, FallbackTaker(c)
       PROVE  (doubt \/ Gone)'
  BY <1>19 DEF FallbackTaker, ConcludeGone, Gone, caseVars, exchangeVars, processVars, botVars, clientVars, dbVars
<1>20. ASSUME NEW c \in Callers, FallbackConfirm(c)
       PROVE  (doubt \/ Gone)'
  BY <1>20 DEF FallbackConfirm, ConcludeGone, Gone, exchangeVars, botVars, clientVars, dbVars
<1>21. ASSUME NEW c \in Callers, FallbackUnconfirmed(c)
       PROVE  (doubt \/ Gone)'
  BY <1>21 DEF FallbackUnconfirmed, ConcludeGone, Gone, exchangeVars, processVars, botVars, clientVars, dbVars
<1>22. ASSUME NEW c \in Callers, FallbackEmit(c)
       PROVE  (doubt \/ Gone)'
  BY <1>22 DEF FallbackEmit, Gone, caseVars, exchangeVars, processVars, botVars, clientVars, dbVars
<1>23. MonitorEmit => (doubt \/ Gone)'
  BY DEF MonitorEmit, Gone, caseVars, exchangeVars, processVars, botVars, clientVars, dbVars
<1>24. MarkRunsOut => (doubt \/ Gone)'
  BY DEF MarkRunsOut, Gone, exchangeVars, botVars, clientVars, dbVars
<1>25. RecordsExpire => (doubt \/ Gone)'
  BY DEF RecordsExpire, Gone, exchangeVars, botVars, clientVars, dbVars
<1>26. SyncPositions => (doubt \/ Gone)'
  <2> SUFFICES ASSUME SyncPositions PROVE (doubt \/ Gone)'
    OBVIOUS
  <2>1. pos' = pos
    BY DEF SyncPositions, exchangeVars
  <2>2. CASE doubt' = doubt
    BY <2>1, <2>2 DEF Gone
  <2>3. CASE ConcludeGone
    BY <2>1, <2>3 DEF ConcludeGone, Gone
  <2>4. QED
    BY <2>2, <2>3, SyncShape
<1>27. SubprocessExits => (doubt \/ Gone)'
  BY DEF SubprocessExits, Gone, exchangeVars, botVars, clientVars, dbVars
<1>28. SubprocessStarts => (doubt \/ Gone)'
  BY DEF SubprocessStarts, Gone, exchangeVars, clientVars, dbVars
<1>29. Reconcile => (doubt \/ Gone)'
  BY ReconcileShape DEF Reconcile, Gone
<1>30. Recover => (doubt \/ Gone)'
  BY DEF Recover, CacheAfterQuery, AddFromChain, LooksOpen, ConcludeGone, LogClose, Mishap, Gone, Live, FlagTypes, StateTypes, caseVars, exchangeVars, processVars, botVars, clientVars, dbVars
<1>31. QueryPositions => (doubt \/ Gone)'
  BY DEF QueryPositions, CacheAfterQuery, ListedAs, Gone, caseVars, exchangeVars, processVars, botVars, clientVars, dbVars
<1>32. OtherId => (doubt \/ Gone)'
  BY DEF OtherId, LogClose, Gone, None, caseVars, exchangeVars, processVars, botVars, clientVars, dbVars
<1>33. QED
  BY <1>1, <1>2, <1>3, <1>4, <1>5, <1>6, <1>7, <1>8, <1>9, <1>10, <1>11, <1>12, <1>13, <1>14, <1>15, <1>16, <1>17, <1>18, <1>19, <1>20, <1>21, <1>22, <1>23, <1>24, <1>25, <1>26, <1>27, <1>28, <1>29, <1>30, <1>31, <1>32 DEF Next, CallerNext, OrderNext

LEMMA InTheBooksStep ==
  ASSUME TypeOK, InTheBooks, InTracking, NoReport, OwnId, ~doubt, ~Gone, Next, ~(doubt \/ Gone)'
  PROVE  InTheBooks'
<1> USE DEF TypeOK
<1>1. FinishClose => InTheBooks'
  BY DEF FinishClose, InTheBooks, exchangeVars, processVars, botVars, clientVars, dbVars
<1>2. DeleteFails => InTheBooks'
  BY DEF DeleteFails, InTheBooks, caseVars, exchangeVars, processVars, botVars, clientVars, dbVars
<1>3. Crash => InTheBooks'
  BY DEF Crash, InTheBooks, caseVars, exchangeVars, processVars, botVars, clientVars, dbVars
<1>4. ExchangeNext => InTheBooks'
  BY DEF ExchangeNext, InTheBooks, caseVars, exchangeVars, processVars, botVars, clientVars, dbVars
<1>5. ASSUME NEW c \in Callers, Close(c)
       PROVE  InTheBooks'
  BY <1>5 DEF Close, InTheBooks, exchangeVars, processVars, botVars, clientVars, dbVars
<1>6. ASSUME NEW c \in Callers, Guard(c)
       PROVE  InTheBooks'
  BY <1>6 DEF Guard, InTheBooks, exchangeVars, processVars, botVars, clientVars, dbVars
<1>7. ASSUME NEW c \in Callers, Throw(c)
       PROVE  InTheBooks'
  BY <1>7 DEF Throw, InTheBooks, exchangeVars, processVars, botVars, clientVars, dbVars
<1>8. ASSUME NEW c \in Callers, CheckExit(c)
       PROVE  InTheBooks'
  BY <1>8 DEF CheckExit, InTheBooks, exchangeVars, processVars, botVars, clientVars, dbVars
<1>9. ASSUME NEW c \in Callers, PlaceMaker(c)
       PROVE  InTheBooks'
  BY <1>9 DEF PlaceMaker, InTheBooks, NoReport, None, caseVars, exchangeVars, processVars, botVars, clientVars, dbVars
<1>10. ASSUME NEW c \in Callers, PlaceTaker(c)
       PROVE  InTheBooks'
  BY <1>10 DEF PlaceTaker, InTheBooks, NoReport, None, caseVars, exchangeVars, processVars, botVars, clientVars, dbVars
<1>11. ASSUME NEW c \in Callers, Verify(c)
       PROVE  InTheBooks'
  BY <1>11 DEF Verify, InTheBooks, caseVars, exchangeVars, processVars, botVars, clientVars, dbVars
<1>12. ASSUME NEW c \in Callers, Price(c)
       PROVE  InTheBooks'
  BY <1>12 DEF Price, NoReport, None, caseVars, exchangeVars, processVars, botVars, clientVars, dbVars
<1>13. ASSUME NEW c \in Callers, Account(c)
       PROVE  InTheBooks'
  BY <1>13 DEF Account, LogClose, Mishap, InTheBooks, Gone, FlagTypes, StateTypes, NoReport, None, caseVars, exchangeVars, processVars, botVars, clientVars, dbVars
<1>14. ASSUME NEW c \in Callers, MonitorGone(c)
       PROVE  InTheBooks'
  BY <1>14 DEF MonitorGone, InTheBooks, NoReport, None, caseVars, exchangeVars, processVars, botVars, clientVars, dbVars
<1>15. ASSUME NEW c \in Callers, MonitorFallback(c)
       PROVE  InTheBooks'
  BY <1>15 DEF MonitorFallback, InTheBooks, caseVars, exchangeVars, processVars, botVars, clientVars, dbVars
<1>16. ASSUME NEW c \in Callers, MonitorDrop(c)
       PROVE  InTheBooks'
  BY <1>16 DEF MonitorDrop, InTheBooks, caseVars, exchangeVars, processVars, botVars, clientVars, dbVars
<1>17. ASSUME NEW c \in Callers, FallbackCheck(c)
       PROVE  InTheBooks'
  BY <1>17 DEF FallbackCheck, InTheBooks, NoReport, None, caseVars, exchangeVars, processVars, botVars, clientVars, dbVars
<1>18. ASSUME NEW c \in Callers, FallbackCancel(c)
       PROVE  InTheBooks'
  BY <1>18 DEF FallbackCancel, InTheBooks, NoReport, None, caseVars, exchangeVars, processVars, botVars, clientVars, dbVars
<1>19. ASSUME NEW c \in Callers, FallbackTaker(c)
       PROVE  InTheBooks'
  BY <1>19 DEF FallbackTaker, InTheBooks, StateTypes, NoReport, None, caseVars, exchangeVars, processVars, botVars, clientVars, dbVars
<1>20. ASSUME NEW c \in Callers, FallbackConfirm(c)
       PROVE  InTheBooks'
  BY <1>20 DEF FallbackConfirm, InTheBooks, caseVars, exchangeVars, processVars, botVars, clientVars, dbVars
<1>21. ASSUME NEW c \in Callers, FallbackUnconfirmed(c)
       PROVE  InTheBooks'
  BY <1>21 DEF FallbackUnconfirmed, InTheBooks, NoReport, None, caseVars, exchangeVars, processVars, botVars, clientVars, dbVars
<1>22. ASSUME NEW c \in Callers, FallbackEmit(c)
       PROVE  InTheBooks'
  BY <1>22 DEF FallbackEmit, StateTypes, NoReport, None, caseVars, exchangeVars, processVars, botVars, clientVars, dbVars
<1>23. MonitorEmit => InTheBooks'
  BY DEF MonitorEmit, StateTypes, NoReport, None, caseVars, exchangeVars, processVars, botVars, clientVars, dbVars
<1>24. MarkRunsOut => InTheBooks'
  BY DEF MarkRunsOut, InTheBooks, caseVars, exchangeVars, processVars, botVars, clientVars, dbVars
<1>25. RecordsExpire => InTheBooks'
  BY DEF RecordsExpire, InTheBooks, caseVars, exchangeVars, processVars, botVars, clientVars, dbVars
<1>26. SyncPositions => InTheBooks'
  <2> SUFFICES ASSUME SyncPositions PROVE InTheBooks'
    OBVIOUS
  <2>1. UNCHANGED <<closes, booking>>
    BY DEF SyncPositions
  <2>2. row'
    BY DEF SyncPositions, AddFromChain, InTheBooks
  <2>3. QED
    BY <2>1, <2>2 DEF InTheBooks
<1>27. SubprocessExits => InTheBooks'
  BY DEF SubprocessExits, InTheBooks, caseVars, exchangeVars, processVars, botVars, clientVars, dbVars
<1>28. SubprocessStarts => InTheBooks'
  BY DEF SubprocessStarts, InTheBooks, exchangeVars, processVars, botVars, clientVars, dbVars
<1>29. Reconcile => InTheBooks'
  BY DEF Reconcile, InTheBooks, exchangeVars, processVars, botVars, clientVars, dbVars
<1>30. Recover => InTheBooks'
  <2> SUFFICES ASSUME Recover PROVE InTheBooks'
    OBVIOUS
  <2>1. cached' # None /\ cached' # "other"
    BY DEF Recover, CacheAfterQuery, ListedAs, ConcludeGone, Gone, OwnId, InTheBooks, None, exchangeVars
  <2>2. cached' = "own" /\ UNCHANGED <<row, closes, booking>>
    BY <2>1 DEF Recover, InTheBooks
  <2>3. QED
    BY <2>2 DEF InTheBooks
<1>31. QueryPositions => InTheBooks'
  BY DEF QueryPositions, CacheAfterQuery, ListedAs, InTheBooks, OwnId, caseVars, exchangeVars, processVars, botVars, clientVars, dbVars
<1>32. OtherId => InTheBooks'
  BY DEF OtherId, LogClose, InTheBooks, OwnId, None, caseVars, exchangeVars, processVars, botVars, clientVars, dbVars
<1>33. QED
  BY <1>1, <1>2, <1>3, <1>4, <1>5, <1>6, <1>7, <1>8, <1>9, <1>10, <1>11, <1>12, <1>13, <1>14, <1>15, <1>16, <1>17, <1>18, <1>19, <1>20, <1>21, <1>22, <1>23, <1>24, <1>25, <1>26, <1>27, <1>28, <1>29, <1>30, <1>31, <1>32 DEF Next, CallerNext, OrderNext

LEMMA InTrackingStep ==
  ASSUME TypeOK, InTheBooks, InTracking, NoReport, OwnId, ~doubt, ~Gone, Next, ~(doubt \/ Gone)'
  PROVE  InTracking'
<1> USE DEF TypeOK
<1>1. FinishClose => InTracking'
  BY DEF FinishClose, InTheBooks, caseVars, exchangeVars, processVars, botVars, clientVars, dbVars
<1>2. DeleteFails => InTracking'
  BY DEF DeleteFails, InTheBooks, None, caseVars, exchangeVars, processVars, botVars, clientVars, dbVars
<1>3. Crash => InTracking'
  BY DEF Crash, InTracking, None, caseVars, exchangeVars, processVars, botVars, clientVars, dbVars
<1>4. ExchangeNext => InTracking'
  BY DEF ExchangeNext, InTracking, None, caseVars, exchangeVars, processVars, botVars, clientVars, dbVars
<1>5. ASSUME NEW c \in Callers, Close(c)
       PROVE  InTracking'
  BY <1>5 DEF Close, InTracking, caseVars, exchangeVars, processVars, botVars, clientVars, dbVars
<1>6. ASSUME NEW c \in Callers, Guard(c)
       PROVE  InTracking'
  BY <1>6 DEF Guard, InTracking, caseVars, exchangeVars, processVars, botVars, clientVars, dbVars
<1>7. ASSUME NEW c \in Callers, Throw(c)
       PROVE  InTracking'
  BY <1>7 DEF Throw, InTracking, caseVars, exchangeVars, processVars, botVars, clientVars, dbVars
<1>8. ASSUME NEW c \in Callers, CheckExit(c)
       PROVE  InTracking'
  BY <1>8 DEF CheckExit, InTracking, caseVars, exchangeVars, processVars, botVars, clientVars, dbVars
<1>9. ASSUME NEW c \in Callers, PlaceMaker(c)
       PROVE  InTracking'
  <2>1. UNCHANGED <<bot, tracked>>
    BY <1>9 DEF PlaceMaker, Phantom, processVars, botVars
  <2>2. QED
    BY <2>1 DEF InTracking
<1>10. ASSUME NEW c \in Callers, PlaceTaker(c)
       PROVE  InTracking'
  BY <1>10 DEF PlaceTaker, Phantom, InTracking, InTheBooks, NoReport, None, caseVars, exchangeVars, processVars, botVars, clientVars, dbVars
<1>11. ASSUME NEW c \in Callers, Verify(c)
       PROVE  InTracking'
  BY <1>11 DEF Verify, InTracking, None, caseVars, exchangeVars, processVars, botVars, clientVars, dbVars
<1>12. ASSUME NEW c \in Callers, Price(c)
       PROVE  InTracking'
  BY <1>12 DEF Price, InTheBooks, NoReport, None, caseVars, exchangeVars, processVars, botVars, clientVars, dbVars
<1>13. ASSUME NEW c \in Callers, Account(c)
       PROVE  InTracking'
  BY <1>13 DEF Account, NoReport, None, caseVars, exchangeVars, processVars, botVars, clientVars, dbVars
<1>14. ASSUME NEW c \in Callers, MonitorGone(c)
       PROVE  InTracking'
  BY <1>14 DEF MonitorGone, InTracking, InTheBooks, NoReport, None, caseVars, exchangeVars, processVars, botVars, clientVars, dbVars
<1>15. ASSUME NEW c \in Callers, MonitorFallback(c)
       PROVE  InTracking'
  BY <1>15 DEF MonitorFallback, InTracking, None, caseVars, exchangeVars, processVars, botVars, clientVars, dbVars
<1>16. ASSUME NEW c \in Callers, MonitorDrop(c)
       PROVE  InTracking'
  BY <1>16 DEF MonitorDrop, InTracking, None, caseVars, exchangeVars, processVars, botVars, clientVars, dbVars
<1>17. ASSUME NEW c \in Callers, FallbackCheck(c)
       PROVE  InTracking'
  BY <1>17 DEF FallbackCheck, InTracking, InTheBooks, NoReport, None, caseVars, exchangeVars, processVars, botVars, clientVars, dbVars
<1>18. ASSUME NEW c \in Callers, FallbackCancel(c)
       PROVE  InTracking'
  BY <1>18 DEF FallbackCancel, InTracking, InTheBooks, NoReport, None, caseVars, exchangeVars, processVars, botVars, clientVars, dbVars
<1>19. ASSUME NEW c \in Callers, FallbackTaker(c)
       PROVE  InTracking'
  BY <1>19 DEF FallbackTaker, InTracking, StateTypes, InTheBooks, NoReport, None, caseVars, exchangeVars, processVars, botVars, clientVars, dbVars
<1>20. ASSUME NEW c \in Callers, FallbackConfirm(c)
       PROVE  InTracking'
  BY <1>20 DEF FallbackConfirm, InTracking, None, caseVars, exchangeVars, processVars, botVars, clientVars, dbVars
<1>21. ASSUME NEW c \in Callers, FallbackUnconfirmed(c)
       PROVE  InTracking'
  BY <1>21 DEF FallbackUnconfirmed, InTracking, InTheBooks, NoReport, None, caseVars, exchangeVars, processVars, botVars, clientVars, dbVars
<1>22. ASSUME NEW c \in Callers, FallbackEmit(c)
       PROVE  InTracking'
  BY <1>22 DEF FallbackEmit, StateTypes, InTheBooks, NoReport, None, caseVars, exchangeVars, processVars, botVars, clientVars, dbVars
<1>23. MonitorEmit => InTracking'
  BY DEF MonitorEmit, StateTypes, InTheBooks, NoReport, None, caseVars, exchangeVars, processVars, botVars, clientVars, dbVars
<1>24. MarkRunsOut => InTracking'
  BY DEF MarkRunsOut, InTracking, None, caseVars, exchangeVars, processVars, botVars, clientVars, dbVars
<1>25. RecordsExpire => InTracking'
  BY DEF RecordsExpire, InTracking, None, caseVars, exchangeVars, processVars, botVars, clientVars, dbVars
<1>26. SyncPositions => InTracking'
  <2> SUFFICES ASSUME SyncPositions PROVE InTracking'
    OBVIOUS
  <2>1. ~ConcludeGone
    BY DEF SyncPositions, ConcludeGone, Gone, exchangeVars
  <2>2. cached' # "other"
    BY DEF SyncPositions, CacheAfterQuery, ListedAs, OwnId, InTheBooks, None
  <2>3. QED
    BY <2>1, <2>2 DEF SyncPositions, AddFromChain, InTracking
<1>27. SubprocessExits => InTracking'
  BY DEF SubprocessExits, InTracking, None, caseVars, exchangeVars, processVars, botVars, clientVars, dbVars
<1>28. SubprocessStarts => InTracking'
  BY DEF SubprocessStarts, InTracking, caseVars, exchangeVars, processVars, botVars, clientVars, dbVars
<1>29. Reconcile => InTracking'
  BY ReconcileShape DEF Reconcile, InTracking
<1>30. Recover => InTracking'
  BY DEF Recover, CacheAfterQuery, ListedAs, ConcludeGone, Gone, InTracking, OwnId, InTheBooks, None, exchangeVars
<1>31. QueryPositions => InTracking'
  BY DEF QueryPositions, CacheAfterQuery, ListedAs, InTracking, OwnId, caseVars, exchangeVars, processVars, botVars, clientVars, dbVars
<1>32. OtherId => InTracking'
  BY DEF OtherId, LogClose, InTracking, OwnId, None, caseVars, exchangeVars, processVars, botVars, clientVars, dbVars
<1>33. QED
  BY <1>1, <1>2, <1>3, <1>4, <1>5, <1>6, <1>7, <1>8, <1>9, <1>10, <1>11, <1>12, <1>13, <1>14, <1>15, <1>16, <1>17, <1>18, <1>19, <1>20, <1>21, <1>22, <1>23, <1>24, <1>25, <1>26, <1>27, <1>28, <1>29, <1>30, <1>31, <1>32 DEF Next, CallerNext, OrderNext

LEMMA NoReportStep ==
  ASSUME TypeOK, InTheBooks, InTracking, NoReport, OwnId, ~doubt, ~Gone, Next, ~(doubt \/ Gone)'
  PROVE  NoReport'
<1> USE DEF TypeOK
<1>1. FinishClose => NoReport'
  BY DEF FinishClose, InTheBooks, exchangeVars, processVars, botVars, clientVars, dbVars
<1>2. DeleteFails => NoReport'
  BY DEF DeleteFails, InTheBooks, caseVars, exchangeVars, processVars, botVars, clientVars, dbVars
<1>3. Crash => NoReport'
  BY DEF Crash, Mishap, NoReport, Gone, FlagTypes, StateTypes, InTheBooks, None, caseVars, exchangeVars, processVars, botVars, clientVars, dbVars
<1>4. ExchangeNext => NoReport'
  BY DEF ExchangeNext, NoReport, caseVars, exchangeVars, processVars, botVars, clientVars, dbVars
<1>5. ASSUME NEW c \in Callers, Close(c)
       PROVE  NoReport'
  BY <1>5 DEF Close, NoReport, exchangeVars, processVars, botVars, clientVars, dbVars
<1>6. ASSUME NEW c \in Callers, Guard(c)
       PROVE  NoReport'
  BY <1>6 DEF Guard, NoReport, StateTypes, exchangeVars, processVars, botVars, clientVars, dbVars
<1>7. ASSUME NEW c \in Callers, Throw(c)
       PROVE  NoReport'
  BY <1>7 DEF Throw, NoReport, exchangeVars, processVars, botVars, clientVars, dbVars
<1>8. ASSUME NEW c \in Callers, CheckExit(c)
       PROVE  NoReport'
  BY <1>8 DEF CheckExit, NoReport, exchangeVars, processVars, botVars, clientVars, dbVars
<1>9. ASSUME NEW c \in Callers, PlaceMaker(c)
       PROVE  NoReport'
  BY <1>9 DEF PlaceMaker, Phantom, Gone, Live, LooksOpen, NoReport, FlagTypes, StateTypes, InTheBooks, None, caseVars, exchangeVars, processVars, botVars, clientVars, dbVars
<1>10. ASSUME NEW c \in Callers, PlaceTaker(c)
       PROVE  NoReport'
  BY <1>10 DEF PlaceTaker, Phantom, Gone, Live, LooksOpen, NoReport, FlagTypes, StateTypes, InTheBooks, None, caseVars, exchangeVars, processVars, botVars, clientVars, dbVars
<1>11. ASSUME NEW c \in Callers, Verify(c)
       PROVE  NoReport'
  BY <1>11 DEF Verify, NoReport, StateTypes, caseVars, exchangeVars, processVars, botVars, clientVars, dbVars
<1>12. ASSUME NEW c \in Callers, Price(c)
       PROVE  NoReport'
  BY <1>12 DEF Price, NoReport, InTheBooks, None, caseVars, exchangeVars, processVars, botVars, clientVars, dbVars
<1>13. ASSUME NEW c \in Callers, Account(c)
       PROVE  NoReport'
  BY <1>13 DEF Account, NoReport, None, caseVars, exchangeVars, processVars, botVars, clientVars, dbVars
<1>14. ASSUME NEW c \in Callers, MonitorGone(c)
       PROVE  NoReport'
  BY <1>14 DEF MonitorGone, ConcludeGone, InTheBooks, None, caseVars, exchangeVars, processVars, botVars, clientVars, dbVars
<1>15. ASSUME NEW c \in Callers, MonitorFallback(c)
       PROVE  NoReport'
  BY <1>15 DEF MonitorFallback, NoReport, caseVars, exchangeVars, processVars, botVars, clientVars, dbVars
<1>16. ASSUME NEW c \in Callers, MonitorDrop(c)
       PROVE  NoReport'
  BY <1>16 DEF MonitorDrop, NoReport, caseVars, exchangeVars, processVars, botVars, clientVars, dbVars
<1>17. ASSUME NEW c \in Callers, FallbackCheck(c)
       PROVE  NoReport'
  BY <1>17 DEF FallbackCheck, LooksGone, ConcludeGone, Gone, Live, NoReport, FlagTypes, StateTypes, InTheBooks, None, caseVars, exchangeVars, processVars, botVars, clientVars, dbVars
<1>18. ASSUME NEW c \in Callers, FallbackCancel(c)
       PROVE  NoReport'
  BY <1>18 DEF FallbackCancel, LooksGone, ConcludeGone, Gone, Live, NoReport, FlagTypes, StateTypes, InTheBooks, None, caseVars, exchangeVars, processVars, botVars, clientVars, dbVars
<1>19. ASSUME NEW c \in Callers, FallbackTaker(c)
       PROVE  NoReport'
  BY <1>19 DEF FallbackTaker, ConcludeGone, NoReport, StateTypes, InTheBooks, None, caseVars, exchangeVars, processVars, botVars, clientVars, dbVars
<1>20. ASSUME NEW c \in Callers, FallbackConfirm(c)
       PROVE  NoReport'
  BY <1>20 DEF FallbackConfirm, ConcludeGone, NoReport, StateTypes, caseVars, exchangeVars, processVars, botVars, clientVars, dbVars
<1>21. ASSUME NEW c \in Callers, FallbackUnconfirmed(c)
       PROVE  NoReport'
  BY <1>21 DEF FallbackUnconfirmed, LooksGone, ConcludeGone, Gone, Live, NoReport, FlagTypes, StateTypes, InTheBooks, None, caseVars, exchangeVars, processVars, botVars, clientVars, dbVars
<1>22. ASSUME NEW c \in Callers, FallbackEmit(c)
       PROVE  NoReport'
  BY <1>22 DEF FallbackEmit, NoReport, StateTypes, InTheBooks, None, caseVars, exchangeVars, processVars, botVars, clientVars, dbVars
<1>23. MonitorEmit => NoReport'
  BY DEF MonitorEmit, NoReport, StateTypes, InTheBooks, None, caseVars, exchangeVars, processVars, botVars, clientVars, dbVars
<1>24. MarkRunsOut => NoReport'
  BY DEF MarkRunsOut, NoReport, caseVars, exchangeVars, processVars, botVars, clientVars, dbVars
<1>25. RecordsExpire => NoReport'
  BY DEF RecordsExpire, NoReport, caseVars, exchangeVars, processVars, botVars, clientVars, dbVars
<1>26. SyncPositions => NoReport'
  BY DEF SyncPositions, CacheAfterQuery, AddFromChain, LooksOpen, ConcludeGone, Gone, Live, NoReport, FlagTypes, StateTypes, InTheBooks, None, caseVars, exchangeVars, processVars, botVars, clientVars, dbVars
<1>27. SubprocessExits => NoReport'
  BY DEF SubprocessExits, NoReport, caseVars, exchangeVars, processVars, botVars, clientVars, dbVars
<1>28. SubprocessStarts => NoReport'
  BY DEF SubprocessStarts, NoReport, exchangeVars, processVars, botVars, clientVars, dbVars
<1>29. Reconcile => NoReport'
  BY DEF Reconcile, NoReport, exchangeVars, processVars, botVars, clientVars, dbVars
<1>30. Recover => NoReport'
  BY DEF Recover, Live, NoReport, FlagTypes, StateTypes, InTheBooks, None, caseVars, exchangeVars, processVars, botVars, clientVars, dbVars
<1>31. QueryPositions => NoReport'
  BY DEF QueryPositions, CacheAfterQuery, ListedAs, NoReport, OwnId, caseVars, exchangeVars, processVars, botVars, clientVars, dbVars
<1>32. OtherId => NoReport'
  BY DEF OtherId, LogClose, NoReport, OwnId, None, caseVars, exchangeVars, processVars, botVars, clientVars, dbVars
<1>33. QED
  BY <1>1, <1>2, <1>3, <1>4, <1>5, <1>6, <1>7, <1>8, <1>9, <1>10, <1>11, <1>12, <1>13, <1>14, <1>15, <1>16, <1>17, <1>18, <1>19, <1>20, <1>21, <1>22, <1>23, <1>24, <1>25, <1>26, <1>27, <1>28, <1>29, <1>30, <1>31, <1>32 DEF Next, CallerNext, OrderNext

LEMMA OwnIdStep ==
  ASSUME TypeOK, InTheBooks, InTracking, NoReport, OwnId, ~doubt, ~Gone, Next, ~(doubt \/ Gone)'
  PROVE  OwnId'
<1>0. TypeOK /\ (UNCHANGED <<strayed, cached, bot>> => OwnId')
  BY DEF OwnId
<1>1. CASE FinishClose \/ DeleteFails \/ ExchangeNext \/ MarkRunsOut \/ RecordsExpire \/ SubprocessExits \/ SubprocessStarts
  BY <1>0, <1>1 DEF FinishClose, DeleteFails, ExchangeNext, MarkRunsOut, RecordsExpire, SubprocessExits,
                    SubprocessStarts, caseVars, processVars, clientVars
<1>2. ASSUME NEW c \in Callers, CallerNext(c)
      PROVE  OwnId'
  <2>1. UNCHANGED <<strayed, bot>>
    BY <1>2 DEF CallerNext, Close, Guard, Throw, CheckExit, PlaceMaker, PlaceTaker, Verify, Price, Account, caseVars, processVars
  <2>2. UNCHANGED cached
    BY <1>2 DEF CallerNext, Close, Guard, Throw, CheckExit, PlaceMaker, PlaceTaker, Phantom, Verify, Price, Account, clientVars
  <2>3. QED
    BY <1>0, <2>1, <2>2
<1>3. ASSUME NEW c \in Callers, OrderNext(c)
      PROVE  OwnId'
  <2>1. ~FallbackEmit(c)
    BY DEF FallbackEmit, NoReport
  <2>2. UNCHANGED <<strayed, cached, bot>>
    BY <1>3, <2>1 DEF OrderNext, MonitorGone, MonitorFallback, MonitorDrop, FallbackCheck, FallbackCancel, FallbackTaker,
                      FallbackConfirm, FallbackUnconfirmed, caseVars, processVars
  <2>3. QED
    BY <1>0, <2>2
<1>4. ~MonitorEmit
  BY DEF MonitorEmit, NoReport
<1>5. CASE Crash
  BY <1>5 DEF Crash, OwnId, None, caseVars
<1>6. CASE QueryPositions
  BY <1>6 DEF QueryPositions, CacheAfterQuery, ListedAs, LooksOpen, OwnId, None, caseVars, processVars
<1>7. CASE SyncPositions
  BY <1>7 DEF SyncPositions, CacheAfterQuery, ListedAs, LooksOpen, AddFromChain, OwnId, InTracking, None, ConcludeGone, Gone, processVars
<1>8. ~OtherId
  BY DEF OtherId, OwnId
<1>9. CASE Reconcile
  <2>1. ~(doubt' = TRUE) /\ UNCHANGED bot
    BY <1>9 DEF Reconcile
  <2>2. UNCHANGED <<cached, strayed>>
    BY <1>9, <2>1, ReconcileShape DEF TypeOK
  <2>3. QED
    BY <1>0, <2>1, <2>2
<1>10. CASE Recover
  <2>1. ~ConcludeGone
    BY <1>10 DEF Recover, ConcludeGone, Gone, exchangeVars
  <2>2. cached' # "other"
    BY <1>10 DEF Recover, CacheAfterQuery, ListedAs, OwnId, InTheBooks, None
  <2>3. cached' = "own" /\ UNCHANGED strayed
    BY <1>10, <2>1, <2>2 DEF Recover
  <2>4. QED
    BY <2>3 DEF OwnId
<1>11. QED
  BY <1>1, <1>2, <1>3, <1>4, <1>5, <1>6, <1>7, <1>8, <1>9, <1>10 DEF Next

LEMMA KeptInit == Init => Kept
  BY DEF Init, Kept, InTheBooks, InTracking, NoReport, OwnId, None

LEMMA KeptStep == TypeOK /\ Kept /\ [Next]_vars => Kept'
<1> SUFFICES ASSUME TypeOK, Kept, [Next]_vars PROVE Kept'
  OBVIOUS
<1>1. CASE UNCHANGED vars
  BY <1>1 DEF Kept, InTheBooks, InTracking, NoReport, OwnId, Gone, vars, caseVars, exchangeVars, processVars, botVars, clientVars, dbVars
<1>2. CASE Next /\ (doubt \/ Gone)
  BY <1>2, ConcludedStays DEF Kept
<1>3. CASE Next /\ ~doubt /\ ~Gone
  <2>1. (doubt \/ Gone)' \/ ~(doubt \/ Gone)'
    OBVIOUS
  <2>2. InTheBooks /\ InTracking /\ NoReport /\ OwnId
    BY <1>3 DEF Kept
  <2>3. CASE ~(doubt \/ Gone)'
    BY <1>3, <2>2, <2>3, InTheBooksStep, InTrackingStep, NoReportStep, OwnIdStep DEF Kept
  <2>4. QED
    BY <2>1, <2>3 DEF Kept
<1>4. QED
  BY <1>1, <1>2, <1>3

\* An open position that nobody took for gone without looking keeps its row
\* and its tracking and is not booked as closed, for any number of callers,
\* restarts, outages and faults.
THEOREM OpenTradeKept == Spec => []OpenTradeIsKept
<1>1. TypeOK /\ [Next]_vars => TypeOK'
  BY TypeStep
<1>2. Kept => OpenTradeIsKept
  BY DEF Kept, OpenTradeIsKept, InTheBooks, InTracking, Gone
<1>3. QED
  BY TypeInit, <1>1, KeptInit, KeptStep, <1>2, PTL DEF Spec

-----------------------------------------------------------------------------
(* What a step does to the books: nothing, a booking begins, a position of *)
(* the chain gets its row, a booking ends, a booking is cut off.           *)

Booked == RowOrClose /\ (booking => closes >= trades)

Adds == ~booking /\ ~row /\ row' = TRUE /\ trades' = trades + 1 /\ UNCHANGED <<closes, booking>>
Ends == booking /\ ~booking' /\ ~row' /\ UNCHANGED <<trades, closes>>
CutOff == ~booking' /\ UNCHANGED <<row, trades, closes>>
BookStep == UNCHANGED <<row, trades, closes, booking>> \/ LogClose \/ Adds \/ Ends \/ CutOff

LEMMA BookSteps == Next => BookStep
<1>1. FinishClose => BookStep
  BY DEF FinishClose, BookStep, Ends
<1>2. DeleteFails => BookStep
  BY DEF DeleteFails, BookStep, CutOff
<1>3. Crash => BookStep
  BY DEF Crash, BookStep, CutOff
<1>4. ExchangeNext => BookStep
  BY DEF ExchangeNext, BookStep, clientVars, dbVars
<1>5. ASSUME NEW c \in Callers, Close(c)
       PROVE  BookStep
  BY <1>5 DEF Close, BookStep, caseVars, exchangeVars, processVars, botVars, clientVars, dbVars
<1>6. ASSUME NEW c \in Callers, Guard(c)
       PROVE  BookStep
  BY <1>6 DEF Guard, BookStep, caseVars, exchangeVars, processVars, botVars, clientVars, dbVars
<1>7. ASSUME NEW c \in Callers, Throw(c)
       PROVE  BookStep
  BY <1>7 DEF Throw, BookStep, caseVars, exchangeVars, processVars, botVars, clientVars, dbVars
<1>8. ASSUME NEW c \in Callers, CheckExit(c)
       PROVE  BookStep
  BY <1>8 DEF CheckExit, BookStep, caseVars, exchangeVars, processVars, botVars, clientVars, dbVars
<1>9. ASSUME NEW c \in Callers, PlaceMaker(c)
       PROVE  BookStep
  BY <1>9 DEF PlaceMaker, BookStep, processVars, botVars, clientVars, dbVars
<1>10. ASSUME NEW c \in Callers, PlaceTaker(c)
       PROVE  BookStep
  BY <1>10 DEF PlaceTaker, BookStep, processVars, botVars, clientVars, dbVars
<1>11. ASSUME NEW c \in Callers, Verify(c)
       PROVE  BookStep
  BY <1>11 DEF Verify, BookStep, clientVars, dbVars
<1>12. ASSUME NEW c \in Callers, Price(c)
       PROVE  BookStep
  BY <1>12 DEF Price, PositionClosedEvent, BookStep, dbVars
<1>13. ASSUME NEW c \in Callers, Account(c)
       PROVE  BookStep
  BY <1>13 DEF Account, BookStep, caseVars, exchangeVars, processVars, botVars, clientVars, dbVars
<1>14. ASSUME NEW c \in Callers, MonitorGone(c)
       PROVE  BookStep
  BY <1>14 DEF MonitorGone, BookStep, processVars, botVars, clientVars, dbVars
<1>15. ASSUME NEW c \in Callers, MonitorFallback(c)
       PROVE  BookStep
  BY <1>15 DEF MonitorFallback, BookStep, clientVars, dbVars
<1>16. ASSUME NEW c \in Callers, MonitorDrop(c)
       PROVE  BookStep
  BY <1>16 DEF MonitorDrop, BookStep, clientVars, dbVars
<1>17. ASSUME NEW c \in Callers, FallbackCheck(c)
       PROVE  BookStep
  BY <1>17 DEF FallbackCheck, BookStep, processVars, botVars, clientVars, dbVars
<1>18. ASSUME NEW c \in Callers, FallbackCancel(c)
       PROVE  BookStep
  BY <1>18 DEF FallbackCancel, BookStep, processVars, botVars, clientVars, dbVars
<1>19. ASSUME NEW c \in Callers, FallbackTaker(c)
       PROVE  BookStep
  BY <1>19 DEF FallbackTaker, BookStep, exchangeVars, processVars, botVars, clientVars, dbVars
<1>20. ASSUME NEW c \in Callers, FallbackConfirm(c)
       PROVE  BookStep
  BY <1>20 DEF FallbackConfirm, BookStep, clientVars, dbVars
<1>21. ASSUME NEW c \in Callers, FallbackUnconfirmed(c)
       PROVE  BookStep
  BY <1>21 DEF FallbackUnconfirmed, BookStep, processVars, botVars, clientVars, dbVars
<1>22. ASSUME NEW c \in Callers, FallbackEmit(c)
       PROVE  BookStep
  BY <1>22 DEF FallbackEmit, EmitPositionClosedOnce, PositionClosedEvent, BookStep, clientVars, dbVars
<1>23. MonitorEmit => BookStep
  BY DEF MonitorEmit, EmitPositionClosedOnce, PositionClosedEvent, BookStep, clientVars, dbVars
<1>24. MarkRunsOut => BookStep
  BY DEF MarkRunsOut, BookStep, dbVars
<1>25. RecordsExpire => BookStep
  BY DEF RecordsExpire, BookStep, dbVars
<1>26. ~booking /\ SyncPositions => BookStep
  BY DEF SyncPositions, AddFromChain, InsertRow, BookStep, Adds
<1>27. SubprocessExits => BookStep
  BY DEF SubprocessExits, BookStep, dbVars
<1>28. SubprocessStarts => BookStep
  BY DEF SubprocessStarts, BookStep, caseVars, exchangeVars, processVars, botVars, clientVars, dbVars
<1>29. Reconcile => BookStep
  BY DEF Reconcile, BookStep, dbVars
<1>30. ~booking /\ Recover => BookStep
  BY DEF Recover, InsertRow, BookStep, Adds, dbVars
<1>31. QueryPositions => BookStep
  BY DEF QueryPositions, CacheAfterQuery, ListedAs, BookStep, caseVars, exchangeVars, processVars, botVars, clientVars, dbVars
<1>32. OtherId => BookStep
  BY DEF OtherId, LogClose, BookStep, None, caseVars, exchangeVars, processVars, botVars, clientVars, dbVars
<1>33. QED
  BY <1>1, <1>2, <1>3, <1>4, <1>5, <1>6, <1>7, <1>8, <1>9, <1>10, <1>11, <1>12, <1>13, <1>14, <1>15, <1>16, <1>17, <1>18, <1>19, <1>20, <1>21, <1>22, <1>23, <1>24, <1>25, <1>26, <1>27, <1>28, <1>29, <1>30, <1>31, <1>32 DEF Next, CallerNext, OrderNext

LEMMA BookedStep == TypeOK /\ Booked /\ [Next]_vars => Booked'
<1> SUFFICES ASSUME CounterTypes, Booked, [Next]_vars PROVE Booked'
  BY DEF TypeOK
<1>1. CASE UNCHANGED <<row, trades, closes, booking>>
  BY <1>1 DEF Booked, RowOrClose
<1>2. CASE LogClose
  BY <1>2 DEF LogClose, Booked, RowOrClose, CounterTypes
<1>3. CASE Adds
  BY <1>3 DEF Adds, Booked, RowOrClose, CounterTypes
<1>4. CASE Ends
  BY <1>4 DEF Ends, Booked, RowOrClose
<1>5. CASE CutOff
  BY <1>5 DEF CutOff, Booked, RowOrClose
<1>6. QED
  BY <1>1, <1>2, <1>3, <1>4, <1>5, BookSteps DEF BookStep, vars, dbVars

\* The open row of a trade leaves only after the row of its close is in.
THEOREM ClosesBeforeRows == Spec => []RowOrClose
<1>1. Init => Booked
  BY DEF Init, Booked, RowOrClose
<1>2. TypeOK /\ [Next]_vars => TypeOK'
  BY TypeStep
<1>3. Booked => RowOrClose
  BY DEF Booked
<1>4. QED
  BY TypeInit, <1>1, <1>2, BookedStep, <1>3, PTL DEF Spec

-----------------------------------------------------------------------------
(* logClose writes one row and deletes another without a transaction.      *)
(* Because the bot does nothing between the two statements, the tables     *)
(* still implement a ledger in which a trade is booked in one step.        *)

\* A booking counts once its second statement is over, however it ended.
Final == IF booking THEN closes - 1 ELSE closes

Tables == INSTANCE Ledger WITH open <- row, entered <- trades, booked <- Final

LEMMA OneLess ==
    ASSUME NEW n \in Nat, NEW t \in Nat \ {0}, n >= t
    PROVE  n - 1 \in Nat /\ (n - 1) + 1 = n /\ (n + 1) - 1 = n
OBVIOUS

LEMMA TablesInit == Init => Tables!Init
BY DEF Init, Tables!Init, Final

LEMMA TablesStep ==
    ASSUME TypeOK, TypeOK', Booked, [Next]_vars
    PROVE  [Tables!Next]_(Tables!vars)
<1> USE DEF Tables!vars
<1>0. closes \in Nat /\ trades \in Nat \ {0} /\ row \in BOOLEAN /\ booking \in BOOLEAN
  BY CloseAssumption DEF TypeOK, CounterTypes, FlagTypes
<1>1. booking => closes - 1 \in Nat /\ (closes - 1) + 1 = closes
  BY <1>0, OneLess DEF Booked
<1>2. CASE UNCHANGED <<row, trades, closes, booking>>
  BY <1>2 DEF Final
<1>3. CASE LogClose
  <2>1. CASE closes' = closes + 1 /\ booking' = TRUE /\ UNCHANGED <<row, trades, faults>>
    <3>1. Final' = closes
      BY <1>0, <2>1 DEF Final
    <3>2. CASE booking
      BY <1>1, <2>1, <3>1, <3>2 DEF Final, Tables!Next, Tables!BookOnly
    <3>3. CASE ~booking
      BY <2>1, <3>1, <3>3 DEF Final
    <3>4. QED
      BY <3>2, <3>3
  <2>2. CASE UNCHANGED <<row, trades, closes, booking>>
    BY <1>2, <2>2
  <2>3. QED
    BY <1>3, <2>1, <2>2 DEF LogClose
<1>4. CASE Adds
  BY <1>0, <1>4 DEF Adds, Final, Tables!Next, Tables!Enter
<1>5. CASE Ends
  <2>1. Final' = Final + 1
    BY <1>1, <1>5 DEF Ends, Final
  <2>2. row' = FALSE /\ trades' = trades
    BY <1>5 DEF Ends, TypeOK, FlagTypes
  <2>3. CASE row
    BY <2>1, <2>2, <2>3 DEF Tables!Next, Tables!Book
  <2>4. CASE ~row
    BY <1>0, <2>1, <2>2, <2>4 DEF Tables!Next, Tables!BookOnly
  <2>5. QED
    BY <2>3, <2>4
<1>6. CASE CutOff
  <2>1. CASE booking
    BY <1>1, <1>6, <2>1 DEF CutOff, Final, Tables!Next, Tables!BookOnly
  <2>2. CASE ~booking
    BY <1>6, <2>2 DEF CutOff, Final
  <2>3. QED
    BY <2>1, <2>2
<1>7. QED
  BY <1>2, <1>3, <1>4, <1>5, <1>6, BookSteps DEF BookStep, vars, dbVars

\* The two statements of db.logClose, the inserts of the sync and of the
\* recovery, and everything that fails or dies between them, implement the
\* ledger: a booking that is cut off leaves its trade entered, and no step of
\* anything else falls between the two statements.
THEOREM ImplementsLedger == Spec => Tables!Spec
<1>1. Init => Booked
  BY DEF Init, Booked, RowOrClose
<1>2. TypeOK /\ [Next]_vars => TypeOK'
  BY TypeStep
<1>3. TypeOK /\ TypeOK' /\ Booked /\ [Next]_vars => [Tables!Next]_(Tables!vars)
  BY TablesStep
<1>4. QED
  BY TypeInit, <1>1, <1>2, <1>3, BookedStep, TablesInit, PTL DEF Spec, Tables!Spec

LEMMA LedgerBalances == Tables!Spec => []Tables!Balanced
<1>1. Tables!Init => Tables!Balanced
  BY DEF Tables!Init, Tables!Balanced, Tables!NothingVanishes
<1>2. Tables!Balanced /\ [Tables!Next]_(Tables!vars) => Tables!Balanced'
  <2> SUFFICES ASSUME Tables!Balanced, [Tables!Next]_(Tables!vars) PROVE Tables!Balanced'
    OBVIOUS
  <2>1. CASE Tables!Enter
    BY <2>1 DEF Tables!Enter, Tables!Balanced, Tables!NothingVanishes
  <2>2. CASE Tables!Book
    <3>1. row /\ row' = FALSE /\ trades' = trades /\ Final' = Final + 1
      BY <2>2 DEF Tables!Book
    <3>2. trades \in Nat /\ Final \in Nat /\ trades <= Final + 1
      BY <3>1 DEF Tables!Balanced, Tables!NothingVanishes
    <3> HIDE DEF Final
    <3>3. Final + 1 \in Nat
      BY <3>2
    <3>4. trades' \in Nat /\ Final' \in Nat /\ trades' <= Final'
      BY <3>1, <3>2, <3>3
    <3>5. QED
      BY <3>1, <3>4 DEF Tables!Balanced, Tables!NothingVanishes
  <2>3. CASE Tables!BookOnly
    BY <2>3 DEF Tables!BookOnly, Tables!Balanced, Tables!NothingVanishes
  <2>4. CASE UNCHANGED Tables!vars
    BY <2>4 DEF Tables!vars, Tables!Balanced, Tables!NothingVanishes
  <2>5. QED
    BY <2>1, <2>2, <2>3, <2>4 DEF Tables!Next
<1>3. QED
  BY <1>1, <1>2, PTL DEF Tables!Spec

\* Proved of every ledger and carried over: a trade that got a row still has
\* it or has a booking that is over.  Also in the middle of logClose, where
\* RowOrClose counts a close that may yet be cut off.
THEOREM TradesDoNotVanish == Spec => []Tables!NothingVanishes
<1>1. Tables!Balanced => Tables!NothingVanishes
  BY DEF Tables!Balanced
<1>2. QED
  BY <1>1, ImplementsLedger, LedgerBalances, PTL

-----------------------------------------------------------------------------
(* Why a trade is booked once.  What may still book the close of the       *)
(* position is counted: each caller beyond the guard, the pending record   *)
(* that the next event takes, and the call that the guard would let pass.  *)
(* A step that adds to the count, or books without taking from it, comes   *)
(* with a new trade, a fault or a record that ran out.  Once the position  *)
(* has strayed the count says nothing more.                                *)

AtWork == {c \in Callers : pc[c] \notin {"idle", "guard"}}
Unbooked == row /\ ~booking
MayStart == ~mark /\ (Unbooked \/ \E c \in Callers : pc[c] = "guard")
One(b) == IF b THEN 1 ELSE 0
ToBook == Cardinality(AtWork) + One(pending) + One(MayStart)
Allowed == trades + faults + runouts

Counted ==
    /\ IsFiniteSet(AtWork)
    /\ closes + ToBook <= Allowed
    /\ closes + One(Unbooked) <= Allowed

\* A position that has not strayed and is tracked has its row, and a bot that
\* recovers does nothing else.
Settled ==
    /\ strayed \/ (tracked => row)
    /\ bot = "recovering" => ~pending /\ ~mark /\ \A c \in Callers : pc[c] = "idle"

\* What a step does to the count.
SameAllowance == UNCHANGED <<trades, faults, runouts>>
NoMoreWork == AtWork' \subseteq AtWork /\ (pending' => pending)
OneLessAtWork == \E c \in AtWork : AtWork' \subseteq AtWork \ {c}

Quiet == SameAllowance /\ UNCHANGED closes /\ NoMoreWork /\ (MayStart' => MayStart) /\ (Unbooked' => Unbooked)
Starts == /\ SameAllowance /\ UNCHANGED <<closes, pending, row, booking>>
          /\ MayStart /\ ~MayStart' /\ \E c \in Callers : AtWork' \subseteq AtWork \cup {c}
HandsOver == /\ SameAllowance /\ UNCHANGED <<closes, row, booking>>
             /\ OneLessAtWork /\ (MayStart' => MayStart)
Books == /\ SameAllowance /\ closes' = closes + 1 /\ ~Unbooked' /\ (MayStart' => MayStart)
         /\ \/ OneLessAtWork /\ (pending' => pending)
            \/ pending /\ ~pending' /\ AtWork' \subseteq AtWork
Clears == /\ SameAllowance /\ AtWork' = {} /\ ~pending' /\ (MayStart' => Unbooked')
          /\ closes' + One(Unbooked') <= closes + One(Unbooked)
Allows == Allowed' = Allowed + 1 /\ UNCHANGED closes /\ NoMoreWork
CountStep == Quiet \/ Starts \/ HandsOver \/ Books \/ Clears \/ Allows

LEMMA SumType == \A i, j, k \in Nat : i + j + k \in Nat
  OBVIOUS

LEMMA CountedStep == TypeOK /\ TypeOK' /\ Counted /\ CountStep => Counted'
<1> SUFFICES ASSUME CounterTypes, CounterTypes', Counted, CountStep PROVE Counted'
  BY DEF TypeOK
<1> DEFINE n == Cardinality(AtWork)
           n1 == Cardinality(AtWork')
<1>1. n \in Nat /\ IsFiniteSet(AtWork)
  BY FS_CardinalityType DEF Counted
<1>2. closes \in Nat /\ closes' \in Nat /\ Allowed \in Nat /\ Allowed' \in Nat
  <2>1. closes \in Nat /\ trades \in Nat /\ faults \in Nat /\ runouts \in Nat
    BY CloseAssumption DEF CounterTypes
  <2>2. closes' \in Nat /\ trades' \in Nat /\ faults' \in Nat /\ runouts' \in Nat
    BY CloseAssumption DEF CounterTypes
  <2>3. Allowed = trades + faults + runouts /\ Allowed' = trades' + faults' + runouts'
    BY DEF Allowed
  <2>4. Allowed \in Nat
    BY <2>1, <2>3, SumType
  <2>5. Allowed' \in Nat
    BY <2>2, <2>3, SumType
  <2>6. QED
    BY <2>1, <2>2, <2>4, <2>5
<1>3. /\ closes + (n + One(pending) + One(MayStart)) <= Allowed
      /\ closes + One(Unbooked) <= Allowed
  BY DEF Counted, ToBook
<1>4. ASSUME IsFiniteSet(AtWork'),
             closes' + (n1 + One(pending') + One(MayStart')) <= Allowed',
             closes' + One(Unbooked') <= Allowed'
      PROVE  Counted'
  BY <1>4 DEF Counted, ToBook, One
<1>5. ASSUME AtWork' \subseteq AtWork
      PROVE  IsFiniteSet(AtWork') /\ n1 \in Nat /\ n1 <= n
  BY <1>1, <1>5, FS_Subset, FS_CardinalityType
<1>6. ASSUME OneLessAtWork
      PROVE  IsFiniteSet(AtWork') /\ n1 \in Nat /\ n1 + 1 <= n
  <2>1. PICK c \in AtWork : AtWork' \subseteq AtWork \ {c}
    BY <1>6 DEF OneLessAtWork
  <2>2. IsFiniteSet(AtWork \ {c}) /\ Cardinality(AtWork \ {c}) = n - 1
    BY <1>1, FS_RemoveElement
  <2>3. IsFiniteSet(AtWork') /\ n1 <= n - 1
    BY <2>1, <2>2, FS_Subset
  <2>4. QED
    BY <1>1, <2>3, FS_CardinalityType
<1>7. SameAllowance => Allowed' = Allowed
  BY DEF SameAllowance, Allowed
<1>8. UNCHANGED <<row, booking>> => Unbooked' = Unbooked
  BY DEF Unbooked
<1> HIDE DEF n, n1
<1>9. CASE Quiet
  <2>1. n1 <= n /\ n1 \in Nat /\ IsFiniteSet(AtWork')
    BY <1>9, <1>5 DEF Quiet, NoMoreWork
  <2>2. /\ closes' + (n1 + One(pending') + One(MayStart')) <= Allowed'
        /\ closes' + One(Unbooked') <= Allowed'
    BY <1>1, <1>2, <1>3, <1>7, <1>9, <2>1 DEF Quiet, NoMoreWork, One
  <2>3. QED
    BY <1>4, <2>1, <2>2
<1>10. CASE Starts
  <2>1. PICK c \in Callers : AtWork' \subseteq AtWork \cup {c}
    BY <1>10 DEF Starts
  <2>2. IsFiniteSet(AtWork \cup {c}) /\ (Cardinality(AtWork \cup {c}) = n \/ Cardinality(AtWork \cup {c}) = n + 1)
    BY <1>1, FS_AddElement DEF n
  <2>3. IsFiniteSet(AtWork') /\ n1 \in Nat /\ n1 <= Cardinality(AtWork \cup {c})
    BY <2>1, <2>2, FS_Subset, FS_CardinalityType DEF n1
  <2>4. n1 <= n + 1
    BY <1>1, <2>2, <2>3
  <2>5. closes' + (n1 + One(pending') + One(MayStart')) <= Allowed'
    BY <1>1, <1>2, <1>3, <1>7, <1>10, <2>3, <2>4 DEF Starts, One
  <2>6. closes' + One(Unbooked') <= Allowed'
    BY <1>2, <1>3, <1>7, <1>8, <1>10 DEF Starts
  <2>7. QED
    BY <1>4, <2>3, <2>5, <2>6
<1>11. CASE HandsOver
  <2>1. n1 + 1 <= n /\ n1 \in Nat /\ IsFiniteSet(AtWork')
    BY <1>11, <1>6 DEF HandsOver
  <2>2. closes' + (n1 + One(pending') + One(MayStart')) <= Allowed'
    BY <1>1, <1>2, <1>3, <1>7, <1>11, <2>1 DEF HandsOver, One
  <2>3. closes' + One(Unbooked') <= Allowed'
    BY <1>2, <1>3, <1>7, <1>8, <1>11 DEF HandsOver
  <2>4. QED
    BY <1>4, <2>1, <2>2, <2>3
<1>12. CASE Books
  <2>1. IsFiniteSet(AtWork') /\ n1 \in Nat /\ n1 + One(pending') + 1 <= n + One(pending)
    <3>1. CASE OneLessAtWork /\ (pending' => pending)
      BY <1>1, <1>6, <3>1 DEF One
    <3>2. CASE pending /\ ~pending' /\ AtWork' \subseteq AtWork
      BY <1>1, <1>5, <3>2 DEF One
    <3>3. QED
      BY <1>12, <3>1, <3>2 DEF Books
  <2>2. closes' + (n1 + One(pending') + One(MayStart')) <= Allowed'
    BY <1>1, <1>2, <1>3, <1>7, <1>12, <2>1 DEF Books, One
  <2>3. closes' + One(Unbooked') <= Allowed'
    BY <1>2, <1>3, <1>7, <1>1, <1>12, <2>1, <2>2 DEF Books, One
  <2>4. QED
    BY <1>4, <2>1, <2>2, <2>3
<1>13. CASE Clears
  <2>1. IsFiniteSet(AtWork') /\ n1 = 0
    BY <1>13, FS_EmptySet DEF Clears, n1
  <2>2. closes' + One(Unbooked') <= Allowed'
    <3>1. One(Unbooked) \in Nat /\ One(Unbooked') \in Nat
      BY DEF One
    <3>2. closes' + One(Unbooked') <= closes + One(Unbooked) /\ Allowed' = Allowed
      BY <1>7, <1>13 DEF Clears
    <3>3. QED
      BY <1>2, <1>3, <3>1, <3>2
  <2>3. One(pending') = 0 /\ One(MayStart') \in Nat /\ One(MayStart') <= One(Unbooked') /\ One(Unbooked') \in Nat
    BY <1>13 DEF Clears, One
  <2>4. closes' + (n1 + One(pending') + One(MayStart')) <= Allowed'
    BY <1>2, <2>1, <2>2, <2>3
  <2>5. QED
    BY <1>4, <2>1, <2>2, <2>4
<1>14. CASE Allows
  <2>1. n1 <= n /\ n1 \in Nat /\ IsFiniteSet(AtWork')
    BY <1>14, <1>5 DEF Allows, NoMoreWork
  <2>2. closes' + (n1 + One(pending') + One(MayStart')) <= Allowed'
    BY <1>1, <1>2, <1>3, <1>14, <2>1 DEF Allows, NoMoreWork, One
  <2>3. closes' + One(Unbooked') <= Allowed'
    BY <1>2, <1>3, <1>14 DEF Allows, One
  <2>4. QED
    BY <1>4, <2>1, <2>2, <2>3
<1>15. QED
  BY <1>9, <1>10, <1>11, <1>12, <1>13, <1>14 DEF CountStep

\* Where the callers are, before and after a step that moves at most one.
AtGuard == \E c \in Callers : pc[c] = "guard"
NoneStarts == AtWork' \subseteq AtWork /\ (AtGuard' => AtGuard)

LEMMA StandStill == UNCHANGED pc => NoneStarts
  BY DEF NoneStarts, AtWork, AtGuard

LEMMA MovesOn ==
  ASSUME TypeOK, NEW c \in Callers, pc[c] \notin {"idle", "guard"},
         NEW s \in CallerSteps \ {"guard"}, pc' = [pc EXCEPT ![c] = s]
  PROVE  NoneStarts /\ c \in AtWork /\ (s = "idle" => AtWork' \subseteq AtWork \ {c})
<1>1. \A d \in Callers : pc'[d] = IF d = c THEN s ELSE pc[d]
  BY DEF TypeOK, StateTypes
<1>2. AtGuard' => AtGuard
  BY <1>1 DEF AtGuard
<1>3. QED
  BY <1>1, <1>2 DEF NoneStarts, AtWork

\* The step leaves the books, the marks and the records as they are.
LeavesBooks == UNCHANGED <<trades, closes, faults, runouts, row, booking, mark, pending>>

LEMMA QuietStep == LeavesBooks /\ NoneStarts => Quiet
  BY DEF LeavesBooks, NoneStarts, Quiet, SameAllowance, NoMoreWork, MayStart, Unbooked, AtGuard

LEMMA QuietWait == LeavesBooks /\ UNCHANGED pc => CountStep
  BY QuietStep, StandStill DEF CountStep

\* One more fault, record run out or trade.
LEMMA MoreAllowed ==
  ASSUME TypeOK, \/ faults' = faults + 1 /\ UNCHANGED <<trades, runouts>>
                 \/ runouts' = runouts + 1 /\ UNCHANGED <<trades, faults>>
                 \/ trades' = trades + 1 /\ UNCHANGED <<faults, runouts>>
  PROVE  Allowed' = Allowed + 1
<1>1. trades \in Nat /\ faults \in Nat /\ runouts \in Nat
  BY CloseAssumption DEF TypeOK, CounterTypes
<1>2. QED
  BY <1>1 DEF Allowed

\* logClose takes from the count, or fails.
LEMMA LogCloseCounts ==
  ASSUME TypeOK, LogClose, UNCHANGED <<runouts, mark>>, NoneStarts,
         \/ OneLessAtWork /\ (pending' => pending)
         \/ pending /\ ~pending'
  PROVE  CountStep
<1>1. CASE closes' = closes + 1 /\ booking' = TRUE /\ UNCHANGED <<row, trades, faults>>
  <2>1. SameAllowance /\ ~Unbooked' /\ (MayStart' => MayStart)
    BY <1>1 DEF SameAllowance, Unbooked, MayStart, NoneStarts, AtGuard
  <2>2. Books
    BY <1>1, <2>1 DEF Books, NoneStarts
  <2>3. QED
    BY <2>2 DEF CountStep
<1>2. CASE faults' = faults + 1 /\ UNCHANGED <<row, trades, closes, booking>>
  <2>1. Allowed' = Allowed + 1
    BY <1>2, MoreAllowed
  <2>2. Allows
    BY <1>2, <2>1 DEF Allows, NoMoreWork, NoneStarts
  <2>3. QED
    BY <2>2 DEF CountStep
<1>3. QED
  BY <1>1, <1>2 DEF LogClose

LEMMA EventCounts ==
  ASSUME TypeOK, PositionClosedEvent, NoneStarts
  PROVE  CountStep
<1>1. CASE pending /\ pending' = FALSE /\ LogClose
  BY <1>1, LogCloseCounts DEF PositionClosedEvent
<1>2. CASE UNCHANGED dbVars /\ (pending' => pending)
  <2>1. Quiet
    BY <1>2 DEF PositionClosedEvent, dbVars, NoneStarts, Quiet, SameAllowance, NoMoreWork, MayStart, Unbooked, AtGuard
  <2>2. QED
    BY <2>1 DEF CountStep
<1>3. (UNCHANGED dbVars /\ (pending' => pending)) \/ (pending /\ pending' = FALSE /\ LogClose)
  BY DEF PositionClosedEvent
<1>4. QED
  BY <1>1, <1>2, <1>3

LEMMA EmitCounts ==
  ASSUME TypeOK, EmitPositionClosedOnce, UNCHANGED pc
  PROVE  CountStep
<1>1. CASE UNCHANGED <<botVars, dbVars>>
  BY <1>1, QuietWait DEF LeavesBooks, botVars, dbVars
<1>2. CASE PositionClosedEvent
  BY <1>2, EventCounts, StandStill
<1>3. QED
  BY <1>1, <1>2 DEF EmitPositionClosedOnce

\* A position of the chain that gets a row is one more trade.
LEMMA AddCounts ==
  ASSUME TypeOK, trades' = trades + 1,
         UNCHANGED <<pc, mark, pending, runouts, faults, closes, booking>>
  PROVE  CountStep
<1>1. Allowed' = Allowed + 1
  BY MoreAllowed
<1>2. Allows
  BY <1>1, StandStill DEF Allows, NoMoreWork, NoneStarts
<1>3. QED
  BY <1>2 DEF CountStep

LEMMA CallerCounts ==
  ASSUME TypeOK, Settled, ~strayed, NEW c \in Callers, CallerNext(c), ~booking
  PROVE  CountStep
<1> pc[c] \in CallerSteps
  BY DEF TypeOK, StateTypes
<1>1. CASE Close(c)
  <2>1. AtWork' = AtWork
    BY <1>1 DEF Close, AtWork, TypeOK, StateTypes
  <2>2. SameAllowance /\ UNCHANGED <<closes, pending, mark, row, booking>>
    BY <1>1 DEF Close, SameAllowance, botVars, dbVars
  <2>3. Unbooked
    BY <1>1 DEF Close, Settled, Unbooked
  <2>4. MayStart' => MayStart
    BY <2>2, <2>3 DEF MayStart
  <2>5. Quiet
    BY <2>1, <2>2, <2>4 DEF Quiet, NoMoreWork, Unbooked
  <2>6. QED
    BY <2>5 DEF CountStep
<1>2. CASE Guard(c)
  <2>1. SameAllowance /\ UNCHANGED <<closes, pending, row, booking>>
    BY <1>2 DEF Guard, SameAllowance, dbVars
  <2>2. CASE pc' = [pc EXCEPT ![c] = "idle"] /\ UNCHANGED mark
    <3>1. NoneStarts
      BY <1>2, <2>2 DEF Guard, NoneStarts, AtWork, AtGuard, TypeOK, StateTypes
    <3>2. LeavesBooks
      BY <2>1, <2>2 DEF SameAllowance, LeavesBooks
    <3>3. QED
      BY <3>1, <3>2, QuietStep DEF CountStep
  <2>3. CASE ~mark /\ mark' = TRUE /\ pc' = [pc EXCEPT ![c] = "client"]
    <3>1. AtWork' \subseteq AtWork \cup {c}
      BY <2>3 DEF AtWork, TypeOK, StateTypes
    <3>2. MayStart /\ ~MayStart'
      BY <1>2, <2>3 DEF Guard, MayStart
    <3>3. QED
      BY <2>1, <3>1, <3>2 DEF Starts, CountStep
  <2>4. QED
    BY <1>2, <2>2, <2>3 DEF Guard
<1>3. CASE Throw(c)
  <2>1. LeavesBooks
    BY <1>3 DEF Throw, LeavesBooks, botVars, dbVars
  <2>2. NoneStarts
    BY <1>3, MovesOn DEF Throw, CallerSteps
  <2>3. QED
    BY <2>1, <2>2, QuietStep DEF CountStep
<1>4. CASE CheckExit(c)
  <2>1. LeavesBooks
    BY <1>4 DEF CheckExit, LeavesBooks, botVars, dbVars
  <2>2. \E s \in {"idle", "maker", "taker"} : pc' = [pc EXCEPT ![c] = s]
    BY <1>4 DEF CheckExit
  <2>3. NoneStarts
    BY <1>4, <2>2, MovesOn DEF CheckExit, CallerSteps
  <2>4. QED
    BY <2>1, <2>3, QuietStep DEF CountStep
<1>5. CASE PlaceMaker(c)
  <2>1. SameAllowance /\ UNCHANGED <<closes, mark, row, booking>> /\ pc[c] \notin {"idle", "guard"}
    BY <1>5 DEF PlaceMaker, Phantom, SameAllowance, botVars, dbVars
  <2>2. CASE pc' = [pc EXCEPT ![c] = "idle"]
    <3>1. NoneStarts /\ OneLessAtWork
      BY <2>1, <2>2, MovesOn DEF CallerSteps, OneLessAtWork
    <3>2. HandsOver
      BY <2>1, <3>1 DEF HandsOver, NoneStarts, MayStart, Unbooked, AtGuard
    <3>3. QED
      BY <3>2 DEF CountStep
  <2>3. CASE UNCHANGED pending /\ \E s \in {"account", "taker"} : pc' = [pc EXCEPT ![c] = s]
    <3>1. NoneStarts
      BY <2>1, <2>3, MovesOn DEF CallerSteps
    <3>2. LeavesBooks
      BY <2>1, <2>3 DEF LeavesBooks, SameAllowance
    <3>3. QED
      BY <3>1, <3>2, QuietStep DEF CountStep
  <2>4. QED
    BY <1>5, <2>2, <2>3 DEF PlaceMaker, Phantom, botVars
<1>6. CASE PlaceTaker(c)
  <2>1. LeavesBooks /\ pc[c] \notin {"idle", "guard"}
    BY <1>6 DEF PlaceTaker, Phantom, LeavesBooks, botVars, dbVars
  <2>2. \E s \in {"account", "verify", "client"} : pc' = [pc EXCEPT ![c] = s]
    BY <1>6 DEF PlaceTaker, Phantom
  <2>3. NoneStarts
    BY <2>1, <2>2, MovesOn DEF CallerSteps
  <2>4. QED
    BY <2>1, <2>3, QuietStep DEF CountStep
<1>7. CASE Verify(c)
  <2>1. LeavesBooks /\ pc[c] \notin {"idle", "guard"}
    BY <1>7 DEF Verify, LeavesBooks, botVars, dbVars
  <2>2. \E s \in {"price", "idle"} : pc' = [pc EXCEPT ![c] = s]
    BY <1>7 DEF Verify
  <2>3. NoneStarts
    BY <2>1, <2>2, MovesOn DEF CallerSteps
  <2>4. QED
    BY <2>1, <2>3, QuietStep DEF CountStep
<1>8. CASE Price(c)
  <2>1. NoneStarts
    BY <1>8, MovesOn DEF Price, CallerSteps
  <2>2. QED
    BY <1>8, <2>1, EventCounts DEF Price
<1>9. CASE Account(c)
  <2>1. NoneStarts /\ OneLessAtWork
    BY <1>9, MovesOn DEF Account, CallerSteps, OneLessAtWork
  <2>2. CASE LogClose
    BY <1>9, <2>1, <2>2, LogCloseCounts DEF Account, botVars
  <2>3. CASE UNCHANGED dbVars
    <3>1. LeavesBooks
      BY <1>9, <2>3 DEF Account, LeavesBooks, botVars, dbVars
    <3>2. QED
      BY <2>1, <3>1, QuietStep DEF CountStep
  <2>4. QED
    BY <1>9, <2>2, <2>3 DEF Account
<1>10. QED
  BY <1>1, <1>2, <1>3, <1>4, <1>5, <1>6, <1>7, <1>8, <1>9 DEF CallerNext

LEMMA OrderCounts ==
  ASSUME TypeOK, NEW c \in Callers, OrderNext(c)
  PROVE  CountStep
<1>1. CASE MonitorGone(c)
  BY <1>1, QuietWait DEF MonitorGone, LeavesBooks, botVars, dbVars
<1>2. CASE MonitorFallback(c)
  BY <1>2, QuietWait DEF MonitorFallback, LeavesBooks, botVars, dbVars
<1>3. CASE MonitorDrop(c)
  BY <1>3, QuietWait DEF MonitorDrop, LeavesBooks, botVars, dbVars
<1>4. CASE FallbackCheck(c)
  BY <1>4, QuietWait DEF FallbackCheck, LeavesBooks, botVars, dbVars
<1>5. CASE FallbackCancel(c)
  BY <1>5, QuietWait DEF FallbackCancel, LeavesBooks, botVars, dbVars
<1>6. CASE FallbackTaker(c)
  BY <1>6, QuietWait DEF FallbackTaker, LeavesBooks, botVars, dbVars
<1>7. CASE FallbackConfirm(c)
  BY <1>7, QuietWait DEF FallbackConfirm, LeavesBooks, botVars, dbVars
<1>8. CASE FallbackUnconfirmed(c)
  BY <1>8, QuietWait DEF FallbackUnconfirmed, LeavesBooks, botVars, dbVars
<1>9. CASE FallbackEmit(c)
  BY <1>9, EmitCounts DEF FallbackEmit
<1>10. QED
  BY <1>1, <1>2, <1>3, <1>4, <1>5, <1>6, <1>7, <1>8, <1>9 DEF OrderNext

\* A step that ends in one more fault, record run out or trade.
LEMMA MishapCounts ==
  ASSUME TypeOK, NoneStarts, pending' => pending, UNCHANGED closes,
         \/ faults' = faults + 1 /\ UNCHANGED <<trades, runouts>>
         \/ runouts' = runouts + 1 /\ UNCHANGED <<trades, faults>>
  PROVE  CountStep
<1>1. Allowed' = Allowed + 1
  BY MoreAllowed
<1>2. QED
  BY <1>1 DEF Allows, NoMoreWork, NoneStarts, CountStep

LEMMA CrashCounts == TypeOK /\ Crash => CountStep
<1> SUFFICES ASSUME TypeOK, Crash PROVE CountStep
  OBVIOUS
<1>1. AtWork' = {} /\ ~AtGuard' /\ NoneStarts
  BY DEF Crash, AtWork, AtGuard, NoneStarts
<1>2. CASE booking
  BY <1>1, <1>2, MishapCounts DEF Crash
<1>3. CASE ~booking
  <2>1. SameAllowance /\ ~pending' /\ UNCHANGED <<closes, row>> /\ ~booking'
    BY <1>3 DEF Crash, SameAllowance
  <2>2. Unbooked' = Unbooked /\ (MayStart' => Unbooked')
    BY <1>1, <1>3, <2>1 DEF Unbooked, MayStart, AtGuard, TypeOK, FlagTypes
  <2>3. closes' + One(Unbooked') <= closes + One(Unbooked)
    BY <2>1, <2>2 DEF One, TypeOK, CounterTypes
  <2>4. QED
    BY <1>1, <2>1, <2>2, <2>3 DEF Clears, CountStep
<1>4. QED
  BY <1>2, <1>3

LEMMA RecoverCounts == TypeOK /\ Settled /\ ~booking /\ Recover => CountStep
<1> SUFFICES ASSUME TypeOK, Settled, ~booking, Recover PROVE CountStep
  OBVIOUS
<1>1. UNCHANGED <<pc, mark, pending, runouts>> /\ ~pending /\ \A c \in Callers : pc[c] = "idle"
  BY DEF Recover, Settled
<1>2. CASE RecoverAdds
  BY <1>1, <1>2, AddCounts DEF RecoverAdds
<1>3. CASE row /\ LogClose
  <2>1. AtWork' = {} /\ ~AtGuard'
    BY <1>1 DEF AtWork, AtGuard
  <2>2. CASE closes' = closes + 1 /\ booking' = TRUE /\ UNCHANGED <<row, trades, faults>>
    <3>1. Unbooked /\ ~Unbooked' /\ ~MayStart'
      BY <1>3, <2>1, <2>2 DEF Unbooked, MayStart, AtGuard
    <3>2. closes' + One(Unbooked') <= closes + One(Unbooked)
      BY <2>2, <3>1 DEF One, TypeOK, CounterTypes
    <3>3. QED
      BY <1>1, <2>1, <2>2, <3>1, <3>2 DEF Clears, SameAllowance, CountStep
  <2>3. CASE faults' = faults + 1 /\ UNCHANGED <<row, trades, closes, booking>>
    BY <1>1, <2>3, StandStill, MishapCounts
  <2>4. QED
    BY <1>3, <2>2, <2>3 DEF LogClose
<1>4. CASE UNCHANGED dbVars
  BY <1>1, <1>4, QuietWait DEF LeavesBooks, dbVars
<1>5. QED
  BY <1>2, <1>3, <1>4, RecoverShape DEF TypeOK

LEMMA CountSteps == TypeOK /\ Settled /\ ~strayed /\ Next => CountStep
<1> SUFFICES ASSUME TypeOK, Settled, ~strayed, Next PROVE CountStep
  OBVIOUS
<1>1. CASE FinishClose
  <2>1. SameAllowance /\ UNCHANGED <<closes, pc, mark, pending>> /\ ~Unbooked'
    BY <1>1 DEF FinishClose, SameAllowance, Unbooked
  <2>2. Quiet
    BY <2>1, StandStill DEF Quiet, NoMoreWork, NoneStarts, MayStart, AtGuard
  <2>3. QED
    BY <2>2 DEF CountStep
<1>2. CASE DeleteFails
  BY <1>2, StandStill, MishapCounts DEF DeleteFails, botVars
<1>3. CASE Crash
  BY <1>3, CrashCounts
<1>4. CASE ExchangeNext
  BY <1>4, QuietWait DEF ExchangeNext, LeavesBooks, botVars, dbVars
<1>5. CASE ~booking /\ \E c \in Callers : CallerNext(c) \/ OrderNext(c)
  BY <1>5, CallerCounts, OrderCounts
<1>6. CASE MonitorEmit
  BY <1>6, EmitCounts DEF MonitorEmit
<1>7. CASE MarkRunsOut
  BY <1>7, StandStill, MishapCounts DEF MarkRunsOut, dbVars
<1>8. CASE RecordsExpire
  BY <1>8, StandStill, MishapCounts DEF RecordsExpire, dbVars
<1>9. CASE SyncPositions
  <2>1. UNCHANGED <<pc, mark, pending, runouts, faults, closes, booking>>
    BY <1>9 DEF SyncPositions
  <2>2. CASE trades' = trades + 1
    BY <2>1, <2>2, AddCounts
  <2>3. CASE UNCHANGED <<row, trades>>
    BY <2>1, <2>3, QuietWait DEF LeavesBooks
  <2>4. QED
    BY <1>9, <2>2, <2>3, SyncShape DEF TypeOK
<1>10. CASE SubprocessExits
  BY <1>10, QuietWait DEF SubprocessExits, LeavesBooks, botVars, dbVars
<1>11. CASE SubprocessStarts
  BY <1>11, QuietWait DEF SubprocessStarts, LeavesBooks, botVars, dbVars
<1>12. CASE Reconcile
  BY <1>12, QuietWait DEF Reconcile, LeavesBooks, botVars, dbVars
<1>13. CASE ~booking /\ Recover
  BY <1>13, RecoverCounts
<1>14. CASE QueryPositions
  BY <1>14, QuietWait DEF QueryPositions, LeavesBooks, botVars, dbVars
<1>15. ~OtherId
  BY DEF OtherId
<1>16. QED
  BY <1>1, <1>2, <1>3, <1>4, <1>5, <1>6, <1>7, <1>8, <1>9, <1>10, <1>11, <1>12, <1>13, <1>14, <1>15 DEF Next

\* How a step leaves tracking, the rows and a bot that recovers.
KeepsRow ==
    \/ strayed'
    \/ (tracked' => tracked) /\ (row => row')
    \/ ~tracked'
    \/ row'
KeepsStill ==
    bot' = "recovering" =>
        \/ ~pending' /\ ~mark' /\ \A c \in Callers : pc'[c] = "idle"
        \/ bot = "recovering" /\ (pending' => pending) /\ (mark' => mark) /\ UNCHANGED pc
SettledShape == KeepsRow /\ KeepsStill

LEMMA StraysForGood == TypeOK /\ [Next]_vars /\ strayed => strayed'
<1> SUFFICES ASSUME FlagTypes, [Next]_vars, strayed PROVE strayed'
  BY DEF TypeOK
<1>1. CASE UNCHANGED caseVars
  BY <1>1 DEF caseVars
<1>2. CASE SyncPositions
  BY <1>2 DEF SyncPositions, AddFromChain
<1>3. CASE Reconcile
  BY <1>3, ReconcileShape
<1>4. CASE Recover
  BY <1>4 DEF Recover
<1>5. ASSUME NEW c \in Callers, CallerNext(c)
      PROVE  UNCHANGED caseVars
  BY <1>5 DEF CallerNext, Close, Guard, Throw, CheckExit, PlaceMaker, PlaceTaker, Verify, Price, Account
<1>6. ASSUME NEW c \in Callers, OrderNext(c)
      PROVE  UNCHANGED caseVars
  BY <1>6 DEF OrderNext, MonitorGone, MonitorFallback, MonitorDrop, FallbackCheck, FallbackCancel, FallbackTaker,
              FallbackConfirm, FallbackUnconfirmed, FallbackEmit
<1>7. QED
  BY <1>1, <1>2, <1>3, <1>4, <1>5, <1>6
  DEF Next, FinishClose, DeleteFails, Crash, ExchangeNext, MonitorEmit, MarkRunsOut, RecordsExpire,
      QueryPositions, OtherId, SubprocessExits, SubprocessStarts, vars

LEMMA SettledKept == TypeOK /\ [Next]_vars /\ Settled /\ SettledShape => Settled'
  BY StraysForGood DEF Settled, SettledShape, KeepsRow, KeepsStill

LEMMA WaitSettles ==
  UNCHANGED <<row, bot, pc>> /\ (tracked' => tracked) /\ (pending' => pending) /\ (mark' => mark) => SettledShape
  BY DEF SettledShape, KeepsRow, KeepsStill

LEMMA CallerSettles ==
  ASSUME TypeOK, Settled, NEW c \in Callers, CallerNext(c)
  PROVE  SettledShape
<1>1. CASE Close(c)
  BY <1>1 DEF Close, SettledShape, KeepsRow, KeepsStill, processVars, botVars, dbVars
<1>2. CASE ~Close(c)
  <2>1. pc[c] # "idle" /\ UNCHANGED bot
    BY <1>2 DEF CallerNext, Guard, Throw, CheckExit, PlaceMaker, PlaceTaker, Verify, Price, Account, processVars
  <2>2. KeepsStill
    BY <2>1 DEF KeepsStill, Settled
  <2>3. UNCHANGED row /\ (tracked' => tracked)
    <3>1. CASE Guard(c)
      BY <3>1 DEF Guard, dbVars
    <3>2. CASE Throw(c) \/ CheckExit(c)
      BY <3>2 DEF Throw, CheckExit, botVars, dbVars
    <3>3. CASE PlaceMaker(c)
      BY <3>3 DEF PlaceMaker, Phantom, botVars, dbVars
    <3>4. CASE PlaceTaker(c)
      <4>1. UNCHANGED row
        BY <3>4 DEF PlaceTaker, dbVars
      <4>2. CASE Phantom(c)
        BY <4>1, <4>2 DEF Phantom
      <4>3. CASE UNCHANGED botVars
        BY <4>1, <4>3 DEF botVars
      <4>4. QED
        BY <3>4, <4>2, <4>3 DEF PlaceTaker
    <3>5. CASE Verify(c)
      BY <3>5 DEF Verify, botVars, dbVars
    <3>6. CASE Price(c)
      BY <3>6, EventShape DEF Price, LogClose, TypeOK, dbVars
    <3>7. CASE Account(c)
      BY <3>7 DEF Account, LogClose, botVars, dbVars
    <3>8. QED
      BY <1>2, <3>1, <3>2, <3>3, <3>4, <3>5, <3>6, <3>7 DEF CallerNext
  <2>4. QED
    BY <2>2, <2>3 DEF SettledShape, KeepsRow
<1>3. QED
  BY <1>1, <1>2

LEMMA EventSettles ==
  ASSUME EmitPositionClosedOnce, UNCHANGED <<bot, pc>>
  PROVE  SettledShape
  BY WaitSettles DEF EmitPositionClosedOnce, PositionClosedEvent, LogClose, botVars, dbVars

LEMMA OrderSettles ==
  ASSUME NEW c \in Callers, OrderNext(c)
  PROVE  SettledShape
<1>1. CASE FallbackEmit(c)
  BY <1>1, EventSettles DEF FallbackEmit, processVars
<1>2. CASE MonitorGone(c) \/ MonitorFallback(c) \/ MonitorDrop(c)
  BY <1>2, WaitSettles DEF MonitorGone, MonitorFallback, MonitorDrop, processVars, botVars, dbVars
<1>3. CASE FallbackCheck(c) \/ FallbackCancel(c)
  BY <1>3, WaitSettles DEF FallbackCheck, FallbackCancel, processVars, botVars, dbVars
<1>4. CASE FallbackTaker(c)
  BY <1>4, WaitSettles DEF FallbackTaker, processVars, botVars, dbVars
<1>5. CASE FallbackConfirm(c) \/ FallbackUnconfirmed(c)
  BY <1>5, WaitSettles DEF FallbackConfirm, FallbackUnconfirmed, processVars, botVars, dbVars
<1>6. QED
  BY <1>1, <1>2, <1>3, <1>4, <1>5 DEF OrderNext

LEMMA SettledStep == TypeOK /\ Settled /\ [Next]_vars => Settled'
<1> SUFFICES ASSUME TypeOK, Settled, [Next]_vars PROVE SettledShape
  BY SettledKept
<1>1. CASE UNCHANGED vars
  BY <1>1, WaitSettles DEF vars, processVars, botVars, dbVars
<1>2. CASE FinishClose
  BY <1>2 DEF FinishClose, SettledShape, KeepsRow, KeepsStill, processVars
<1>3. CASE DeleteFails
  BY <1>3, WaitSettles DEF DeleteFails, processVars, botVars
<1>4. CASE Crash
  BY <1>4 DEF Crash, SettledShape, KeepsRow, KeepsStill
<1>5. CASE ExchangeNext
  BY <1>5, WaitSettles DEF ExchangeNext, processVars, botVars, dbVars
<1>6. CASE \E c \in Callers : CallerNext(c) \/ OrderNext(c)
  BY <1>6, CallerSettles, OrderSettles
<1>7. CASE MonitorEmit
  BY <1>7, EventSettles DEF MonitorEmit, processVars
<1>8. CASE MarkRunsOut
  BY <1>8, WaitSettles DEF MarkRunsOut, processVars, dbVars
<1>9. CASE RecordsExpire
  BY <1>9, WaitSettles DEF RecordsExpire, processVars, dbVars
<1>10. CASE SyncPositions
  <2>1. KeepsStill
    BY <1>10 DEF SyncPositions, KeepsStill, processVars
  <2>2. KeepsRow
    BY <1>10 DEF SyncPositions, AddFromChain, InsertRow, KeepsRow
  <2>3. QED
    BY <2>1, <2>2 DEF SettledShape
<1>11. CASE SubprocessExits
  BY <1>11, WaitSettles DEF SubprocessExits, botVars, dbVars
<1>12. CASE SubprocessStarts
  BY <1>12, WaitSettles DEF SubprocessStarts, botVars, dbVars
<1>13. CASE Reconcile
  <2>1. UNCHANGED <<row, bot, pc, pending, mark>>
    BY <1>13 DEF Reconcile, dbVars
  <2>2. tracked' => tracked
    BY <1>13, ReconcileShape DEF TypeOK
  <2>3. QED
    BY <2>1, <2>2, WaitSettles
<1>14. CASE Recover
  <2>1. KeepsStill
    BY <1>14 DEF Recover, KeepsStill
  <2>2. KeepsRow
    BY <1>14 DEF Recover, InsertRow, LogClose, KeepsRow, dbVars
  <2>3. QED
    BY <2>1, <2>2 DEF SettledShape
<1>15. CASE QueryPositions
  BY <1>15, WaitSettles DEF QueryPositions, processVars, botVars, dbVars
<1>16. CASE OtherId
  <2>1. UNCHANGED <<row, bot, pc, pending, mark>> /\ (tracked' => tracked)
    BY <1>16 DEF OtherId, LogClose, processVars, dbVars
  <2>2. QED
    BY <2>1, WaitSettles
<1>17. QED
  BY <1>1, <1>2, <1>3, <1>4, <1>5, <1>6, <1>7, <1>8, <1>9, <1>10, <1>11, <1>12, <1>13, <1>14, <1>15, <1>16 DEF Next

LEMMA CountedInit == Init => Counted /\ Settled
<1> SUFFICES ASSUME Init PROVE Counted /\ Settled
  OBVIOUS
<1>1. AtWork = {} /\ ~pending
  BY DEF Init, AtWork
<1>2. IsFiniteSet(AtWork) /\ Cardinality(AtWork) = 0
  BY <1>1, FS_EmptySet
<1>3. One(pending) = 0 /\ One(MayStart) \in 0 .. 1 /\ One(Unbooked) \in 0 .. 1
  BY <1>1 DEF One
<1>4. closes = 0 /\ Allowed = 1
  BY DEF Init, Allowed
<1>5. Counted
  BY <1>2, <1>3, <1>4 DEF Counted, ToBook
<1>6. QED
  BY <1>5 DEF Init, Settled

\* As long as the position goes by one id and is not tracked without a row, a
\* trade is booked as closed once for each row it had, each statement of
\* logClose that failed or was cut off, and each record of a close that ran
\* out, for any number of callers, orders, outages and restarts.
THEOREM BookedAtMostOnce == Spec => []BookedOnce
<1>1. TypeOK /\ [Next]_vars => TypeOK'
  BY TypeStep
<1>2. TypeOK /\ TypeOK' /\ Settled /\ (strayed \/ Counted) /\ [Next]_vars => (strayed \/ Counted)'
  <2> SUFFICES ASSUME TypeOK, TypeOK', Settled, strayed \/ Counted, [Next]_vars, ~strayed' PROVE Counted'
    OBVIOUS
  <2>0. ~strayed /\ Counted
    BY StraysForGood
  <2>1. CASE UNCHANGED vars
    <3>1. Quiet
      BY <2>1, StandStill, QuietStep DEF vars, LeavesBooks, botVars, dbVars
    <3>2. QED
      BY <2>0, <3>1, CountedStep DEF CountStep
  <2>2. CASE Next
    BY <2>0, <2>2, CountSteps, CountedStep
  <2>3. QED
    BY <2>1, <2>2
<1>3. TypeOK /\ (strayed \/ Counted) => BookedOnce
  <2> SUFFICES ASSUME TypeOK, Counted PROVE BookedOnce
    BY DEF BookedOnce
  <2>1. One(Unbooked) \in Nat /\ closes + One(Unbooked) <= trades + faults + runouts
    BY DEF One, Counted, Allowed
  <2>2. closes \in Nat /\ trades \in Nat /\ faults \in Nat /\ runouts \in Nat
    BY CloseAssumption DEF TypeOK, CounterTypes
  <2>3. QED
    BY <2>1, <2>2 DEF BookedOnce
<1>4. QED
  BY TypeInit, CountedInit, <1>1, <1>2, SettledStep, <1>3, PTL DEF Spec

-----------------------------------------------------------------------------
(***************************************************************************)
(* What remains of the client's "Only emit positionClosed AFTER verifying  *)
(* position is actually closed" (3128).  A position is taken for gone      *)
(* without being looked at after an exit, a death or a failed logClose, or *)
(* by an exit order's fallback that takes a placed order for a filled one. *)
(***************************************************************************)
Calm == outages = 0 /\ faults = 0

\* The subprocess has been ready and the bot up all along.
CalmInv == Calm => sub = "ready" /\ bot = "up"

\* On a taker market there are no exit orders, and so nobody who watches them.
TakerInv ==
  ~makerMarket => /\ mon = None
                  /\ \A c \in Callers : order[c] = None /\ fb[c] = None /\ pc[c] # "maker"

DoubtInv == doubt => makerMarket \/ ~Calm

Steady == UNCHANGED <<sub, bot, outages>> /\ (faults' = faults \/ faults' = faults + 1)

LEMMA OneMoreIsSome == \A n \in Nat : n + 1 # 0
  OBVIOUS

LEMMA SteadyCalm ==
  ASSUME CounterTypes, Steady
  PROVE  Calm' => Calm /\ UNCHANGED <<sub, bot>>
  BY OneMoreIsSome DEF CounterTypes, Steady, Calm

\* Calls, orders, the sync and the exchange leave the processes alone.
LEMMA CallsAreSteady == ASSUME NEW c \in Callers, CallerNext(c) PROVE Steady
<1>1. UNCHANGED processVars
  BY DEF CallerNext, Close, Guard, Throw, CheckExit, PlaceMaker, PlaceTaker, Verify, Price, Account
<1>2. UNCHANGED dbVars \/ LogClose
  BY DEF CallerNext, Close, Guard, Throw, CheckExit, PlaceMaker, PlaceTaker, Verify, Price,
         Account, PositionClosedEvent
<1>3. QED
  BY <1>1, <1>2 DEF Steady, processVars, dbVars, LogClose

LEMMA OrdersAreSteady ==
  ASSUME (\E c \in Callers : OrderNext(c)) \/ MonitorEmit
  PROVE  Steady
<1>1. UNCHANGED processVars
  BY DEF OrderNext, MonitorGone, MonitorFallback, MonitorDrop, FallbackCheck, FallbackCancel,
         FallbackTaker, FallbackConfirm, FallbackUnconfirmed, FallbackEmit, MonitorEmit
<1>2. UNCHANGED dbVars \/ LogClose
  BY DEF OrderNext, MonitorGone, MonitorFallback, MonitorDrop, FallbackCheck, FallbackCancel,
         FallbackTaker, FallbackConfirm, FallbackUnconfirmed, FallbackEmit, MonitorEmit,
         EmitPositionClosedOnce, PositionClosedEvent
<1>3. QED
  BY <1>1, <1>2 DEF Steady, processVars, dbVars, LogClose

LEMMA OthersAreSteady ==
  ASSUME \/ FinishClose \/ DeleteFails \/ ExchangeNext \/ QueryPositions \/ OtherId
         \/ MarkRunsOut \/ RecordsExpire \/ SyncPositions
  PROVE  Steady
<1>1. UNCHANGED processVars
  BY DEF FinishClose, DeleteFails, ExchangeNext, QueryPositions, OtherId, MarkRunsOut, RecordsExpire, SyncPositions
<1>2. faults' = faults \/ faults' = faults + 1
  BY DEF FinishClose, DeleteFails, ExchangeNext, QueryPositions, OtherId, LogClose, MarkRunsOut, RecordsExpire,
         SyncPositions, dbVars
<1>3. QED
  BY <1>1, <1>2 DEF Steady, processVars

\* A run that is calm after a step was so before, and the processes stand still.
LEMMA CalmStep ==
  ASSUME TypeOK, CalmInv, Next
  PROVE  Calm' => Calm /\ UNCHANGED <<sub, bot>>
<1>0. CounterTypes
  BY DEF TypeOK
<1>1. CASE SubprocessExits
  BY <1>0, <1>1, OneMoreIsSome DEF SubprocessExits, CounterTypes, Calm
<1>2. CASE Crash
  BY <1>0, <1>2, OneMoreIsSome DEF Crash, CounterTypes, Calm
<1>3. CASE SubprocessStarts \/ Reconcile \/ Recover
  <2>1. ~Calm
    BY <1>3 DEF SubprocessStarts, Reconcile, Recover, CalmInv
  <2>2. UNCHANGED outages /\ (faults' = faults \/ faults' = faults + 1)
    BY <1>3 DEF SubprocessStarts, Reconcile, Recover, LogClose, dbVars
  <2>3. QED
    BY <1>0, <2>1, <2>2, OneMoreIsSome DEF CounterTypes, Calm
<1>4. CASE Steady
  BY <1>0, <1>4, SteadyCalm
<1>5. QED
  BY <1>1, <1>2, <1>3, <1>4, CallsAreSteady, OrdersAreSteady, OthersAreSteady DEF Next

LEMMA MarketStays == Next => makerMarket' = makerMarket
  BY DEF Next, CallerNext, OrderNext, FinishClose, DeleteFails, Crash, ExchangeNext, Close, Guard,
         Throw, CheckExit, PlaceMaker, PlaceTaker, Verify, Price, Account, MonitorGone,
         MonitorFallback, MonitorDrop, FallbackCheck, FallbackCancel, FallbackTaker,
         FallbackConfirm, FallbackUnconfirmed, FallbackEmit, MonitorEmit, MarkRunsOut,
         RecordsExpire, QueryPositions, SyncPositions, OtherId, SubprocessExits, SubprocessStarts,
         Reconcile, Recover, caseVars

\* Without exit orders none appear on a taker market.
LEMMA TakerStep ==
  ASSUME TypeOK, TakerInv, Next
  PROVE  TakerInv'
<1>1. makerMarket' = makerMarket
  BY MarketStays
<1> SUFFICES ASSUME ~makerMarket
             PROVE  /\ mon' = None
                    /\ \A c \in Callers : order'[c] = None /\ fb'[c] = None /\ pc'[c] # "maker"
  BY <1>1 DEF TakerInv
<1>2. /\ mon = None
      /\ \A c \in Callers : order[c] = None /\ fb[c] = None /\ pc[c] # "maker"
  BY DEF TakerInv
<1>3. pc \in [Callers -> CallerSteps]
  BY DEF TypeOK, StateTypes
<1>4. CASE UNCHANGED <<pc, order, fb, mon>>
  BY <1>2, <1>4
<1>5. ASSUME NEW c \in Callers, CallerNext(c)
      PROVE  /\ UNCHANGED <<order, fb, mon>>
             /\ \E to \in CallerSteps \ {"maker"} : pc' = [pc EXCEPT ![c] = to]
  <2>1. ~PlaceMaker(c)
    BY <1>2 DEF PlaceMaker
  <2>2. CASE CheckExit(c)
    <3>1. \E to \in {"idle", "taker"} : pc' = [pc EXCEPT ![c] = to]
      BY <2>2 DEF CheckExit
    <3>2. QED
      BY <2>2, <3>1 DEF CheckExit, CallerSteps, clientVars
  <2>3. CASE Close(c) \/ Guard(c) \/ Throw(c)
    BY <2>3 DEF Close, Guard, Throw, CallerSteps, clientVars
  <2>4. CASE PlaceTaker(c)
    BY <2>4 DEF PlaceTaker, Phantom, CallerSteps, clientVars
  <2>5. CASE Verify(c) \/ Price(c) \/ Account(c)
    BY <2>5 DEF Verify, Price, Account, CallerSteps, clientVars
  <2>6. QED
    BY <1>5, <2>1, <2>2, <2>3, <2>4, <2>5 DEF CallerNext
<1>6. ASSUME NEW c \in Callers, CallerNext(c)
      PROVE  /\ mon' = None
             /\ \A d \in Callers : order'[d] = None /\ fb'[d] = None /\ pc'[d] # "maker"
  BY <1>2, <1>3, <1>5, <1>6
<1>7. ASSUME NEW c \in Callers PROVE ~OrderNext(c)
  BY <1>2, None # "working", None # "fallback"
  DEF OrderNext, MonitorGone, MonitorFallback, MonitorDrop, FallbackCheck, FallbackCancel,
      FallbackTaker, FallbackConfirm, FallbackUnconfirmed, FallbackEmit, None
<1>8. ~MonitorEmit
  BY <1>2 DEF MonitorEmit
<1>9. CASE Crash
  BY <1>9 DEF Crash
<1>10. CASE Reconcile
  <2>1. UNCHANGED <<pc, fb, mon>>
    BY <1>10 DEF Reconcile
  <2>2. UNCHANGED order \/ \A c \in Callers : order'[c] \in {order[c], None}
    BY <1>10 DEF Reconcile
  <2>3. QED
    BY <1>2, <2>1, <2>2
<1>11. CASE \/ FinishClose \/ DeleteFails \/ ExchangeNext \/ MarkRunsOut \/ RecordsExpire
            \/ QueryPositions \/ SyncPositions \/ OtherId
            \/ SubprocessExits \/ SubprocessStarts \/ Recover
  BY <1>4, <1>11
  DEF FinishClose, DeleteFails, ExchangeNext, MarkRunsOut, RecordsExpire, QueryPositions, SyncPositions, OtherId,
      SubprocessExits, SubprocessStarts, Recover, clientVars
<1>12. QED
  BY <1>6, <1>7, <1>8, <1>9, <1>10, <1>11 DEF Next

\* While the processes stand still, only a confirmed fallback doubts.
LEMMA DoubtStep ==
  ASSUME sub = "ready", bot = "up", Kept, Next, ~doubt, doubt'
  PROVE  \E c \in Callers : FallbackConfirm(c)
<1>1. LooksGone => Gone
  BY DEF LooksGone
<1>2. ConcludeGone /\ LooksGone => ~doubt'
  BY <1>1 DEF ConcludeGone
<1>3. ASSUME NEW c \in Callers, CallerNext(c) PROVE FALSE
  BY <1>3 DEF CallerNext, Close, Guard, Throw, CheckExit, PlaceMaker, PlaceTaker, Verify, Price, Account
<1>4. ASSUME NEW c \in Callers, OrderNext(c), ~FallbackConfirm(c) PROVE FALSE
  BY <1>2, <1>4
  DEF OrderNext, MonitorGone, MonitorFallback, MonitorDrop, FallbackCheck, FallbackCancel,
      FallbackTaker, FallbackUnconfirmed, FallbackEmit
<1>5. ~(\/ FinishClose \/ DeleteFails \/ ExchangeNext \/ MonitorEmit \/ MarkRunsOut
        \/ RecordsExpire \/ QueryPositions \/ OtherId \/ SubprocessExits \/ SubprocessStarts
        \/ Reconcile \/ Recover \/ Crash)
  BY DEF FinishClose, DeleteFails, ExchangeNext, MonitorEmit, MarkRunsOut, RecordsExpire,
         QueryPositions, OtherId, SubprocessExits, SubprocessStarts, Reconcile, Recover, Crash
<1>6. ~SyncPositions
  <2> SUFFICES ASSUME SyncPositions PROVE FALSE
    OBVIOUS
  <2>1. ConcludeGone /\ ~Gone /\ cached' = None
    BY DEF SyncPositions, ConcludeGone
  <2>2. cached = "own"
    BY <2>1 DEF Kept, OwnId
  <2>3. QED
    BY <2>1, <2>2 DEF SyncPositions, CacheAfterQuery, ListedAs, LooksOpen, Live, None
<1>7. QED
  BY <1>3, <1>4, <1>5, <1>6 DEF Next

LEMMA DoubtInvStep ==
  ASSUME TypeOK, Kept, CalmInv, TakerInv, DoubtInv, Next
  PROVE  DoubtInv'
<1>1. makerMarket' = makerMarket
  BY MarketStays
<1> SUFFICES ASSUME doubt', ~makerMarket, Calm' PROVE FALSE
  BY <1>1 DEF DoubtInv
<1>2. Calm /\ sub = "ready" /\ bot = "up"
  BY CalmStep DEF CalmInv
<1>3. ~doubt
  BY <1>2 DEF DoubtInv
<1>4. PICK c \in Callers : FallbackConfirm(c)
  BY <1>2, <1>3, DoubtStep
<1>5. QED
  BY <1>4 DEF FallbackConfirm, TakerInv, None

LookedAt == TypeOK /\ Kept /\ CalmInv /\ TakerInv /\ DoubtInv

LEMMA LookedAtHolds == Spec => []LookedAt
<1>1. Init => LookedAt
  BY TypeInit, KeptInit DEF Init, LookedAt, CalmInv, TakerInv, DoubtInv
<1>2. LookedAt /\ [Next]_vars => LookedAt'
  <2> SUFFICES ASSUME LookedAt, [Next]_vars PROVE LookedAt'
    OBVIOUS
  <2>1. TypeOK' /\ Kept'
    BY TypeStep, KeptStep DEF LookedAt
  <2>2. CASE Next
    <3>1. CalmInv'
      BY <2>2, CalmStep DEF LookedAt, CalmInv
    <3>2. QED
      BY <2>1, <2>2, <3>1, TakerStep, DoubtInvStep DEF LookedAt
  <2>3. CASE UNCHANGED vars
    BY <2>1, <2>3
    DEF LookedAt, CalmInv, TakerInv, DoubtInv, Calm, vars, caseVars, processVars, clientVars, dbVars
  <2>4. QED
    BY <2>2, <2>3
<1>3. QED
  BY <1>1, <1>2, PTL DEF Spec

\* Until the subprocess exits, the bot dies or logClose fails, only the
\* fallback of an exit order takes a position for gone that is not: it takes a
\* confirmed transaction for the fill of the order that it placed.
THEOREM OnlyConfirmationsDoubt ==
  Spec => [][~doubt /\ doubt' /\ Calm' => \E c \in Callers : fb[c] = "confirm"]_vars
<1>1. LookedAt /\ [Next]_vars =>
        [~doubt /\ doubt' /\ Calm' => \E c \in Callers : fb[c] = "confirm"]_vars
  <2> SUFFICES ASSUME LookedAt, Next, ~doubt, doubt', Calm'
               PROVE  \E c \in Callers : fb[c] = "confirm"
    OBVIOUS
  <2>1. sub = "ready" /\ bot = "up"
    BY CalmStep DEF LookedAt, CalmInv
  <2>2. QED
    BY <2>1, DoubtStep DEF FallbackConfirm, LookedAt
<1>2. QED
  BY <1>1, LookedAtHolds, PTL DEF Spec

\* On a taker market in such a run: what is booked as closed is gone, and what
\* is open has its row and is tracked, whoever calls closePosition when.
TakerBooksAreRight ==
  ~makerMarket /\ Calm =>
    /\ closes > 0 => Gone
    /\ ~Gone => row /\ closes = 0 /\ tracked

\* What remains of the comment at 3128: on a taker market, with a subprocess
\* and a bot that stay up and statements that do not fail, it is so.
THEOREM BookedOnlyAfterTakerClose == Spec => []TakerBooksAreRight
<1>1. LookedAt /\ OpenTradeIsKept => TakerBooksAreRight
  <2> SUFFICES ASSUME LookedAt, OpenTradeIsKept, ~makerMarket, Calm
               PROVE  (closes > 0 => Gone) /\ (~Gone => row /\ closes = 0 /\ tracked)
    BY DEF TakerBooksAreRight
  <2>1. ~doubt /\ bot = "up" /\ (pos # "open" => Gone)
    BY DEF LookedAt, DoubtInv, CalmInv, Gone
  <2>2. ~Gone => row /\ closes = 0 /\ tracked
    BY <2>1 DEF OpenTradeIsKept
  <2>3. closes = 0 => ~(closes > 0)
    OBVIOUS
  <2>4. QED
    BY <2>2, <2>3
<1>2. QED
  BY <1>1, LookedAtHolds, OpenTradeKept, PTL

\* A call that has verified the close books it if the position is a user's,
\* and books nothing if it is a strategy's.
VerifiedCloseSplits ==
  \A c \in Callers :
    pc[c] = "account" /\ pc'[c] # "account" /\ outages' = outages /\ faults' = faults =>
      closes' = IF automated THEN closes ELSE closes + 1

\* What remains of the bot's "closePosition() will handle accounting" (1312):
\* where no statement fails and nobody dies, it is so of exactly the positions
\* that a user opened.
THEOREM UserClosesAreBooked == Spec => [][VerifiedCloseSplits]_vars
<1>1. TypeOK /\ [Next]_vars => [VerifiedCloseSplits]_vars
  <2> SUFFICES ASSUME TypeOK, Next, NEW c \in Callers, pc[c] = "account", pc'[c] # "account",
                      outages' = outages, faults' = faults
               PROVE  closes' = IF automated THEN closes ELSE closes + 1
    BY DEF VerifiedCloseSplits
  <2>1. pc \in [Callers -> CallerSteps] /\ outages \in Nat /\ faults \in Nat
    BY DEF TypeOK, StateTypes, CounterTypes
  <2>2. \A n \in Nat : n + 1 # n
    OBVIOUS
  <2>3. ~Crash
    BY <2>1, <2>2 DEF Crash
  <2>4. ASSUME NEW d \in Callers, CallerNext(d) PROVE d = c /\ Account(c)
    <3>1. \E to \in CallerSteps : pc' = [pc EXCEPT ![d] = to]
      <4>1. CASE CheckExit(d)
        <5>1. \E to \in {"idle", "maker", "taker"} : pc' = [pc EXCEPT ![d] = to]
          BY <4>1 DEF CheckExit
        <5>2. QED
          BY <5>1 DEF CallerSteps
      <4>2. CASE Verify(d)
        BY <4>2 DEF Verify, CallerSteps
      <4>3. CASE PlaceMaker(d) \/ PlaceTaker(d)
        BY <4>3 DEF PlaceMaker, PlaceTaker, Phantom, CallerSteps
      <4>4. CASE Close(d) \/ Guard(d) \/ Throw(d) \/ Price(d) \/ Account(d)
        BY <4>4 DEF Close, Guard, Throw, Price, Account, CallerSteps
      <4>5. QED
        BY <2>4, <4>1, <4>2, <4>3, <4>4 DEF CallerNext
    <3>2. d = c
      BY <2>1, <3>1
    <3>3. QED
      BY <2>4, <3>2
      DEF CallerNext, Close, Guard, Throw, CheckExit, PlaceMaker, PlaceTaker, Verify, Price
  <2>5. ASSUME Account(c) PROVE closes' = IF automated THEN closes ELSE closes + 1
    BY <2>1, <2>2, <2>5 DEF Account, LogClose, dbVars
  <2>6. ASSUME NEW d \in Callers, OrderNext(d) PROVE UNCHANGED pc
    BY <2>6
    DEF OrderNext, MonitorGone, MonitorFallback, MonitorDrop, FallbackCheck, FallbackCancel,
        FallbackTaker, FallbackConfirm, FallbackUnconfirmed, FallbackEmit
  <2>7. ASSUME \/ FinishClose \/ DeleteFails \/ ExchangeNext \/ MonitorEmit \/ MarkRunsOut
               \/ RecordsExpire \/ QueryPositions \/ SyncPositions \/ OtherId
               \/ SubprocessExits \/ SubprocessStarts \/ Reconcile \/ Recover
        PROVE  UNCHANGED pc
    BY <2>7
    DEF FinishClose, DeleteFails, ExchangeNext, MonitorEmit, MarkRunsOut, RecordsExpire,
        QueryPositions, SyncPositions, OtherId, SubprocessExits, SubprocessStarts, Reconcile, Recover
  <2>8. QED
    BY <2>3, <2>4, <2>5, <2>6, <2>7 DEF Next
<1>2. QED
  BY <1>1, TypeCorrect, PTL DEF Spec

=============================================================================
