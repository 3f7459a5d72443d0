------------------------- MODULE LimitedLiveProofs -------------------------
(***************************************************************************)
(* That a rollback is latched, that a live controller is within its gates, *)
(* and that the total never passes what the markets hold together, for all *)
(* gates, caps, sizes, losses and finite sets of markets.                  *)
(***************************************************************************)
EXTENDS LimitedLive, FiniteSetTheorems, WellFoundedInduction, TLAPS

\* What the gates rest on: while not rolled back, the metrics miss nothing
\* that the controller was told and are below the gates.
MetricsAreTold ==
    GatesEnabled /\ ~rollback =>
        /\ dailyLoss = toldLoss
        /\ streak = toldRun
        /\ dailyLoss <= MaxLossPerDay
        /\ streak < MaxConsecutive

\* Flag and state agree: a controller that is rolled back is not live.
RolledBackNotLive == rollback => ~Live

GateInv == RolledBackNotLive /\ MetricsAreTold

-----------------------------------------------------------------------------

\* The option types, in the form the provers like them.
LEMMA OptionTypes ==
    /\ MaxLossPerTrade \in Nat /\ MaxLossPerDay \in Nat /\ Day \in Nat
    /\ LossBound \in Nat /\ CapBound \in Nat /\ ExposureBound \in Nat
    /\ InitialCap \in 0 .. CapBound /\ InitialTotalCap \in 0 .. CapBound
    /\ MaxConsecutive \in Nat \ {0}
    /\ IsFiniteSet(Markets) /\ Tradeable \subseteq Markets
    /\ Sizes \subseteq Nat /\ Caps \subseteq 0 .. CapBound /\ Pnls \subseteq Int
BY LimitedLiveAssumption DEF LimitedLiveAssumption

LEMMA InitInv == Init => TypeOK /\ GateInv
<1>1. Init => /\ marketCap \in [Markets -> {Unset} \union 0 .. CapBound]
              /\ sinceReset \in 0 .. Day + 1
    BY OptionTypes DEF Init
<1>2. Init => TypeOK
    <2> SUFFICES ASSUME Init PROVE TypeOK OBVIOUS
    <2>1. state \in LiveStates /\ enabled \subseteq Markets /\ rollback \in BOOLEAN
        BY DEF Init
    <2>2. defaultCap \in 0 .. CapBound /\ totalCap \in 0 .. CapBound
        BY OptionTypes DEF Init
    <2>3. total \in Nat /\ byMarket \in [Markets -> Nat] BY DEF Init
    <2>4. dailyLoss \in Nat /\ streak \in Nat /\ toldLoss \in Nat /\ toldRun \in Nat
        BY DEF Init
    <2>5. QED BY <1>1, <2>1, <2>2, <2>3, <2>4, Zenon DEF TypeOK
<1>3. Init => GateInv
    BY OptionTypes DEF Init, GateInv, RolledBackNotLive, MetricsAreTold
<1>4. QED BY <1>2, <1>3

\* What the gates and the history make of one trade keeps its types.
LEMMA GateTypes ==
    ASSUME TypeOK, NEW pnl \in Pnls, Tell(pnl), CheckRollbackGates(pnl)
    PROVE  /\ toldLoss' \in Nat /\ toldRun' \in Nat
           /\ dailyLoss' \in Nat /\ sinceReset' \in 0 .. Day + 1 /\ streak' \in Nat
           /\ rollback' \in BOOLEAN /\ state' \in LiveStates
<1>1. pnl \in Int BY OptionTypes
<1>2. toldLoss' \in Nat /\ toldRun' \in Nat BY <1>1 DEF TypeOK, Tell
<1>3. dailyLoss' \in Nat BY <1>1 DEF TypeOK, CheckRollbackGates
<1>4. sinceReset' \in 0 .. Day + 1 BY OptionTypes DEF TypeOK, CheckRollbackGates
<1>5. streak' \in Nat BY DEF TypeOK, CheckRollbackGates
<1>6. rollback' \in BOOLEAN /\ state' \in LiveStates
    BY Zenon DEF TypeOK, CheckRollbackGates, TriggerRollback, LiveStates
<1>7. QED BY <1>2, <1>3, <1>4, <1>5, <1>6

LEMMA NextTypes == TypeOK /\ [Next]_liveVars => TypeOK'
<1> SUFFICES ASSUME TypeOK, [Next]_liveVars PROVE TypeOK' OBVIOUS
<1> USE OptionTypes
<1>1. ASSUME NEW m \in Markets, NEW size \in Sizes, RecordPositionOpened(m, size)
      PROVE  TypeOK'
    <2>1. total' \in Nat /\ byMarket' \in [Markets -> Nat]
        BY <1>1 DEF TypeOK, RecordPositionOpened
    <2>2. QED BY <1>1, <2>1 DEF TypeOK, RecordPositionOpened, capVars, gateVars
<1>2. ASSUME NEW m \in Markets, NEW size \in Sizes, NEW pnl \in Pnls,
             RecordPositionClosed(m, size, pnl)
      PROVE  TypeOK'
    <2>1. total' \in Nat BY <1>2 DEF TypeOK, RecordPositionClosed
    <2>2. byMarket' \in [Markets -> Nat] BY <1>2 DEF TypeOK, RecordPositionClosed
    <2>3. UNCHANGED capVars BY <1>2 DEF RecordPositionClosed
    <2>4. Tell(pnl) BY <1>2 DEF RecordPositionClosed
    <2>5. CASE GatesEnabled
        <3>1. CheckRollbackGates(pnl) BY <1>2, <2>5 DEF RecordPositionClosed
        <3>2. QED BY <2>1, <2>2, <2>3, <2>4, <3>1, GateTypes DEF TypeOK, capVars
    <2>6. CASE ~GatesEnabled
        <3>1. UNCHANGED <<dailyLoss, sinceReset, streak, rollback, state>>
            BY <1>2, <2>6 DEF RecordPositionClosed
        <3>2. toldLoss' \in Nat /\ toldRun' \in Nat BY <2>4 DEF TypeOK, Tell
        <3>3. QED BY <2>1, <2>2, <2>3, <3>1, <3>2 DEF TypeOK, capVars
    <2>7. QED BY <2>5, <2>6
<1>3. CASE Operate
    <2>1. ASSUME NEW m \in Markets, EnableMarket(m) PROVE TypeOK'
        BY <2>1 DEF TypeOK, EnableMarket, exposureVars, gateVars
    <2>2. ASSUME NEW m \in Markets, DisableMarket(m) PROVE TypeOK'
        BY <2>2 DEF TypeOK, DisableMarket, exposureVars, gateVars
    <2>3. ASSUME NEW m \in Markets, NEW cap \in Caps, SetMarketCap(m, cap)
          PROVE  TypeOK'
        BY <2>3 DEF TypeOK, SetMarketCap, exposureVars, gateVars
    <2>4. ASSUME NEW new \in LiveStates, SetState(new) PROVE TypeOK'
        <3>1. CASE new = "disabled"
            BY <2>4, <3>1 DEF TypeOK, SetState, capVars, exposureVars, gateVars
        <3>2. CASE new # "disabled"
            <4>1. sinceReset' = 0 BY <2>4, <3>2 DEF SetState
            <4>2. sinceReset' \in 0 .. Day + 1 BY <4>1
            <4>3. dailyLoss' \in Nat /\ streak' \in Nat /\ toldLoss' \in Nat /\ toldRun' \in Nat
                BY <2>4, <3>2 DEF SetState
            <4>4. rollback' \in BOOLEAN BY <2>4, <3>2 DEF SetState
            <4>5. state' \in LiveStates BY <2>4 DEF SetState
            <4>6. UNCHANGED <<capVars, exposureVars>> BY <2>4 DEF SetState
            <4>7. QED BY <4>2, <4>3, <4>4, <4>5, <4>6 DEF TypeOK, capVars, exposureVars
        <3>3. QED BY <3>1, <3>2
    <2>5. CASE ProgressiveIncrease(2)
        <3>1. defaultCap' \in 0 .. CapBound /\ totalCap' \in 0 .. CapBound
            <4>1. defaultCap * 2 <= CapBound /\ totalCap * 2 <= CapBound
                BY <2>5 DEF ProgressiveIncrease
            <4>2. defaultCap' = defaultCap * 2 /\ totalCap' = totalCap * 2
                BY <2>5 DEF ProgressiveIncrease
            <4>3. defaultCap \in 0 .. CapBound /\ totalCap \in 0 .. CapBound
                BY DEF TypeOK
            <4>4. QED BY <4>1, <4>2, <4>3
        <3>2. ASSUME NEW m \in Markets
              PROVE  (IF marketCap[m] = Unset THEN Unset ELSE marketCap[m] * 2)
                         \in {Unset} \union 0 .. CapBound
            <4>1. marketCap[m] * 2 <= CapBound BY <2>5 DEF ProgressiveIncrease
            <4>2. marketCap[m] \in {Unset} \union 0 .. CapBound BY DEF TypeOK
            <4>3. QED BY <4>1, <4>2 DEF Unset
        <3>3. marketCap' \in [Markets -> {Unset} \union 0 .. CapBound]
            BY <2>5, <3>2 DEF ProgressiveIncrease
        <3>4. QED BY <2>5, <3>1, <3>3
            DEF TypeOK, ProgressiveIncrease, exposureVars, gateVars
    <2>6. QED BY <1>3, <2>1, <2>2, <2>3, <2>4, <2>5 DEF Operate
<1>4. CASE Tick BY <1>4 DEF TypeOK, Tick, capVars, exposureVars
<1>5. CASE UNCHANGED liveVars
    BY <1>5 DEF TypeOK, liveVars, capVars, exposureVars, gateVars
<1>6. QED BY <1>1, <1>2, <1>3, <1>4, <1>5 DEF Next

\* One closed trade under enabled gates.
LEMMA CloseKeepsGates ==
    ASSUME TypeOK, GateInv, GatesEnabled,
           NEW pnl \in Pnls, Tell(pnl), CheckRollbackGates(pnl)
    PROVE  GateInv'
<1>1. pnl \in Int BY OptionTypes
<1>2. CASE rollback
    <2>1. rollback' /\ ~Live'
        BY <1>2 DEF GateInv, RolledBackNotLive, CheckRollbackGates, TriggerRollback, Live
    <2>2. QED BY <2>1 DEF GateInv, RolledBackNotLive, MetricsAreTold
<1>3. CASE ~rollback
    <2>1. CASE rollback'
        <3>1. state' = "shadow_only"
            BY <1>3, <2>1, Zenon DEF CheckRollbackGates, TriggerRollback
        <3>2. QED BY <2>1, <3>1 DEF GateInv, RolledBackNotLive, MetricsAreTold, Live
    <2>2. CASE ~rollback'
        <3> DEFINE newDay == sinceReset > Day
                   soFar == IF newDay THEN 0 ELSE dailyLoss
                   fires == pnl < 0 /\ \/ -pnl > MaxLossPerTrade
                                       \/ soFar + -pnl > MaxLossPerDay
                                       \/ streak + 1 >= MaxConsecutive
        <3>1. ~fires
            BY <2>2 DEF CheckRollbackGates, TriggerRollback
        <3>2. soFar \in Nat /\ soFar <= MaxLossPerDay
            BY <1>3, OptionTypes DEF TypeOK, GateInv, MetricsAreTold
        <3>3. soFar = IF newDay THEN 0 ELSE toldLoss
            BY <1>3 DEF GateInv, MetricsAreTold
        <3>4. streak \in Nat /\ streak = toldRun BY <1>3 DEF TypeOK, GateInv, MetricsAreTold
        <3>5. toldLoss' = (IF pnl < 0 THEN soFar - pnl ELSE soFar)
            BY <3>3 DEF Tell
        <3>6. toldRun' = (IF pnl < 0 THEN toldRun + 1 ELSE 0) BY DEF Tell
        <3>7. CASE pnl >= 0
            <4>1. dailyLoss' = soFar /\ streak' = 0
                BY <1>1, <3>7 DEF CheckRollbackGates
            <4>2. toldLoss' = soFar /\ toldRun' = 0 BY <1>1, <3>5, <3>6, <3>7
            <4>3. dailyLoss' <= MaxLossPerDay /\ streak' < MaxConsecutive
                BY <3>2, <4>1, OptionTypes
            <4>4. QED BY <2>2, <4>1, <4>2, <4>3 DEF GateInv, RolledBackNotLive, MetricsAreTold
        <3>8. CASE pnl < 0
            <4>0. /\ ~(-pnl > MaxLossPerTrade)
                  /\ ~(soFar + -pnl > MaxLossPerDay)
                  /\ ~(streak + 1 >= MaxConsecutive)
                BY <3>1, <3>8, Zenon
            <4>1. soFar + -pnl <= MaxLossPerDay /\ streak + 1 < MaxConsecutive
                <5> HIDE DEF soFar
                <5> QED BY <1>1, <3>2, <3>4, <4>0, OptionTypes
            <4>2. dailyLoss' = soFar + -pnl /\ streak' = streak + 1
                <5>1. /\ dailyLoss' = IF pnl < 0 /\ ~(-pnl > MaxLossPerTrade)
                                     THEN soFar + -pnl ELSE soFar
                      /\ streak' = IF pnl >= 0 THEN 0
                                  ELSE IF -pnl > MaxLossPerTrade \/ soFar + -pnl > MaxLossPerDay
                                       THEN streak ELSE streak + 1
                    BY DEF CheckRollbackGates
                <5>2. ~(pnl >= 0) BY <1>1, <3>8
                <5>3. QED BY <3>8, <4>0, <5>1, <5>2, Zenon
            <4>3. toldLoss' = soFar - pnl /\ toldRun' = toldRun + 1
                BY <3>5, <3>6, <3>8
            <4>4. dailyLoss' = toldLoss' /\ streak' = toldRun'
                BY <1>1, <3>2, <3>4, <4>2, <4>3
            <4>5. dailyLoss' <= MaxLossPerDay /\ streak' < MaxConsecutive
                BY <4>1, <4>2
            <4>6. QED BY <2>2, <4>4, <4>5 DEF GateInv, RolledBackNotLive, MetricsAreTold
        <3>9. QED BY <1>1, <3>7, <3>8
    <2>3. QED BY <2>1, <2>2
<1>4. QED BY <1>2, <1>3

LEMMA NextInv == TypeOK /\ GateInv /\ [Next]_liveVars => GateInv'
<1> SUFFICES ASSUME TypeOK, GateInv, [Next]_liveVars PROVE GateInv' OBVIOUS
<1>0. (UNCHANGED <<state, gateVars>>) => GateInv'
    BY DEF GateInv, RolledBackNotLive, MetricsAreTold, Live, gateVars
<1>1. ASSUME NEW m \in Markets, NEW size \in Sizes, RecordPositionOpened(m, size)
      PROVE  GateInv'
    BY <1>0, <1>1 DEF RecordPositionOpened
<1>2. ASSUME NEW m \in Markets, NEW size \in Sizes, NEW pnl \in Pnls,
             RecordPositionClosed(m, size, pnl)
      PROVE  GateInv'
    <2>1. CASE GatesEnabled
        BY <1>2, <2>1, CloseKeepsGates DEF RecordPositionClosed
    <2>2. CASE ~GatesEnabled
        <3>1. UNCHANGED <<rollback, state>> BY <1>2, <2>2 DEF RecordPositionClosed
        <3>2. QED BY <2>2, <3>1 DEF GateInv, RolledBackNotLive, MetricsAreTold, Live
    <2>3. QED BY <2>1, <2>2
<1>3. CASE Operate
    <2>1. ASSUME NEW m \in Markets, EnableMarket(m) \/ DisableMarket(m)
          PROVE  GateInv'
        BY <1>0, <2>1 DEF EnableMarket, DisableMarket
    <2>2. ASSUME NEW m \in Markets, NEW cap \in Caps, SetMarketCap(m, cap)
          PROVE  GateInv'
        BY <1>0, <2>2 DEF SetMarketCap
    <2>3. ASSUME NEW new \in LiveStates, SetState(new) PROVE GateInv'
        <3>1. CASE new = "disabled"
            BY <2>3, <3>1
            DEF SetState, gateVars, GateInv, RolledBackNotLive, MetricsAreTold, Live
        <3>2. CASE new # "disabled"
            BY <2>3, <3>2, OptionTypes
            DEF SetState, GateInv, RolledBackNotLive, MetricsAreTold
        <3>3. QED BY <3>1, <3>2
    <2>4. CASE ProgressiveIncrease(2) BY <1>0, <2>4 DEF ProgressiveIncrease
    <2>5. QED BY <1>3, <2>1, <2>2, <2>3, <2>4 DEF Operate
<1>4. CASE Tick
    BY <1>4 DEF Tick, GateInv, RolledBackNotLive, MetricsAreTold, Live
<1>5. CASE UNCHANGED liveVars BY <1>0, <1>5 DEF liveVars
<1>6. QED BY <1>1, <1>2, <1>3, <1>4, <1>5 DEF Next

-----------------------------------------------------------------------------

\* Type correctness of the controller.
THEOREM TypeCorrect == Spec => []TypeOK
BY InitInv, NextTypes, PTL DEF Spec

LEMMA GatesHold == Spec => []GateInv
BY InitInv, NextInv, TypeCorrect, PTL DEF Spec

\* Nothing the controller is told clears the flag of a rollback: only the
\* operator's setState does (lines 245-255).
LEMMA FlagIsKept ==
    ASSUME TypeOK, [Next]_liveVars, rollback, ~rollback'
    PROVE  \E new \in LiveStates : SetState(new)
<1>1. CASE \E m \in Markets, size \in Sizes : RecordPositionOpened(m, size)
    BY <1>1 DEF RecordPositionOpened, gateVars
<1>2. CASE \E m \in Markets, size \in Sizes, pnl \in Pnls :
              RecordPositionClosed(m, size, pnl)
    BY <1>2 DEF RecordPositionClosed, CheckRollbackGates, TriggerRollback
<1>3. CASE Operate
    BY <1>3 DEF Operate, EnableMarket, DisableMarket, SetMarketCap,
                ProgressiveIncrease, gateVars
<1>4. CASE Tick \/ UNCHANGED liveVars
    BY <1>4 DEF Tick, liveVars, gateVars
<1> QED
    BY <1>1, <1>2, <1>3, <1>4 DEF Next

\* A rollback is latched, whatever the controller is told meanwhile and for
\* all gates, caps and markets (lines 103-111, 245-255, 334-342).
THEOREM RollbackLatched == Spec => RollbackIsLatched
<1>1. /\ TypeOK /\ GateInv' /\ [Next]_liveVars
      => [ /\ rollback' => ~Live'
           /\ rollback /\ ~rollback' => \E new \in LiveStates : SetState(new)]_liveVars
    BY FlagIsKept DEF GateInv, RolledBackNotLive
<1> QED
    BY <1>1, TypeCorrect, GatesHold, PTL DEF Spec, RollbackIsLatched

\* A live controller has been told of no more losses than its gates admit.
THEOREM LiveIsWithinGates == Spec => []LiveWithinGates
<1>1. GateInv => LiveWithinGates
    BY DEF GateInv, RolledBackNotLive, MetricsAreTold, LiveWithinGates
<1>2. QED BY <1>1, GatesHold, PTL

-----------------------------------------------------------------------------
(***************************************************************************)
(* Sums over a finite set.  The library's fold is a recursive function on  *)
(* the subsets: that there is such a function, and what it adds up to, is  *)
(* shown by taking a least subset that says otherwise.                     *)
(***************************************************************************)
Pick(s) == CHOOSE x \in s : TRUE

Rest(s) == s \ {Pick(s)}

SumOver(f, S) == MapThenSumSet(LAMBDA m : f[m], S)

\* g adds up f on the subsets in D.
AddsOn(g, f, D) ==
    \A s \in D : g[s] = IF s = {} THEN 0 ELSE f[Pick(s)] + g[Rest(s)]

Closed(D) == \A s \in D : s # {} => Rest(s) \in D

LEMMA LeastSubset ==
    ASSUME NEW S, IsFiniteSet(S), NEW T, T \subseteq SUBSET S, T # {}
    PROVE  \E x \in T : \A y \in T : y \subseteq x => y = x
<1>1. IsWellFoundedOn(StrictSubsetOrdering(S), SUBSET S)
    BY FS_StrictSubsetOrderingWellFounded, FS_FiniteSubsetsOfFinite
<1>2. \E x \in T : \A y \in T : ~ (<<y, x>> \in StrictSubsetOrdering(S))
    BY <1>1, WFMin
<1> QED
    BY <1>2 DEF StrictSubsetOrdering

LEMMA RestIsLess ==
    ASSUME NEW s, s # {}
    PROVE  Pick(s) \in s /\ Rest(s) \subseteq s /\ Rest(s) # s
BY DEF Pick, Rest


\* v is what the subset s of S adds up to.
AddsTo(S, f, s, v) ==
    \E D \in SUBSET SUBSET S : \E g : s \in D /\ Closed(D) /\ AddsOn(g, f, D) /\ v = g[s]

LEMMA SumsAgree ==
    ASSUME NEW S, IsFiniteSet(S), NEW f, NEW D, NEW E, NEW g, NEW h,
           D \subseteq SUBSET S, Closed(D), AddsOn(g, f, D), Closed(E), AddsOn(h, f, E)
    PROVE  \A s \in D \cap E : g[s] = h[s]
<1> DEFINE T == {s \in D \cap E : g[s] # h[s]}
<1>1. SUFFICES ASSUME T # {} PROVE FALSE
    OBVIOUS
<1>2. PICK x \in T : \A y \in T : y \subseteq x => y = x
    <2>1. T \subseteq SUBSET S
        OBVIOUS
    <2> HIDE DEF T
    <2> QED
        BY <1>1, <2>1, LeastSubset
<1>3. x # {}
    BY DEF AddsOn
<1>4. Rest(x) \in D \cap E /\ Rest(x) \notin T
    BY <1>2, <1>3, RestIsLess DEF Closed
<1>5. g[Rest(x)] = h[Rest(x)]
    BY <1>4
<1>6. g[x] = f[Pick(x)] + g[Rest(x)] /\ h[x] = f[Pick(x)] + h[Rest(x)]
    BY <1>3 DEF AddsOn
<1> QED
    BY <1>5, <1>6

LEMMA SumsExist ==
    ASSUME NEW S, IsFiniteSet(S), NEW f
    PROVE  \A s \in SUBSET S : \E v : AddsTo(S, f, s, v)
<1> DEFINE T == {s \in SUBSET S : ~\E v : AddsTo(S, f, s, v)}
<1>1. SUFFICES ASSUME T # {} PROVE FALSE
    OBVIOUS
<1>2. PICK x \in T : \A y \in T : y \subseteq x => y = x
    <2>1. T \subseteq SUBSET S
        OBVIOUS
    <2> HIDE DEF T
    <2> QED
        BY <1>1, <2>1, LeastSubset
<1>3. CASE x = {}
    <2> DEFINE D == {{}}
               g == [s \in D |-> 0]
    <2>1. x \in D /\ D \in SUBSET SUBSET S /\ Closed(D)
        BY <1>3 DEF Closed
    <2>2. AddsOn(g, f, D)
        BY DEF AddsOn
    <2> HIDE DEF D, g
    <2>3. AddsTo(S, f, x, g[x])
        BY <2>1, <2>2 DEF AddsTo
    <2> QED
        BY <2>3
<1>4. CASE x # {}
    <2>1. Rest(x) \in SUBSET S /\ Rest(x) \notin T
        BY <1>2, <1>4, RestIsLess
    <2>2. PICK v : AddsTo(S, f, Rest(x), v)
        BY <2>1
    <2>3. PICK D, g : D \in SUBSET SUBSET S /\ Rest(x) \in D /\ Closed(D) /\ AddsOn(g, f, D)
        BY <2>2 DEF AddsTo
    <2>4. x \notin D
        <3>1. SUFFICES ASSUME x \in D PROVE FALSE
            OBVIOUS
        <3>2. AddsTo(S, f, x, g[x])
            BY <2>3, <3>1 DEF AddsTo
        <3> QED
            BY <3>2
    <2> DEFINE E == D \union {x}
               h == [s \in E |-> IF s = x THEN f[Pick(x)] + g[Rest(x)] ELSE g[s]]
    <2>5. x \in E /\ E \in SUBSET SUBSET S /\ Closed(E)
        BY <2>3 DEF Closed
    <2>6. ASSUME NEW s \in E
          PROVE  h[s] = IF s = {} THEN 0 ELSE f[Pick(s)] + h[Rest(s)]
        <3>1. CASE s = x
            <4>1. h[x] = f[Pick(x)] + g[Rest(x)] /\ h[Rest(x)] = g[Rest(x)]
                BY <2>3, <2>4
            <4> QED
                BY <1>4, <3>1, <4>1
        <3>2. CASE s # x
            <4>1. s \in D /\ h[s] = g[s]
                BY <3>2
            <4>2. s # {} => h[Rest(s)] = g[Rest(s)]
                BY <2>3, <2>4, <4>1 DEF Closed
            <4>3. g[s] = IF s = {} THEN 0 ELSE f[Pick(s)] + g[Rest(s)]
                BY <2>3, <4>1 DEF AddsOn
            <4> QED
                BY <4>1, <4>2, <4>3
        <3> QED
            BY <3>1, <3>2
    <2>7. AddsOn(h, f, E)
        BY <2>6 DEF AddsOn
    <2> HIDE DEF E, h
    <2>8. AddsTo(S, f, x, h[x])
        BY <2>5, <2>7 DEF AddsTo
    <2> QED
        BY <2>8
<1> QED
    BY <1>3, <1>4

\* The fold is one of these functions, on all subsets.
LEMMA SumIsFold ==
    ASSUME NEW S, IsFiniteSet(S), NEW f
    PROVE  \E g : SumOver(f, S) = g[S] /\ AddsOn(g, f, SUBSET S)
<1> DEFINE Step(g, s) == IF s = {} THEN 0 ELSE f[CHOOSE x \in s : TRUE] + g[s \ {CHOOSE x \in s : TRUE}]
           Fold(g) == g = [s \in SUBSET S |-> Step(g, s)]
           iter == CHOOSE g : Fold(g)
           sums == [s \in SUBSET S |-> CHOOSE v : AddsTo(S, f, s, v)]
<1>1. SumOver(f, S) = iter[S]
    BY DEF SumOver, MapThenSumSet, MapThenFoldSet
<1>2. ASSUME NEW s \in SUBSET S
      PROVE  AddsTo(S, f, s, sums[s])
    BY SumsExist
<1>3. ASSUME NEW s \in SUBSET S, NEW v, NEW w, AddsTo(S, f, s, v), AddsTo(S, f, s, w)
      PROVE  v = w
    <2>1. PICK D, g : D \in SUBSET SUBSET S /\ s \in D /\ Closed(D) /\ AddsOn(g, f, D) /\ v = g[s]
        BY <1>3 DEF AddsTo
    <2>2. PICK E, h : E \in SUBSET SUBSET S /\ s \in E /\ Closed(E) /\ AddsOn(h, f, E) /\ w = h[s]
        BY <1>3 DEF AddsTo
    <2> QED
        BY <2>1, <2>2, SumsAgree
<1>4. ASSUME NEW s \in SUBSET S
      PROVE  sums[s] = IF s = {} THEN 0 ELSE f[Pick(s)] + sums[Rest(s)]
    <2>1. PICK D, g : D \in SUBSET SUBSET S /\ s \in D /\ Closed(D) /\ AddsOn(g, f, D) /\ sums[s] = g[s]
        <3> HIDE DEF sums
        <3> QED
            BY <1>2 DEF AddsTo
    <2>2. g[s] = IF s = {} THEN 0 ELSE f[Pick(s)] + g[Rest(s)]
        BY <2>1 DEF AddsOn
    <2>3. ASSUME s # {} PROVE sums[Rest(s)] = g[Rest(s)]
        <3>1. Rest(s) \in D /\ Rest(s) \in SUBSET S
            BY <2>1, <2>3 DEF Closed
        <3>2. AddsTo(S, f, Rest(s), g[Rest(s)])
            BY <2>1, <3>1 DEF AddsTo
        <3> HIDE DEF sums
        <3> QED
            BY <1>2, <1>3, <3>1, <3>2
    <2> HIDE DEF sums
    <2> QED
        BY <2>1, <2>2, <2>3
<1>5. Fold(sums)
    <2>1. \A s \in SUBSET S : sums[s] = Step(sums, s)
        BY <1>4 DEF Pick, Rest
    <2>2. sums = [s \in SUBSET S |-> sums[s]]
        OBVIOUS
    <2> HIDE DEF sums, Step
    <2> QED
        BY <2>1, <2>2
<1>6. Fold(iter)
    <2> HIDE DEF sums, Fold
    <2> QED
        BY <1>5
<1>7. AddsOn(iter, f, SUBSET S)
    <2> HIDE DEF iter
    <2>1. \A s \in SUBSET S : iter[s] = Step(iter, s)
        BY <1>6
    <2> QED
        BY <2>1 DEF AddsOn, Pick, Rest
<1> QED
    BY <1>1, <1>7

\* Changing one summand changes the sum by as much.
LEMMA SumOfUpdate ==
    ASSUME NEW S, IsFiniteSet(S), NEW f \in [S -> Nat], NEW h \in [S -> Nat], NEW m,
           \A n \in S : n # m => h[n] = f[n]
    PROVE  /\ SumOver(f, S) \in Nat /\ SumOver(h, S) \in Nat
           /\ m \in S => SumOver(h, S) + f[m] = SumOver(f, S) + h[m]
<1>1. PICK F : SumOver(f, S) = F[S] /\ AddsOn(F, f, SUBSET S)
    BY SumIsFold
<1>2. PICK H : SumOver(h, S) = H[S] /\ AddsOn(H, h, SUBSET S)
    BY SumIsFold
<1> DEFINE Right(s) == /\ F[s] \in Nat /\ H[s] \in Nat
                       /\ IF m \in s THEN H[s] + f[m] = F[s] + h[m] ELSE H[s] = F[s]
           T == {s \in SUBSET S : ~Right(s)}
<1>3. ASSUME T # {} PROVE FALSE
    <2>1. PICK x \in T : \A y \in T : y \subseteq x => y = x
        <3>1. T \subseteq SUBSET S
            OBVIOUS
        <3> HIDE DEF T
        <3> QED
            BY <1>3, <3>1, LeastSubset
    <2>2. CASE x = {}
        <3>1. F[x] = 0 /\ H[x] = 0
            BY <1>1, <1>2, <2>2 DEF AddsOn
        <3> QED
            BY <2>2, <3>1
    <2>3. CASE x # {}
        <3> DEFINE p == Pick(x)
                   r == Rest(x)
        <3>1. p \in S /\ r \in SUBSET S /\ r \notin T /\ x = r \union {p} /\ p \notin r
            BY <2>1, <2>3, RestIsLess DEF Rest
        <3>2. Right(r)
            BY <3>1
        <3>3. F[x] = f[p] + F[r] /\ H[x] = h[p] + H[r]
            BY <1>1, <1>2, <2>3 DEF AddsOn
        <3>4. ~Right(x)
            OBVIOUS
        <3>5. f[p] \in Nat /\ h[p] \in Nat /\ (m \in S => f[m] \in Nat /\ h[m] \in Nat)
            BY <3>1
        <3>6. p # m => f[p] = h[p]
            BY <3>1
        <3> HIDE DEF p, r
        <3> QED
            BY <3>1, <3>2, <3>3, <3>4, <3>5, <3>6
    <2> QED
        BY <2>2, <2>3
<1>4. Right(S)
    BY <1>3
<1> QED
    BY <1>1, <1>2, <1>4

\* One exposure up, or down to zero: the sum follows.
LEMMA SumFollows ==
    ASSUME NEW f \in [Markets -> Nat], NEW h \in [Markets -> Nat], NEW m \in Markets,
           NEW size \in Nat, NEW t \in Nat, NEW u \in Nat, t <= SumOver(f, Markets),
           \A n \in Markets : n # m => h[n] = f[n],
           \/ u = t + size /\ h[m] = f[m] + size
           \/ /\ u = IF t > size THEN t - size ELSE 0
              /\ h[m] = IF f[m] > size THEN f[m] - size ELSE 0
    PROVE  u <= SumOver(h, Markets)
<1> DEFINE a == SumOver(f, Markets)
           b == SumOver(h, Markets)
<1>1. a \in Nat /\ b \in Nat /\ b + f[m] = a + h[m]
    BY OptionTypes, SumOfUpdate
<1>2. f[m] \in Nat /\ h[m] \in Nat
    OBVIOUS
<1> HIDE DEF a, b
<1>3. t <= a
    BY DEF a
<1>4. u <= b
    <2>1. CASE u = t + size /\ h[m] = f[m] + size
        BY <1>1, <1>2, <1>3, <2>1
    <2>2. CASE /\ u = IF t > size THEN t - size ELSE 0
               /\ h[m] = IF f[m] > size THEN f[m] - size ELSE 0
        BY <1>1, <1>2, <1>3, <2>2
    <2> QED
        BY <2>1, <2>2
<1> QED
    BY <1>4 DEF b

LEMMA SumInit == Init => TotalNeverAboveMarkets
<1> SUFFICES ASSUME Init PROVE TotalNeverAboveMarkets
    OBVIOUS
<1>1. total = 0 /\ byMarket \in [Markets -> Nat]
    BY DEF Init
<1>2. SumOver(byMarket, Markets) \in Nat
    BY <1>1, OptionTypes, SumOfUpdate
<1>3. total <= SumOver(byMarket, Markets)
    <2> DEFINE a == SumOver(byMarket, Markets)
    <2>1. a \in Nat
        BY <1>2
    <2> HIDE DEF a
    <2>2. total <= a
        BY <1>1, <2>1
    <2> QED
        BY <2>2 DEF a
<1> QED
    BY <1>3 DEF TotalNeverAboveMarkets, SumOver

LEMMA SumStep == TypeOK /\ TypeOK' /\ TotalNeverAboveMarkets /\ [Next]_liveVars => TotalNeverAboveMarkets'
<1> SUFFICES ASSUME TypeOK, TypeOK', TotalNeverAboveMarkets, [Next]_liveVars PROVE TotalNeverAboveMarkets'
    OBVIOUS
<1>0. total <= SumOver(byMarket, Markets)
    BY DEF TotalNeverAboveMarkets, SumOver
<1>1. SUFFICES total' <= SumOver(byMarket', Markets)
    BY DEF TotalNeverAboveMarkets, SumOver, MapThenSumSet, MapThenFoldSet
<1>2. /\ total \in Nat /\ total' \in Nat
      /\ byMarket \in [Markets -> Nat] /\ byMarket' \in [Markets -> Nat]
    BY DEF TypeOK
<1>3. ASSUME NEW m \in Markets, NEW size \in Sizes,
             \/ RecordPositionOpened(m, size)
             \/ \E pnl \in Pnls : RecordPositionClosed(m, size, pnl)
      PROVE  total' <= SumOver(byMarket', Markets)
    <2>1. \/ total' = total + size /\ byMarket' = [byMarket EXCEPT ![m] = @ + size]
          \/ /\ total' = IF total > size THEN total - size ELSE 0
             /\ byMarket' = [byMarket EXCEPT ![m] = IF @ > size THEN @ - size ELSE 0]
        BY <1>3 DEF RecordPositionOpened, RecordPositionClosed
    <2>2. \A n \in Markets : n # m => byMarket'[n] = byMarket[n]
        BY <1>2, <2>1
    <2>3. \/ total' = total + size /\ byMarket'[m] = byMarket[m] + size
          \/ /\ total' = IF total > size THEN total - size ELSE 0
             /\ byMarket'[m] = IF byMarket[m] > size THEN byMarket[m] - size ELSE 0
        BY <1>2, <2>1
    <2>4. size \in Nat
        BY OptionTypes
    <2> QED
        BY <1>0, <1>2, <2>2, <2>3, <2>4, SumFollows
<1>4. CASE UNCHANGED exposureVars
    BY <1>0, <1>4 DEF exposureVars
<1>5. CASE Operate \/ Tick
    BY <1>4, <1>5 DEF Operate, EnableMarket, DisableMarket, SetMarketCap, SetState, ProgressiveIncrease, Tick
<1> QED
    BY <1>3, <1>4, <1>5 DEF Next, liveVars

\* The total never passes what the markets hold together, whatever is closed
\* and clamped (recordPositionClosed, 180-190): the total cap may admit more
\* than it says and never refuses what the markets leave room for.
THEOREM TotalFallsShort == Spec => []TotalNeverAboveMarkets
BY SumInit, SumStep, TypeCorrect, PTL DEF Spec

=============================================================================
