-------------------------------- MODULE Ledger --------------------------------
(***************************************************************************)
(* What the trade tables promise, with nothing of how: a trade is entered, *)
(* and it leaves by being booked as closed, in one step.  A booking may    *)
(* leave the trade entered, or come when none is; no trade just vanishes.  *)
(* No statements, callers, events or failures between two statements.      *)
(***************************************************************************)
EXTENDS Naturals

VARIABLES
    open,       \* a trade is entered and not taken out
    entered,    \* how often one was entered
    booked      \* closes that are booked for good

vars == <<open, entered, booked>>

Init == open = TRUE /\ entered = 1 /\ booked = 0

Enter ==
    /\ ~open
    /\ open' = TRUE /\ entered' = entered + 1
    /\ UNCHANGED booked

Book ==
    /\ open
    /\ open' = FALSE /\ booked' = booked + 1
    /\ UNCHANGED entered

\* The trade stays entered, or there was none.
BookOnly ==
    /\ booked' = booked + 1
    /\ UNCHANGED <<open, entered>>

Next == Enter \/ Book \/ BookOnly

Spec == Init /\ [][Next]_vars

-----------------------------------------------------------------------------

\* Every trade that was entered is still entered or was booked.
NothingVanishes == entered <= IF open THEN booked + 1 ELSE booked

\* The inductive form.
Balanced ==
    /\ open \in BOOLEAN /\ entered \in Nat /\ booked \in Nat
    /\ NothingVanishes

=============================================================================
