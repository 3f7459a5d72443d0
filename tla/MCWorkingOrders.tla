-------------------------- MODULE MCWorkingOrders --------------------------
EXTENDS WorkingOrders, TLC

Symmetry == Permutations(Orders)

(* Who still works on an order and will cancel the one with its id.        *)
LooksAtId(o) ==
  \/ canceller[o]
  \/ faller[o] \in {"checking", "cancelling"}
  \/ replacer[o] \in {"cancelling", "confirming"}

(* The fields of an order that no action can look at any more do not       *)
(* distinguish states.                                                     *)
View ==
  << tracked, [o \in tracked |-> <<state[o], pending[o]>>],
     [o \in {p \in Orders : p \in tracked \/ LooksAtId(p)} |-> uoid[o]],
     previous, locked, workVars, chainVars, cached, slips >>
=============================================================================
