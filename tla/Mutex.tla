-------------------------------- MODULE Mutex --------------------------------
(***************************************************************************)
(* What a singleton lock promises: it is taken while nobody has it, and it *)
(* is given back.  No rows, heartbeats, thresholds or attempts.            *)
(***************************************************************************)
CONSTANT Procs

VARIABLE owners     \* the processes that take themselves for the only one

Init == owners = {}

Acquire(p) ==
    /\ owners = {}
    /\ owners' = {p}

Release(p) ==
    /\ p \in owners
    /\ owners' = owners \ {p}

Next == \E p \in Procs : Acquire(p) \/ Release(p)

Spec == Init /\ [][Next]_owners

=============================================================================
