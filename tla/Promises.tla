------------------------------- MODULE Promises -------------------------------
(***************************************************************************)
(* What send() of the subprocess client gives its callers, with nothing of *)
(* how: no window, no queue, no breaker.  A caller waits for one promise,  *)
(* alone or with others that ask for the same poll; promises settle one by *)
(* one, or all at once when the subprocess is gone.                        *)
(***************************************************************************)
CONSTANTS
    Callers,
    ActionOf,       \* the command each caller sends
    Coalescable     \* the commands whose callers may share an answer

VARIABLE requests   \* unsettled: the command and the callers that wait for it

Waiting == UNION {r.callers : r \in requests}

Init == requests = {}

Ask(c) ==
    /\ c \notin Waiting
    /\ requests' = requests \union {[action |-> ActionOf[c], callers |-> {c}]}

Share(c, r) ==
    /\ c \notin Waiting
    /\ r.action = ActionOf[c] /\ r.action \in Coalescable
    /\ requests' = (requests \ {r}) \union {[r EXCEPT !.callers = @ \union {c}]}

Settle(r) == requests' = requests \ {r}

LoseAll == requests' = {}

Next ==
    \/ \E c \in Callers : Ask(c)
    \/ \E c \in Callers, r \in requests : Share(c, r)
    \/ \E r \in requests : Settle(r)
    \/ LoseAll

Spec == Init /\ [][Next]_requests

-----------------------------------------------------------------------------

\* Who waits, waits for one promise; the answer is to the command it sent; and
\* only polls are answered to several callers.
AnswersAreOwn ==
    \A r, s \in requests : \A c \in r.callers :
        /\ c \in s.callers => r = s
        /\ r.action = ActionOf[c]
        /\ \A d \in r.callers : c # d => r.action \in Coalescable

=============================================================================
