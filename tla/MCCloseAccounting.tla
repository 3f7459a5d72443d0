------------------------- MODULE MCCloseAccounting -------------------------
(* A position closed by the tick loop and by the dashboard.                *)
EXTENDS CloseAccounting

CONSTANTS loop, dashboard

MCCallers == {loop, dashboard}
MCUserCallers == {dashboard}
=============================================================================
