----------------------- MODULE MCSubprocessSupervisor -----------------------
(***************************************************************************)
(* The subprocess supervision with at most two restart attempts.           *)
(***************************************************************************)
EXTENDS SubprocessSupervisor

=============================================================================
