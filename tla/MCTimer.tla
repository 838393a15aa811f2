------------------------------- MODULE MCTimer -------------------------------
(***************************************************************************)
(* Small instances of Timer. The workers, the sessions and the timers are  *)
(* interchangeable, but the run checks liveness, so no SYMMETRY is used.   *)
(***************************************************************************)
EXTENDS Timer
=============================================================================
