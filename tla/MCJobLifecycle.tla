--------------------------- MODULE MCJobLifecycle ---------------------------
(* One job against all its writers.  Jobs meet only in the watchdog's      *)
(* sweep and in crashes, which treat every row by itself; the theorems     *)
(* hold for any set of jobs.                                               *)
EXTENDS JobLifecycle, TLC
=============================================================================
