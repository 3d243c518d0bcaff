---------------------------- MODULE MCWorkerPool ----------------------------
(* The pool with a handful of jobs: more jobs than slots plus one, so that *)
(* the first and later waiters, promotion and a leaked slot all occur.     *)
EXTENDS WorkerPool
=============================================================================
