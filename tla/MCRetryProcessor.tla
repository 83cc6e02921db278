-------------------------- MODULE MCRetryProcessor --------------------------
(***************************************************************************)
(* RetryProcessor on a small instance.  The configurations choose the      *)
(* backend and the bounds; articles are interchangeable, and so are HTTP   *)
(* goroutines, in the runs that check only safety.                         *)
(***************************************************************************)
EXTENDS RetryProcessor, TLC

Symmetry == Permutations(Articles) \cup Permutations(Handlers)
=============================================================================
