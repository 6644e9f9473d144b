---------------------------- MODULE MCThreadPool ----------------------------
(* ThreadPool on small instances; callers are interchangeable.             *)
EXTENDS ThreadPool, TLC

Symmetry == Permutations(Callers)
=============================================================================
