---------------------------- MODULE JobWorkerMC ----------------------------
(***************************************************************************)
(* Model-checking instances of JobWorker.                                  *)
(***************************************************************************)
EXTENDS JobWorker, TLC

\* Workers, and operators, are interchangeable.
ControllerSymmetry == Permutations(Workers) \cup Permutations(Operators)
=============================================================================
