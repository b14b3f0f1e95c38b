---------------------------- MODULE AdmissionMC ----------------------------
(* Admission on small instances; requests and slots are interchangeable.   *)
EXTENDS Admission, TLC

RequestSymmetry == Permutations(Requests) \cup Permutations(Slots)
=============================================================================
