------------------------ MODULE MCOutOfBandMutation ------------------------
(* Instances of OutOfBandMutation for TLC.                                 *)
EXTENDS OutOfBandMutation, TLC

MCSymmetry == Permutations(Procs) \cup Permutations(Keys)
=============================================================================
