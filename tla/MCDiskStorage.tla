---------------------------- MODULE MCDiskStorage ----------------------------
(* Instances of DiskStorage; calls and temporary names are interchangeable. *)
EXTENDS DiskStorage, TLC

CallSymmetry == Permutations(Puts) \cup Permutations(Gets) \cup Permutations(TempNames)
=============================================================================
