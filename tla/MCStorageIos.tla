---------------------------- MODULE MCStorageIos ----------------------------
(* StorageIos on a few releases.  Releases are interchangeable to the code *)
(* (only equality of identifiers is ever tested), so symmetry is sound for *)
(* the runs without temporal properties.                                   *)
EXTENDS StorageIos, TLC

Symmetry == Permutations(Releases)
=============================================================================
