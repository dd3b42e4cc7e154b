-------------------------- MODULE MCStorageAndroid --------------------------
(* Symmetry for StorageAndroid: releases and threads are interchangeable,   *)
(* None is not.                                                             *)
EXTENDS StorageAndroid, TLC

Symmetry == Permutations(Releases) \cup Permutations(Pool)
=============================================================================
