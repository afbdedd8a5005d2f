---------------------------- MODULE MCCacheIndex ----------------------------
(* Instance of CacheIndex for TLC: lidars and readers can be exchanged. *)
EXTENDS CacheIndex, TLC

Symmetric == Permutations(Handles) \cup Permutations(Readers)
=============================================================================
