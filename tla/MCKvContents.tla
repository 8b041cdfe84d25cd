---------------------------- MODULE MCKvContents ----------------------------
(* Instances of the KV store with the contents of its pages. Tokens are     *)
(* alike to the store, which compares keys only for equality.               *)
EXTENDS KvContents

TokenSymmetry == Permutations(Tokens)
=============================================================================
