----------------------------- MODULE MCKvStore -----------------------------
(* Instances of the KV store: page size, pools and bounds are in the cfg. *)
EXTENDS KvStore
=============================================================================
