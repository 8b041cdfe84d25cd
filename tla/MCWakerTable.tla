---------------------------- MODULE MCWakerTable ----------------------------
(* One slot that two tasks contend for, through three generations.          *)
EXTENDS WakerTable
=============================================================================
