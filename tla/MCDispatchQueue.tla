-------------------------- MODULE MCDispatchQueue --------------------------
EXTENDS DispatchQueue

(* One pipeline to each process. *)
OwnPipeline == [p \in Pipelines |-> p]

(* All pipelines are of one process. *)
OneProcess == [p \in Pipelines |-> CHOOSE q \in Processes : TRUE]
=============================================================================
