-------------------------- MODULE MCExecutionLease --------------------------
(***************************************************************************)
(* Small instances of ExecutionLease for TLC.                              *)
(***************************************************************************)
EXTENDS ExecutionLease

CONSTANTS a, b, hostname

\* All replicas present one name: the worst case for telling them apart.
MCReplicaName == [p \in Process |-> hostname]
=============================================================================
