-------------------------- MODULE MCConsulElection --------------------------
(* Constants for model-checking ConsulElection: the classes of faults. *)
EXTENDS ConsulElection

MCFaultsAll == FaultClass \ {"kv"}
=============================================================================
