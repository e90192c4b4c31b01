----------------------------- MODULE MCEtcdJoin -----------------------------
(* Constants for model-checking EtcdJoin: three nodes in inventory order,  *)
(* and the steps at which a fault may hit a run.                           *)
EXTENDS EtcdJoin

CONSTANTS n1, n2, n3

MCOrder == <<n1, n2, n3>>

MCAnywhere == Active
=============================================================================
