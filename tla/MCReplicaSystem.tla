----------------------------- MODULE MCReplicaSystem -----------------------------
(***************************************************************************)
(* Instances of ReplicaSystem for TLC: one or two replicas of a workload.  *)
(***************************************************************************)
EXTENDS ReplicaSystem, TLC

CONSTANTS a, b   \* the names of the replicas

\* Where all replicas start alike and nothing temporal is checked.
ReplicaNames == Permutations(Replica)
=============================================================================
