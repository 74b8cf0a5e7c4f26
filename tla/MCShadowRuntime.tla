--------------------------- MODULE MCShadowRuntime ---------------------------
(***************************************************************************)
(* Small instances of ShadowRuntime for TLC.                               *)
(***************************************************************************)
EXTENDS ShadowRuntime, TLC

CONSTANTS r1, r2, h1, h2, eurusd, gbpusd, low, high

\* Two replicas with a runtime each, or two runtimes of one leader.
TwoReplicas == (r1 :> h1) @@ (r2 :> h2)
OneReplica == [r \in Runtime |-> h1]

\* Replicas and their runtimes can only be exchanged together.
ReplicaSymmetry ==
    {[x \in {r1, r2, h1, h2} |-> x],
     (r1 :> r2) @@ (r2 :> r1) @@ (h1 :> h2) @@ (h2 :> h1)}

Symmetry == Permutations(Instrument) \union Permutations(Level)
=============================================================================
