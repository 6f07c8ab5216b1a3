---------------------------- MODULE MCKubeCache ----------------------------
(* The cache with two resources: pods, which change, and nodes.            *)
EXTENDS KubeCache

CONSTANTS pod1, pod2, pod3, node1, node2

\* A pod is replaced by two.
MCStates == <<<<{pod1}, {pod2, pod3}>>, <<{node1, node2}>>>>
=============================================================================
