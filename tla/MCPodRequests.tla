---------------------------- MODULE MCPodRequests ----------------------------
(* An instance of PodRequests for TLC: two kinds that pull apart, so that  *)
(* the largest CPU and the largest memory come from different containers.  *)
EXTENDS PodRequests

MCKinds == {"cpu", "mem"}
MCAmounts == {r \in [MCKinds -> 0..2] : r["cpu"] + r["mem"] \in {2, 3}}
=============================================================================
