------------------------------ MODULE MCReport ------------------------------
(* An instance of CommandLine, Report and Aggregate.  Sums of different    *)
(* sets of pods or nodes differ, but both nodes are of the same size.      *)
EXTENDS CommandLine

MCNodes == {11, 12}
MCPods == {1, 2}
MCNamespaces == {1, 2}
MCGroups == {1, 2}
MCAllocatable == [n \in MCNodes |-> 8]
MCNodeUsage == [n \in MCNodes |-> IF n = 11 THEN 5 ELSE 0]
MCRequests == [p \in MCPods |-> p]
MCPodUsage == [p \in MCPods |-> IF p = 1 THEN 3 ELSE 0]
=============================================================================
