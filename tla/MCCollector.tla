----------------------------- MODULE MCCollector -----------------------------
(* An instance of Collector for TLC: nodes and pods in two pages. *)
EXTENDS Collector

MCPages == [q \in Queries |-> IF q \in {"nodes", "pods"} THEN 2 ELSE 1]
=============================================================================
