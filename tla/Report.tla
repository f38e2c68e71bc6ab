------------------------------- MODULE Report -------------------------------
(***************************************************************************)
(* The reports of the command line (internal/output/report.go): functions  *)
(* of the cluster that Aggregate has computed.  A report has no state, so  *)
(* the properties here are about every final state of Aggregate.           *)
(***************************************************************************)
EXTENDS Aggregate

CONSTANT Null  \* a JSON null, an empty CSV field

ASSUME NullAssumption == Null \notin Int \cup Nat \X Nat

\* every pod whose node is listed
BugSelectPods(g) == {e \in pods : g = NoName \/ e.node \in DOMAIN groupOfNode}

\* selectPods: all pods, or those on the nodes of a group.
SelectPods(g) == {e \in pods : g = NoName \/ At(groupOfNode, e.node, NoName) = g}

\* newMetric: a percentage is kept as a fraction.
NewMetric(requested, used, known) ==
  [requested |-> requested,
   used      |-> IF known THEN used ELSE Null,
   waste     |-> IF known THEN requested - used ELSE Null,
   percent   |-> IF known /\ requested # 0 THEN <<used, requested>> ELSE Null]

\* BuildOverview
Overview(g) ==
  [name \in {n \in DOMAIN groups : g \in {NoName, n}} |->
     NewMetric(groups[name].requested, groups[name].used, nodeMetricsOK)]

\* the fold starts from a summary that does not know its usage
BugFoldSummary(S) ==
  NewMetric(SumFunction([e \in S |-> e.requested]), SumFunction([e \in S |-> e.used]), FALSE)

\* The summaries of the pods in S merged by Summary.Add, from one that knows
\* its usage if the first of them does: known when all of them know theirs.
FoldSummary(S) ==
  NewMetric(SumFunction([e \in S |-> e.requested]), SumFunction([e \in S |-> e.used]),
            \A e \in S : e.usageKnown)

\* BuildNamespaces: the rows of the cluster, or rows made of the pods on the
\* nodes of a group.
NamespaceReport(g) ==
  IF g = NoName
  THEN [ns \in DOMAIN namespaces |->
          NewMetric(namespaces[ns].requested, namespaces[ns].used, podMetricsOK)]
  ELSE [ns \in {e.namespace : e \in SelectPods(g)} |->
          FoldSummary({e \in SelectPods(g) : e.namespace = ns})]

\* BuildPods
PodReport(g) == [e \in SelectPods(g) |-> NewMetric(e.requested, e.used, e.usageKnown)]

-----------------------------------------------------------------------------
(* Properties *)

Reported(r) == SumFunction([x \in DOMAIN r |-> r[x].requested])

(***************************************************************************)
(* The scopes agree about a node group: what its row in the overview says  *)
(* is requested is what its namespaces, and its pods, request together.    *)
(***************************************************************************)
ScopesAgree ==
  stage = "done" /\ detail =>
    \A g \in DOMAIN groups :
      /\ Overview(g)[g].requested = Reported(NamespaceReport(g))
      /\ Overview(g)[g].requested = Reported(PodReport(g))

(***************************************************************************)
(* The reports of all node groups make up the report of the cluster: in    *)
(* every namespace they add up to its row, usage included, but for pods on *)
(* nodes that are not listed; and where one knows the usage all do.        *)
(***************************************************************************)
GroupsMakeUpNamespaces ==
  stage = "done" /\ detail =>
    \A ns \in DOMAIN namespaces :
      LET all == NamespaceReport(NoName)[ns]
          in == {g \in DOMAIN groups : ns \in DOMAIN NamespaceReport(g)}
          stray == {e \in EntriesOf(ns) : e.node \notin DOMAIN groupOfNode}
      IN  /\ all.requested = SumFunction([g \in in |-> NamespaceReport(g)[ns].requested])
                               + SumFunction([e \in stray |-> e.requested])
          /\ \A g \in in : NamespaceReport(g)[ns].used = Null <=> all.used = Null
          /\ all.used # Null =>
               all.used = SumFunction([g \in in |-> NamespaceReport(g)[ns].used])
                            + SumFunction([e \in stray |-> e.used])
=============================================================================
