------------------------------ MODULE Aggregate ------------------------------
(***************************************************************************)
(* aggregate (internal/kube/aggregate.go): one pass over the nodes and one *)
(* over the pods of a snapshot that fill the node groups, the namespaces   *)
(* and the totals of model.Cluster.  Nodes and pods are read in any order  *)
(* and chosen as they are read.  They come from separate queries, so a pod *)
(* may run on a node that the list of nodes does not have, or live in a    *)
(* namespace that the list of namespaces does not have.                    *)
(*                                                                         *)
(* One number stands for CPU and memory, which are added alike; a pod's    *)
(* requests are the result of PodRequests.  Names are numbers, in the      *)
(* order of the strings; an absent and an empty name are both NoName.      *)
(***************************************************************************)
EXTENDS StableSort, FiniteSetsExt

CONSTANTS
  Nodes, Pods, Namespaces,
  Groups,       \* the names that labels and roles give node groups
  Allocatable,  \* for each node: what pods may request of it
  NodeUsage,    \* for each node: its sample, 0 without one
  Requests,     \* for each pod: PodRequests
  PodUsage      \* for each pod: its sample, 0 without one

NoName == 0

ASSUME NamesAssumption ==
  /\ Nodes \subseteq Nat /\ Groups \subseteq Nat /\ Pods \subseteq Nat /\ Namespaces \subseteq Nat
  /\ NoName \notin Nodes \cup Groups
  /\ IsFiniteSet(Namespaces)  \* those a snapshot lists are a list
  /\ \A n \in Nodes : Allocatable[n] \in Nat /\ NodeUsage[n] \in Nat
  /\ \A p \in Pods : Requests[p] \in Nat /\ PodUsage[p] \in Nat

VARIABLES
  detail,        \* Aggregate (TRUE) or AggregateOverview
  nodeMetricsOK,
  podMetricsOK,
  stage,         \* the loop that runs: "nodes", "pods", then "done"
  groupOfNode,   \* for each node read: its group
  tainted,       \* the nodes read that have a taint
  podList,       \* for each pod read: its namespace, its node, and released
  cluster,       \* the totals: allocatable, requested, used
  groups,        \* for each group: its groupAccumulator
  order,         \* the groups in the order they came up
  namespaces,    \* for each namespace: requested, used, pods
  pods           \* cluster.Pods: the entries of all namespaces

input == <<detail, nodeMetricsOK, podMetricsOK>>
vars == <<input, stage, groupOfNode, tainted, podList, cluster, groups, order, namespaces, pods>>

Empty == <<>>  \* the function without arguments
EmptyGroup == [nodes |-> 0, tainted |-> FALSE, allocatable |-> 0, requested |-> 0, used |-> 0]
EmptyNamespace == [requested |-> 0, used |-> 0, pods |-> 0]

Init ==
  /\ detail \in BOOLEAN /\ nodeMetricsOK \in BOOLEAN
  /\ podMetricsOK \in IF detail THEN BOOLEAN ELSE {FALSE}
  /\ stage = "nodes"
  /\ groupOfNode = Empty /\ tainted = {} /\ podList = Empty
  /\ cluster = [allocatable |-> 0, requested |-> 0, used |-> 0]
  /\ groups = Empty /\ order = <<>>
  /\ namespaces = Empty /\ pods = {}

At(f, x, default) == IF x \in DOMAIN f THEN f[x] ELSE default
Put(f, x, y) == [z \in DOMAIN f \cup {x} |-> IF z = x THEN y ELSE f[z]]

-----------------------------------------------------------------------------
(* The loop over the nodes *)

\* the last strategy that knows a name wins
BugNodeGroupName(node, answers) ==
  LET named == {i \in DOMAIN answers : answers[i] # NoName}
  IN  IF named = {} THEN NoName ELSE answers[Max(named)]

\* NodeGroupName: the first strategy that knows a name gives it; a node for
\* which none does is a group of its own.
NodeGroupName(node, answers) ==
  LET named == {i \in DOMAIN answers : answers[i] # NoName}
  IN  IF named = {} THEN node ELSE answers[Min(named)]

\* the taints of the last node decide
BugTaint(g, taint) == taint

\* g.tainted || IsTainted(node)
Taint(g, taint) == g.tainted \/ taint

ReadNode(n, answers, taint) ==
  LET name == NodeGroupName(n, answers)
      g == At(groups, name, EmptyGroup)
      usage == IF nodeMetricsOK THEN NodeUsage[n] ELSE 0
  IN  /\ stage = "nodes" /\ n \notin DOMAIN groupOfNode
      /\ groupOfNode' = Put(groupOfNode, n, name)
      /\ tainted' = IF taint THEN tainted \cup {n} ELSE tainted
      /\ groups' = Put(groups, name, [g EXCEPT !.nodes = @ + 1, !.tainted = Taint(g, taint),
                                               !.allocatable = @ + Allocatable[n], !.used = @ + usage])
      /\ order' = IF name \in DOMAIN groups THEN order ELSE Append(order, name)
      /\ cluster' = [cluster EXCEPT !.allocatable = @ + Allocatable[n], !.used = @ + usage]
      /\ UNCHANGED <<input, stage, podList, namespaces, pods>>

\* Every namespace that the snapshot lists gets a row, with pods or without.
\* The overview lists none.
NodesDone(listed) ==
  /\ stage = "nodes" /\ stage' = "pods"
  /\ namespaces' = IF detail THEN [ns \in listed |-> EmptyNamespace] ELSE Empty
  /\ UNCHANGED <<input, groupOfNode, tainted, podList, cluster, groups, order, pods>>

-----------------------------------------------------------------------------
(* The loop over the pods *)

\* pods that wait for a node count
BugCountsTowardsRequests(node, released) == ~released

\* CountsTowardsRequests: neither finished nor waiting for a node.
CountsTowardsRequests(node, released) == ~released /\ node # NoName

BugWithRequests(p, node) == \* only with detail
  LET name == At(groupOfNode, node, NoName)
  IN  IF detail /\ name \in DOMAIN groups THEN [groups EXCEPT ![name].requested = @ + Requests[p]] ELSE groups

\* The groups with the requests of p, if the group of its node is known.
WithRequests(p, node) ==
  LET name == At(groupOfNode, node, NoName)
  IN  IF name \in DOMAIN groups THEN [groups EXCEPT ![name].requested = @ + Requests[p]] ELSE groups

\* every pod finds an empty row
BugEnsureNamespace(ns) == EmptyNamespace

\* ensureNamespace: a pod may live in a namespace that was not listed.
EnsureNamespace(ns) == At(namespaces, ns, EmptyNamespace)

\* With detail: the entry of p, and its share of its namespace.
Enter(p, ns, node) ==
  LET used == IF podMetricsOK THEN PodUsage[p] ELSE 0
      row == EnsureNamespace(ns)
  IN  /\ pods' = pods \cup {[name |-> p, namespace |-> ns, node |-> node,
                             requested |-> Requests[p], used |-> used,
                             usageKnown |-> podMetricsOK]}
      /\ namespaces' = Put(namespaces, ns, [requested |-> row.requested + Requests[p],
                                             used |-> row.used + used,
                                             pods |-> row.pods + 1])

ReadPod(p, ns, node, released) ==
  /\ stage = "pods" /\ p \notin DOMAIN podList
  /\ podList' = Put(podList, p, [namespace |-> ns, node |-> node, released |-> released])
  /\ IF CountsTowardsRequests(node, released)
     THEN /\ cluster' = [cluster EXCEPT !.requested = @ + Requests[p]]
          /\ groups' = WithRequests(p, node)
          /\ IF detail THEN Enter(p, ns, node) ELSE UNCHANGED <<namespaces, pods>>
     ELSE UNCHANGED <<cluster, groups, namespaces, pods>>
  /\ UNCHANGED <<input, stage, groupOfNode, tainted, order>>

\* by size alone: what came up first stays first
BugBefore(a, b) == groups[a].allocatable > groups[b].allocatable

\* The order of the node groups: the biggest first, then by name.
Before(a, b) ==
  \/ groups[a].allocatable > groups[b].allocatable
  \/ groups[a].allocatable = groups[b].allocatable /\ a < b

PodsDone ==
  /\ stage = "pods" /\ stage' = "done"
  /\ order' = StableSort(order, {p \in (1..Len(order)) \X (1..Len(order)) : Before(order[p[1]], order[p[2]])})
  /\ UNCHANGED <<input, groupOfNode, tainted, podList, cluster, groups, namespaces, pods>>

-----------------------------------------------------------------------------
\* The labels that are configured and those that are built in, with the roles.
Answers == [1..2 -> Groups \cup {NoName}]

Next ==
  \/ \E n \in Nodes, answers \in Answers, taint \in BOOLEAN : ReadNode(n, answers, taint)
  \/ \E listed \in SUBSET Namespaces : NodesDone(listed)
  \/ \E p \in Pods, ns \in Namespaces, node \in Nodes \cup {NoName}, released \in BOOLEAN :
       ReadPod(p, ns, node, released)
  \/ PodsDone

Spec == Init /\ [][Next]_vars
-----------------------------------------------------------------------------
(* Properties *)

GroupNames == Groups \cup Nodes
Accumulators == [nodes : Nat, tainted : BOOLEAN, allocatable : Nat, requested : Nat, used : Nat]

TypeOK ==
  /\ detail \in BOOLEAN /\ nodeMetricsOK \in BOOLEAN /\ podMetricsOK \in BOOLEAN
  /\ stage \in {"nodes", "pods", "done"}
  /\ DOMAIN groupOfNode \subseteq Nodes /\ tainted \subseteq Nodes
  /\ DOMAIN podList \subseteq Pods
  /\ \A p \in DOMAIN podList :
       podList[p] \in [namespace : Namespaces, node : Nodes \cup {NoName}, released : BOOLEAN]
  /\ cluster \in [allocatable : Nat, requested : Nat, used : Nat]
  /\ DOMAIN groups \subseteq GroupNames /\ order \in Seq(GroupNames)
  /\ \A g \in DOMAIN groups : groups[g] \in Accumulators
  /\ DOMAIN namespaces \subseteq Namespaces
  /\ \A ns \in DOMAIN namespaces : namespaces[ns] \in [requested : Nat, used : Nat, pods : Nat]
  /\ pods \subseteq [name : Pods, namespace : Namespaces, node : Nodes,
                     requested : Nat, used : Nat, usageKnown : BOOLEAN]

\* The pods that reserve something on a node.
Reserving == {p \in DOMAIN podList : ~podList[p].released /\ podList[p].node # NoName}
Members(g) == {n \in DOMAIN groupOfNode : groupOfNode[n] = g}
PodsOn(S) == {p \in Reserving : podList[p].node \in S}
Requested(S) == SumFunctionOnSet(Requests, S)

(***************************************************************************)
(* A group is the sum of its nodes: every node counts in one group, and a  *)
(* group that has one tainted node is tainted, wherever in the list it is. *)
(***************************************************************************)
GroupsAreTheirNodes ==
  /\ DOMAIN groups = {groupOfNode[n] : n \in DOMAIN groupOfNode}
  /\ \A g \in DOMAIN groups :
       /\ groups[g].nodes = Cardinality(Members(g))
       /\ groups[g].tainted <=> Members(g) \cap tainted # {}
       /\ groups[g].allocatable = SumFunctionOnSet(Allocatable, Members(g))
       /\ groups[g].used = IF nodeMetricsOK THEN SumFunctionOnSet(NodeUsage, Members(g)) ELSE 0

(***************************************************************************)
(* A group has the requests of exactly the pods on its nodes, in the       *)
(* overview as well as with all detail.  Pods on a node that came or went  *)
(* between the two queries are in no group.                                *)
(***************************************************************************)
GroupsGetTheirPods ==
  \A g \in DOMAIN groups : groups[g].requested = Requested(PodsOn(Members(g)))

(***************************************************************************)
(* The totals in the header agree with the tables below: with the groups,  *)
(* but for the pods on nodes that are not listed, and with the namespaces. *)
(***************************************************************************)
TotalsAddUp ==
  /\ cluster.allocatable = SumFunction([g \in DOMAIN groups |-> groups[g].allocatable])
  /\ cluster.used = SumFunction([g \in DOMAIN groups |-> groups[g].used])
  /\ cluster.requested = SumFunction([g \in DOMAIN groups |-> groups[g].requested])
                           + Requested(PodsOn(Nodes \ DOMAIN groupOfNode))
  /\ detail => cluster.requested = SumFunction([ns \in DOMAIN namespaces |-> namespaces[ns].requested])

(***************************************************************************)
(* The row of a namespace is the sum of the rows on its pods screen, and   *)
(* no pod is without the row that leads to it: also when its namespace was *)
(* not listed, or the listing failed.                                      *)
(***************************************************************************)
EntriesOf(ns) == {e \in pods : e.namespace = ns}
NamespacesAreTheirPods ==
  /\ {e.namespace : e \in pods} \subseteq DOMAIN namespaces
  /\ \A ns \in DOMAIN namespaces :
       /\ namespaces[ns].pods = Cardinality(EntriesOf(ns))
       /\ namespaces[ns].requested = SumFunction([e \in EntriesOf(ns) |-> e.requested])
       /\ namespaces[ns].used = SumFunction([e \in EntriesOf(ns) |-> e.used])

(***************************************************************************)
(* The order of the groups is settled by the groups, not by the order in   *)
(* which the server lists the nodes: refreshing moves no row.              *)
(***************************************************************************)
GroupsSettled ==
  stage = "done" =>
    /\ Len(order) = Cardinality(DOMAIN groups)
    /\ \A i, j \in DOMAIN order : i < j =>
         LET a == groups[order[i]].allocatable
             b == groups[order[j]].allocatable
         IN  a > b \/ (a = b /\ order[i] < order[j])
=============================================================================
