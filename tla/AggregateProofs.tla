--------------------------- MODULE AggregateProofs ---------------------------
(* Theorems about Aggregate, for any nodes, pods, labels and amounts. *)
EXTENDS Aggregate, LibraryProofs

\* A group comes up once, and then has an accumulator.
OrderLists ==
  /\ \A i, j \in 1..Len(order) : order[i] = order[j] => i = j
  /\ \A i \in 1..Len(order) : order[i] \in DOMAIN groups
  /\ \A g \in DOMAIN groups : \E i \in 1..Len(order) : order[i] = g

Sorted == \A i, j \in 1..Len(order) : i < j => Before(order[i], order[j])

\* What has been read is finite, and pods come after the nodes.
ReadSoFar ==
  /\ IsFiniteSet(DOMAIN groupOfNode) /\ IsFiniteSet(DOMAIN podList) /\ IsFiniteSet(pods)
  /\ IsFiniteSet(DOMAIN groups) /\ IsFiniteSet(DOMAIN namespaces)
  /\ tainted \subseteq DOMAIN groupOfNode
  /\ stage = "nodes" => podList = Empty /\ namespaces = Empty

\* cluster.Pods has one entry for each pod that reserves something, with detail.
EntryOf(p) ==
  [name |-> p, namespace |-> podList[p].namespace, node |-> podList[p].node,
   requested |-> Requests[p], used |-> IF podMetricsOK THEN PodUsage[p] ELSE 0,
   usageKnown |-> podMetricsOK]
PodsAreEntries == pods = IF detail THEN {EntryOf(p) : p \in Reserving} ELSE {}

(***************************************************************************)
(* The inductive invariant.  The sums of the run need each other: a pod    *)
(* finds the group of its node only because every node that was read has   *)
(* one (GroupsAreTheirNodes), and what it adds to the totals it adds to    *)
(* exactly one of the groups or to the pods on nodes that are not listed.  *)
(* That its entry is a new one, and is not lost in the set of entries,     *)
(* follows from PodsAreEntries.  Before compares names only between groups *)
(* of the same size, so that it settles the order rests on OrderLists: no  *)
(* name is listed twice.                                                   *)
(***************************************************************************)
Inv ==
  /\ TypeOK
  /\ OrderLists
  /\ stage = "done" => Sorted
  /\ ReadSoFar
  /\ PodsAreEntries
  /\ GroupsAreTheirNodes
  /\ GroupsGetTheirPods
  /\ TotalsAddUp
  /\ NamespacesAreTheirPods

LEMMA NodeGroupNameType ==
  ASSUME NEW n \in Nodes, NEW answers \in Answers
  PROVE  NodeGroupName(n, answers) \in GroupNames
<1> DEFINE named == {i \in DOMAIN answers : answers[i] # NoName}
<1>1. named \subseteq 1..2 /\ \A i \in named : answers[i] \in Groups
  BY DEF Answers
<1>2. CASE named = {}
  BY <1>2 DEF NodeGroupName, GroupNames
<1>3. CASE named # {}
  <2>1. \E i \in named : \A j \in named : i =< j
    <3>1. CASE 1 \in named
      BY <1>1, <3>1
    <3>2. CASE 1 \notin named
      BY <1>1, <1>3, <3>2
    <3> QED BY <3>1, <3>2
  <2>2. Min(named) \in named
    BY <2>1 DEF Min
  <2>3. NodeGroupName(n, answers) = answers[Min(named)]
    BY <1>3 DEF NodeGroupName
  <2> QED BY <1>1, <2>2, <2>3 DEF GroupNames
<1> QED BY <1>2, <1>3

-----------------------------------------------------------------------------
(* The initial state *)

LEMMA InvInit == Init => Inv
<1> SUFFICES ASSUME Init PROVE Inv
  OBVIOUS
<1>1. DOMAIN Empty = {} /\ DOMAIN groups = {} /\ DOMAIN groupOfNode = {} /\ DOMAIN podList = {}
      /\ DOMAIN namespaces = {} /\ pods = {} /\ Len(order) = 0 /\ order \in Seq(GroupNames)
  BY DEF Init, Empty
<1>2. TypeOK
  BY <1>1 DEF Init, TypeOK
<1>3. OrderLists /\ (stage = "done" => Sorted)
  BY <1>1 DEF Init, OrderLists
<1>4. ReadSoFar
  BY <1>1, FS_EmptySet DEF Init, ReadSoFar
<1>5. Reserving = {} /\ PodsAreEntries
  BY <1>1 DEF Reserving, PodsAreEntries
<1>6. \A S : Requested(PodsOn(S)) = 0
  BY <1>5, SumOfNone DEF Requested, PodsOn
<1>7. GroupsAreTheirNodes /\ GroupsGetTheirPods /\ NamespacesAreTheirPods
  BY <1>1 DEF GroupsAreTheirNodes, GroupsGetTheirPods, NamespacesAreTheirPods
<1>8. TotalsAddUp
  <2>1. /\ SumFunction([g \in DOMAIN groups |-> groups[g].allocatable]) = 0
        /\ SumFunction([g \in DOMAIN groups |-> groups[g].used]) = 0
        /\ SumFunction([g \in DOMAIN groups |-> groups[g].requested]) = 0
        /\ SumFunction([ns \in DOMAIN namespaces |-> namespaces[ns].requested]) = 0
    BY <1>1, SumOfNone DEF SumFunction
  <2> QED BY <1>6, <2>1 DEF Init, TotalsAddUp
<1> QED BY <1>2, <1>3, <1>4, <1>5, <1>7, <1>8 DEF Inv

-----------------------------------------------------------------------------
(* The loop over the nodes *)

\* What GroupsAreTheirNodes says of the accumulator a of the nodes in M, of
\* which those in T are tainted.
SumsUp(a, M, T) ==
  /\ a.nodes = Cardinality(M)
  /\ a.tainted <=> M \cap T # {}
  /\ a.allocatable = SumFunctionOnSet(Allocatable, M)
  /\ a.used = IF nodeMetricsOK THEN SumFunctionOnSet(NodeUsage, M) ELSE 0

LEMMA GroupsSumUp ==
  GroupsAreTheirNodes <=>
    /\ DOMAIN groups = {groupOfNode[n] : n \in DOMAIN groupOfNode}
    /\ \A g \in DOMAIN groups : SumsUp(groups[g], Members(g), tainted)
BY DEF GroupsAreTheirNodes, SumsUp

LEMMA NothingRequested ==
  ASSUME Inv, stage = "nodes"
  PROVE  /\ Reserving = {} /\ pods = {} /\ DOMAIN namespaces = {}
         /\ \A S : PodsOn(S) = {} /\ Requested(PodsOn(S)) = 0
<1>1. DOMAIN podList = {} /\ DOMAIN namespaces = {}
  BY DEF Inv, ReadSoFar, Empty
<1>2. Reserving = {}
  BY <1>1 DEF Reserving
<1> QED BY <1>1, <1>2, SumOfNone DEF Inv, PodsAreEntries, PodsOn, Requested

\* The accumulator g with one more node.
WithNode(g, allocatable, used, taint) ==
  [g EXCEPT !.nodes = @ + 1, !.tainted = Taint(g, taint), !.allocatable = @ + allocatable, !.used = @ + used]

LEMMA NodeCounted ==
  ASSUME NEW g \in Accumulators, NEW a \in Nat, NEW u \in Nat, NEW t \in BOOLEAN
  PROVE  /\ WithNode(g, a, u, t) \in Accumulators
         /\ WithNode(g, a, u, t).nodes = g.nodes + 1
         /\ WithNode(g, a, u, t).tainted <=> g.tainted \/ t
         /\ WithNode(g, a, u, t).allocatable = g.allocatable + a
         /\ WithNode(g, a, u, t).used = g.used + u
         /\ WithNode(g, a, u, t).requested = g.requested
<1> DEFINE new == [g EXCEPT !.nodes = @ + 1, !.tainted = Taint(g, t), !.allocatable = @ + a, !.used = @ + u]
<1>1. Taint(g, t) \in BOOLEAN /\ (Taint(g, t) <=> g.tainted \/ t)
  BY DEF Taint, Accumulators
<1>2. /\ new.nodes = g.nodes + 1 /\ new.tainted = Taint(g, t)
      /\ new.allocatable = g.allocatable + a /\ new.used = g.used + u
      /\ new.requested = g.requested
  BY DEF Accumulators
<1>3. new \in Accumulators
  <2>1. g.nodes + 1 \in Nat /\ g.allocatable + a \in Nat /\ g.used + u \in Nat
    BY DEF Accumulators
  <2> QED BY <1>1, <2>1, Zenon DEF Accumulators
<1>4. WithNode(g, a, u, t) = new
  BY DEF WithNode
<1> HIDE DEF new
<1> QED BY <1>1, <1>2, <1>3, <1>4

LEMMA ReadNodeKeepsInv ==
  ASSUME Inv, NEW n \in Nodes, NEW answers \in Answers, NEW taint \in BOOLEAN,
         ReadNode(n, answers, taint)
  PROVE  Inv'
<1> DEFINE name == NodeGroupName(n, answers)
           g == At(groups, name, EmptyGroup)
           usage == IF nodeMetricsOK THEN NodeUsage[n] ELSE 0
           new == WithNode(g, Allocatable[n], usage, taint)
           M == Members(name)
<1>1. name \in GroupNames
  BY NodeGroupNameType
<1>2. g \in Accumulators
  BY DEF At, EmptyGroup, Accumulators, Inv, TypeOK
<1>3. Allocatable[n] \in Nat /\ NodeUsage[n] \in Nat /\ usage \in Nat
  BY NamesAssumption
<1>4. /\ stage = "nodes" /\ n \notin DOMAIN groupOfNode
      /\ UNCHANGED <<detail, nodeMetricsOK, podMetricsOK, stage, podList, namespaces, pods>>
      /\ groupOfNode' = Put(groupOfNode, n, name) /\ groups' = Put(groups, name, new)
      /\ order' = IF name \in DOMAIN groups THEN order ELSE Append(order, name)
      /\ tainted' = (IF taint THEN tainted \cup {n} ELSE tainted)
      /\ cluster' = [cluster EXCEPT !.allocatable = @ + Allocatable[n], !.used = @ + usage]
  BY DEF ReadNode, input, WithNode
<1>5. /\ new \in Accumulators
      /\ new.nodes = g.nodes + 1 /\ (new.tainted <=> g.tainted \/ taint)
      /\ new.allocatable = g.allocatable + Allocatable[n] /\ new.used = g.used + usage
      /\ new.requested = g.requested
  <2> HIDE DEF g, usage, new
  <2>1. new = WithNode(g, Allocatable[n], usage, taint)
    BY DEF new
  <2>2. Allocatable[n] \in Nat /\ usage \in Nat /\ g \in Accumulators /\ taint \in BOOLEAN
    BY <1>2, <1>3
  <2>3. new \in Accumulators /\ (new.tainted <=> g.tainted \/ taint)
    BY <2>1, <2>2, NodeCounted, Zenon
  <2>4. new.nodes = g.nodes + 1
    <3>1. \A r \in Accumulators, a, u \in Nat, t \in BOOLEAN : WithNode(r, a, u, t).nodes = r.nodes + 1
      BY NodeCounted
    <3> QED BY <2>1, <2>2, <3>1, Zenon
  <2>5. /\ new.allocatable = g.allocatable + Allocatable[n] /\ new.used = g.used + usage
        /\ new.requested = g.requested
    BY <2>1, <2>2, NodeCounted
  <2> QED BY <2>3, <2>4, <2>5
<1>6. /\ name \in DOMAIN groups => g = groups[name]
      /\ name \notin DOMAIN groups => g = EmptyGroup
  BY DEF At
<1> HIDE DEF name, g, new
<1>7. /\ DOMAIN groups' = DOMAIN groups \cup {name} /\ DOMAIN groupOfNode' = DOMAIN groupOfNode \cup {n}
      /\ groups'[name] = new /\ \A h \in DOMAIN groups : h # name => groups'[h] = groups[h]
      /\ groupOfNode'[n] = name /\ \A m \in DOMAIN groupOfNode : groupOfNode'[m] = groupOfNode[m]
  <2>1. groups' = Put(groups, name, new) /\ groupOfNode' = Put(groupOfNode, n, name) /\ n \notin DOMAIN groupOfNode
    BY <1>4
  <2>2. /\ DOMAIN Put(groups, name, new) = DOMAIN groups \cup {name}
        /\ Put(groups, name, new)[name] = new
        /\ \A h \in DOMAIN groups : h # name => Put(groups, name, new)[h] = groups[h]
    BY DEF Put
  <2>3. /\ DOMAIN Put(groupOfNode, n, name) = DOMAIN groupOfNode \cup {n}
        /\ Put(groupOfNode, n, name)[n] = name
        /\ \A m \in DOMAIN groupOfNode : m # n => Put(groupOfNode, n, name)[m] = groupOfNode[m]
    BY DEF Put
  <2> QED BY <2>1, <2>2, <2>3
<1>8. order \in Seq(GroupNames) /\ order' \in Seq(GroupNames)
  BY <1>1, <1>4 DEF Inv, TypeOK
<1>9. cluster' \in [allocatable : Nat, requested : Nat, used : Nat]
      /\ cluster'.allocatable = cluster.allocatable + Allocatable[n]
      /\ cluster'.used = cluster.used + usage /\ cluster'.requested = cluster.requested
  <2>1. cluster' = [cluster EXCEPT !.allocatable = @ + Allocatable[n], !.used = @ + usage]
    BY <1>4
  <2>2. cluster \in [allocatable : Nat, requested : Nat, used : Nat]
    BY DEF Inv, TypeOK
  <2> HIDE DEF usage
  <2>3. cluster.allocatable + Allocatable[n] \in Nat /\ cluster.used + usage \in Nat
    BY <1>3, <2>2
  <2>4. cluster' \in [allocatable : Nat, requested : Nat, used : Nat]
    BY <2>1, <2>2, <2>3, Zenon
  <2> QED BY <1>3, <2>1, <2>2, <2>4
<1>10. TypeOK'
  <2>1. \A h \in DOMAIN groups' : groups'[h] \in Accumulators
    BY <1>5, <1>7 DEF Inv, TypeOK
  <2>2. DOMAIN groups' \subseteq GroupNames /\ DOMAIN groupOfNode' \subseteq Nodes /\ tainted' \subseteq Nodes
    BY <1>1, <1>4, <1>7 DEF Inv, TypeOK
  <2> QED BY <1>4, <1>8, <1>9, <2>1, <2>2 DEF Inv, TypeOK, GroupNames, Accumulators
<1>11. OrderLists'
  <2>1. CASE name \in DOMAIN groups
    BY <1>4, <1>7, <2>1 DEF Inv, OrderLists
  <2>2. CASE name \notin DOMAIN groups
    <3>1. /\ Len(order') = Len(order) + 1 /\ order'[Len(order) + 1] = name
          /\ \A i \in 1..Len(order) : order'[i] = order[i]
      BY <1>4, <1>8, <2>2
    <3>2. Len(order) \in Nat /\ \A i \in 1..Len(order) : order[i] \in DOMAIN groups
      BY <1>8 DEF Inv, OrderLists
    <3>3. \A i, j \in 1..Len(order') : order'[i] = order'[j] => i = j
      BY <2>2, <3>1, <3>2 DEF Inv, OrderLists
    <3>4. \A i \in 1..Len(order') : order'[i] \in DOMAIN groups'
      BY <1>7, <3>1, <3>2
    <3>5. \A h \in DOMAIN groups' : \E i \in 1..Len(order') : order'[i] = h
      BY <1>7, <3>1, <3>2 DEF Inv, OrderLists
    <3> QED BY <3>3, <3>4, <3>5 DEF OrderLists
  <2> QED BY <2>1, <2>2
<1>12. ReadSoFar'
  BY <1>4, <1>7, FS_AddElement DEF Inv, ReadSoFar
<1>13. PodsAreEntries'
  BY <1>4 DEF Inv, PodsAreEntries, EntryOf, Reserving
<1>14. Members(name)' = M \cup {n} /\ n \notin M /\ \A h : h # name => Members(h)' = Members(h)
  BY <1>4, <1>7 DEF Members
<1>15. IsFiniteSet(M) /\ M \subseteq Nodes /\ \A h \in DOMAIN groups : SumsUp(groups[h], Members(h), tainted)
  <2>1. M \in SUBSET DOMAIN groupOfNode
    BY DEF Members
  <2> QED BY <2>1, GroupsSumUp, FS_Subset DEF Inv, TypeOK, ReadSoFar
<1>16. SumsUp(g, M, tainted)
  <2>1. CASE name \in DOMAIN groups
    BY <1>6, <1>15, <2>1
  <2>2. CASE name \notin DOMAIN groups
    <3>1. M = {}
      BY <2>2 DEF Members, Inv, GroupsAreTheirNodes
    <3> QED BY <1>6, <2>2, <3>1, FS_EmptySet, SumOfNone DEF SumsUp, EmptyGroup
  <2> QED BY <2>1, <2>2
<1>17. SumsUp(new, M \cup {n}, tainted')
  <2>1. new.nodes = Cardinality(M \cup {n})
    <3>1. IsFiniteSet(M) /\ n \notin M
      BY <1>14, <1>15
    <3>2. Cardinality(M \cup {n}) = Cardinality(M) + 1
      BY <3>1, FS_AddElement
    <3> QED BY <1>5, <1>16, <3>2 DEF SumsUp
  <2>2. new.tainted <=> (M \cup {n}) \cap tainted' # {}
    <3>1. n \notin tainted
      BY <1>4 DEF Inv, ReadSoFar
    <3>2. new.tainted <=> (M \cap tainted # {}) \/ taint
      BY <1>5, <1>16 DEF SumsUp
    <3>3. CASE taint
      BY <1>4, <3>2, <3>3
    <3>4. CASE ~taint
      BY <1>4, <3>1, <3>2, <3>4
    <3> QED BY <3>3, <3>4
  <2>3. new.allocatable = SumFunctionOnSet(Allocatable, M \cup {n})
    <3>1. \A m \in M : Allocatable[m] \in Nat
      BY <1>15, NamesAssumption
    <3>2. SumFunctionOnSet(Allocatable, M \cup {n}) = SumFunctionOnSet(Allocatable, M) + Allocatable[n]
      BY <1>3, <1>14, <1>15, <3>1, SumWith
    <3> QED BY <1>5, <1>16, <3>2 DEF SumsUp
  <2>4. new.used = IF nodeMetricsOK THEN SumFunctionOnSet(NodeUsage, M \cup {n}) ELSE 0
    <3>1. \A m \in M : NodeUsage[m] \in Nat
      BY <1>15, NamesAssumption
    <3>2. SumFunctionOnSet(NodeUsage, M \cup {n}) = SumFunctionOnSet(NodeUsage, M) + NodeUsage[n]
      BY <1>3, <1>14, <1>15, <3>1, SumWith
    <3> QED BY <1>5, <1>16, <3>2 DEF SumsUp
  <2> QED BY <2>1, <2>2, <2>3, <2>4 DEF SumsUp
<1>18. GroupsAreTheirNodes'
  <2>1. DOMAIN groups' = {groupOfNode'[m] : m \in DOMAIN groupOfNode'}
    BY <1>4, <1>7 DEF Inv, GroupsAreTheirNodes
  <2>2. SumsUp(groups'[name], Members(name)', tainted')
    BY <1>7, <1>14, <1>17
  <2>3. ASSUME NEW h \in DOMAIN groups, h # name
        PROVE  SumsUp(groups'[h], Members(h)', tainted')
    <3>1. Members(h)' = Members(h) /\ groups'[h] = groups[h] /\ n \notin Members(h)
      BY <1>4, <1>7, <1>14, <2>3 DEF Members
    <3>2. Members(h) \cap tainted' = Members(h) \cap tainted
      BY <1>4, <3>1
    <3> QED BY <1>15, <3>1, <3>2 DEF SumsUp
  <2>4. \A h \in DOMAIN groups' : SumsUp(groups'[h], Members(h)', tainted')
    BY <1>7, <2>2, <2>3
  <2> QED BY <1>4, <2>1, <2>4 DEF GroupsAreTheirNodes, SumsUp
<1>19. Reserving' = {} /\ \A S : PodsOn(S)' = {} /\ Requested(PodsOn(S))' = 0
  BY <1>4, NothingRequested, SumOfNone DEF Reserving, PodsOn, Requested
<1>20. GroupsGetTheirPods'
  <2>1. \A h \in DOMAIN groups : groups[h].requested = 0
    BY <1>4, NothingRequested DEF Inv, GroupsGetTheirPods
  <2>2. new.requested = 0
    BY <1>5, <1>6, <2>1 DEF EmptyGroup
  <2>3. \A h \in DOMAIN groups' : groups'[h].requested = 0
    BY <1>7, <2>1, <2>2
  <2> QED BY <1>19, <2>3 DEF GroupsGetTheirPods
<1>21. \A h \in DOMAIN groups : groups[h] \in Accumulators
  BY DEF Inv, TypeOK
<1>22. /\ SumFunction([h \in DOMAIN groups' |-> groups'[h].allocatable])
           = SumFunction([h \in DOMAIN groups |-> groups[h].allocatable]) + Allocatable[n]
      /\ SumFunction([h \in DOMAIN groups' |-> groups'[h].used])
           = SumFunction([h \in DOMAIN groups |-> groups[h].used]) + usage
  <2>1. ASSUME NEW v, NEW w, NEW d \in Nat,
               DOMAIN v = DOMAIN groups', DOMAIN w = DOMAIN groups,
               \A h \in DOMAIN groups : w[h] \in Nat /\ (h # name => v[h] = w[h]),
               v[name] = (IF name \in DOMAIN groups THEN w[name] ELSE 0) + d
        PROVE  SumFunction(v) = SumFunction(w) + d
    <3>1. IsFiniteSet(DOMAIN groups) /\ DOMAIN groups' = DOMAIN groups \cup {name}
      BY <1>7 DEF Inv, ReadSoFar
    <3> QED BY <2>1, <3>1, SumOfFunctionGrows
  <2>2. SumFunction([h \in DOMAIN groups' |-> groups'[h].allocatable])
          = SumFunction([h \in DOMAIN groups |-> groups[h].allocatable]) + Allocatable[n]
    <3> DEFINE v == [h \in DOMAIN groups' |-> groups'[h].allocatable]
               w == [h \in DOMAIN groups |-> groups[h].allocatable]
    <3>1. DOMAIN v = DOMAIN groups' /\ DOMAIN w = DOMAIN groups
      OBVIOUS
    <3>2. \A h \in DOMAIN groups : w[h] \in Nat /\ (h # name => v[h] = w[h])
      BY <1>7, <1>21 DEF Accumulators
    <3>3. v[name] = (IF name \in DOMAIN groups THEN w[name] ELSE 0) + Allocatable[n]
      BY <1>3, <1>5, <1>6, <1>7 DEF EmptyGroup
    <3> HIDE DEF v, w
    <3>4. SumFunction(v) = SumFunction(w) + Allocatable[n]
      BY <1>3, <2>1, <3>1, <3>2, <3>3
    <3> QED BY <3>4 DEF v, w
  <2>3. SumFunction([h \in DOMAIN groups' |-> groups'[h].used])
          = SumFunction([h \in DOMAIN groups |-> groups[h].used]) + usage
    <3> DEFINE v == [h \in DOMAIN groups' |-> groups'[h].used]
               w == [h \in DOMAIN groups |-> groups[h].used]
    <3>1. DOMAIN v = DOMAIN groups' /\ DOMAIN w = DOMAIN groups
      OBVIOUS
    <3>2. \A h \in DOMAIN groups : w[h] \in Nat /\ (h # name => v[h] = w[h])
      BY <1>7, <1>21 DEF Accumulators
    <3>3. v[name] = (IF name \in DOMAIN groups THEN w[name] ELSE 0) + usage
      BY <1>3, <1>5, <1>6, <1>7 DEF EmptyGroup
    <3> HIDE DEF v, w, usage
    <3>4. SumFunction(v) = SumFunction(w) + usage
      BY <1>3, <2>1, <3>1, <3>2, <3>3
    <3> QED BY <3>4 DEF v, w
  <2> QED BY <2>2, <2>3
<1>23. /\ SumFunction([h \in DOMAIN groups |-> groups[h].requested]) = 0
       /\ SumFunction([h \in DOMAIN groups' |-> groups'[h].requested]) = 0
  <2>1. \A h \in DOMAIN groups : groups[h].requested = 0
    BY <1>4, NothingRequested DEF Inv, GroupsGetTheirPods
  <2>2. \A h \in DOMAIN groups' : groups'[h].requested = 0
    BY <1>5, <1>6, <1>7, <2>1 DEF EmptyGroup
  <2>3. IsFiniteSet(DOMAIN groups) /\ IsFiniteSet(DOMAIN groups')
    BY <1>12 DEF Inv, ReadSoFar
  <2> DEFINE w == [h \in DOMAIN groups |-> groups[h].requested]
             v == [h \in DOMAIN groups' |-> groups'[h].requested]
  <2>4. \A h \in DOMAIN groups : w[h] = 0
    BY <2>1
  <2>5. \A h \in DOMAIN groups' : v[h] = 0
    BY <2>2
  <2>6. DOMAIN v = DOMAIN groups' /\ DOMAIN w = DOMAIN groups
    OBVIOUS
  <2> HIDE DEF v, w
  <2>7. SumFunction(v) = 0 /\ SumFunction(w) = 0
    BY <2>3, <2>4, <2>5, <2>6, SumOfZeros DEF SumFunction
  <2> QED BY <2>7 DEF v, w
<1>24. TotalsAddUp'
  <2>1. cluster.requested = 0 /\ cluster'.requested = 0
    BY <1>4, <1>9, <1>23, NothingRequested DEF Inv, TotalsAddUp
  <2>2. SumFunction([ns \in DOMAIN namespaces |-> namespaces[ns].requested]) = 0
    BY <1>4, NothingRequested, SumOfNone DEF SumFunction
  <2>3. SumFunction([ns \in DOMAIN namespaces' |-> namespaces'[ns].requested]) = 0
    BY <1>4, <2>2
  <2>4. cluster'.requested = SumFunction([h \in DOMAIN groups' |-> groups'[h].requested])
                              + Requested(PodsOn(Nodes \ DOMAIN groupOfNode))'
    BY <1>19, <1>23, <2>1
  <2>5. /\ cluster'.allocatable = SumFunction([h \in DOMAIN groups' |-> groups'[h].allocatable])
        /\ cluster'.used = SumFunction([h \in DOMAIN groups' |-> groups'[h].used])
    BY <1>9, <1>22 DEF Inv, TotalsAddUp
  <2> QED BY <2>1, <2>3, <2>4, <2>5 DEF TotalsAddUp
<1>25. NamespacesAreTheirPods'
  BY <1>4 DEF Inv, NamespacesAreTheirPods, EntriesOf
<1> QED BY <1>4, <1>10, <1>11, <1>12, <1>13, <1>18, <1>20, <1>24, <1>25 DEF Inv

LEMMA NodesDoneKeepsInv ==
  ASSUME Inv, NEW listed \in SUBSET Namespaces, NodesDone(listed)
  PROVE  Inv'
<1>1. /\ stage = "nodes" /\ stage' = "pods"
      /\ UNCHANGED <<detail, nodeMetricsOK, podMetricsOK, groupOfNode, tainted, podList, cluster, groups,
                     order, pods>>
      /\ namespaces' = IF detail THEN [ns \in listed |-> EmptyNamespace] ELSE Empty
  BY DEF NodesDone, input
<1>2. /\ DOMAIN namespaces' \subseteq listed /\ IsFiniteSet(DOMAIN namespaces')
      /\ \A ns \in DOMAIN namespaces' : namespaces'[ns] = EmptyNamespace
  BY <1>1, NamesAssumption, FS_Subset, FS_EmptySet DEF Empty
<1>3. \A ns : EntriesOf(ns) = {} /\ EntriesOf(ns)' = {}
  BY <1>1, NothingRequested DEF EntriesOf
<1>4. SumFunction([ns \in DOMAIN namespaces' |-> namespaces'[ns].requested]) = 0
  <2> DEFINE v == [ns \in DOMAIN namespaces' |-> namespaces'[ns].requested]
  <2>1. DOMAIN v = DOMAIN namespaces' /\ \A ns \in DOMAIN namespaces' : v[ns] = 0
    BY <1>2 DEF EmptyNamespace
  <2> HIDE DEF v
  <2>2. SumFunction(v) = 0
    BY <1>2, <2>1, SumOfZeros DEF SumFunction
  <2> QED BY <2>2 DEF v
<1>5. cluster.requested = 0
  <2> DEFINE w == [g \in DOMAIN groups |-> groups[g].requested]
  <2>1. \A g \in DOMAIN groups : w[g] = 0
    BY <1>1, NothingRequested DEF Inv, GroupsGetTheirPods
  <2>2. DOMAIN w = DOMAIN groups /\ IsFiniteSet(DOMAIN groups)
    BY DEF Inv, ReadSoFar
  <2>3. cluster.requested = SumFunction(w) + 0
    BY <1>1, NothingRequested DEF Inv, TotalsAddUp
  <2> HIDE DEF w
  <2>4. SumFunction(w) = 0
    BY <2>1, <2>2, SumOfZeros DEF SumFunction
  <2> QED BY <2>3, <2>4
<1>6. TypeOK' /\ ReadSoFar'
  BY <1>1, <1>2 DEF Inv, TypeOK, ReadSoFar, EmptyNamespace
<1>7. OrderLists' /\ PodsAreEntries'
  BY <1>1 DEF Inv, OrderLists, PodsAreEntries, EntryOf, Reserving
<1>8. GroupsAreTheirNodes' /\ GroupsGetTheirPods'
  <2>1. GroupsAreTheirNodes'
    BY <1>1 DEF Inv, GroupsAreTheirNodes, Members
  <2>2. GroupsGetTheirPods'
    BY <1>1 DEF Inv, GroupsGetTheirPods, Members, Requested, PodsOn, Reserving
  <2> QED BY <2>1, <2>2
<1>9. TotalsAddUp'
  BY <1>1, <1>4, <1>5 DEF Inv, TotalsAddUp, Requested, PodsOn, Reserving
<1>10. NamespacesAreTheirPods'
  <2>1. pods' = {} /\ Cardinality({}) = 0
    BY <1>1, NothingRequested, FS_EmptySet
  <2>2. SumFunction([e \in {} |-> e.requested]) = 0 /\ SumFunction([e \in {} |-> e.used]) = 0
    BY SumOfNone DEF SumFunction
  <2>3. ASSUME NEW ns \in DOMAIN namespaces'
        PROVE  /\ namespaces'[ns].pods = Cardinality(EntriesOf(ns)')
               /\ namespaces'[ns].requested = SumFunction([e \in EntriesOf(ns)' |-> e.requested])
               /\ namespaces'[ns].used = SumFunction([e \in EntriesOf(ns)' |-> e.used])
    <3>1. EntriesOf(ns)' = {}
      BY <2>1 DEF EntriesOf
    <3>2. /\ [e \in EntriesOf(ns)' |-> e.requested] = [e \in {} |-> e.requested]
          /\ [e \in EntriesOf(ns)' |-> e.used] = [e \in {} |-> e.used]
      BY <3>1
    <3>3. namespaces'[ns] = EmptyNamespace
      BY <1>2
    <3> QED BY <2>1, <2>2, <3>1, <3>2, <3>3 DEF EmptyNamespace
  <2> QED BY <2>1, <2>3 DEF NamespacesAreTheirPods
<1> QED BY <1>1, <1>6, <1>7, <1>8, <1>9, <1>10 DEF Inv

-----------------------------------------------------------------------------
(* The loop over the pods *)

\* What the pod p adds to the pods on the nodes of S.
Share(p, node, released, S) ==
  IF CountsTowardsRequests(node, released) /\ node \in S THEN Requests[p] ELSE 0

\* What is read of a pod stays.
LEMMA PodIsRead ==
  ASSUME NEW p \in Pods, NEW ns \in Namespaces, NEW node \in Nodes \cup {NoName},
         NEW released \in BOOLEAN, ReadPod(p, ns, node, released)
  PROVE  /\ p \notin DOMAIN podList /\ DOMAIN podList' = DOMAIN podList \cup {p}
         /\ \A q \in DOMAIN podList : podList'[q] = podList[q]
         /\ podList'[p] = [namespace |-> ns, node |-> node, released |-> released]
BY DEF ReadPod, Put

LEMMA PodReserves ==
  ASSUME NEW p \in Pods, NEW ns \in Namespaces, NEW node \in Nodes \cup {NoName},
         NEW released \in BOOLEAN, ReadPod(p, ns, node, released)
  PROVE  /\ p \notin Reserving /\ Reserving \subseteq DOMAIN podList
         /\ CountsTowardsRequests(node, released) => Reserving' = Reserving \cup {p}
         /\ ~CountsTowardsRequests(node, released) => Reserving' = Reserving
<1>1. /\ p \notin DOMAIN podList /\ DOMAIN podList' = DOMAIN podList \cup {p}
      /\ \A q \in DOMAIN podList : podList'[q] = podList[q]
      /\ podList'[p] = [namespace |-> ns, node |-> node, released |-> released]
  BY PodIsRead
<1>2. podList'[p].node = node /\ podList'[p].released = released
  BY <1>1
<1> QED BY <1>1, <1>2 DEF Reserving, CountsTowardsRequests

\* Read once, a pod is counted on its node and on no other.
LEMMA SharesAddUp ==
  ASSUME Inv, NEW p \in Pods, NEW ns \in Namespaces, NEW node \in Nodes \cup {NoName},
         NEW released \in BOOLEAN, ReadPod(p, ns, node, released), NEW S
  PROVE  /\ SumFunctionOnSet(Requests, {q \in Reserving' : podList'[q].node \in S})
               = Requested(PodsOn(S)) + Share(p, node, released, S)
         /\ Requested(PodsOn(S)) \in Nat
<1> DEFINE on == PodsOn(S)
           after == {q \in Reserving' : podList'[q].node \in S}
<1>1. /\ p \notin DOMAIN podList /\ \A q \in DOMAIN podList : podList'[q] = podList[q]
      /\ podList'[p] = [namespace |-> ns, node |-> node, released |-> released]
  BY PodIsRead
<1>2. p \notin Reserving /\ Reserving \subseteq DOMAIN podList
  BY PodReserves
<1>3. Reserving' = IF CountsTowardsRequests(node, released) THEN Reserving \cup {p} ELSE Reserving
  BY PodReserves
<1>4. IsFiniteSet(on) /\ p \notin on /\ Requests[p] \in Nat /\ \A q \in on : Requests[q] \in Nat
  <2>1. on \in SUBSET DOMAIN podList /\ p \notin on
    BY <1>1, <1>2 DEF PodsOn
  <2>2. DOMAIN podList \subseteq Pods /\ IsFiniteSet(DOMAIN podList)
    BY DEF Inv, TypeOK, ReadSoFar
  <2> QED BY <2>1, <2>2, FS_Subset, NamesAssumption
<1>5. after = IF CountsTowardsRequests(node, released) /\ node \in S THEN on \cup {p} ELSE on
  <2>1. \A q \in Reserving : podList'[q].node = podList[q].node
    BY <1>1, <1>2
  <2>2. podList'[p].node = node
    BY <1>1
  <2> QED BY <1>2, <1>3, <2>1, <2>2 DEF PodsOn
<1> HIDE DEF on, after
<1>6. SumFunctionOnSet(Requests, on) \in Nat
  BY <1>4, SumType
<1>7. SumFunctionOnSet(Requests, on \cup {p}) = SumFunctionOnSet(Requests, on) + Requests[p]
  BY <1>4, SumWith
<1>8. SumFunctionOnSet(Requests, after) = SumFunctionOnSet(Requests, on) + Share(p, node, released, S)
  BY <1>4, <1>5, <1>6, <1>7 DEF Share
<1> QED BY <1>6, <1>8 DEF on, after, Requested

\* The group of the pod's node has its requests, and all else is as it was.
LEMMA GroupGetsPod ==
  ASSUME Inv, NEW p \in Pods, NEW ns \in Namespaces, NEW node \in Nodes \cup {NoName},
         NEW released \in BOOLEAN, ReadPod(p, ns, node, released)
  PROVE  /\ DOMAIN groups' = DOMAIN groups
         /\ \A g \in DOMAIN groups :
              /\ groups'[g] \in Accumulators
              /\ groups'[g].nodes = groups[g].nodes /\ groups'[g].tainted = groups[g].tainted
              /\ groups'[g].allocatable = groups[g].allocatable /\ groups'[g].used = groups[g].used
              /\ groups'[g].requested = groups[g].requested + Share(p, node, released, Members(g))
<1> DEFINE counts == CountsTowardsRequests(node, released)
           c == At(groupOfNode, node, NoName)
<1>1. groups' = IF counts /\ c \in DOMAIN groups THEN [groups EXCEPT ![c].requested = @ + Requests[p]] ELSE groups
  BY DEF ReadPod, WithRequests
<1>2. Requests[p] \in Nat /\ \A g \in DOMAIN groups : groups[g] \in Accumulators /\ g # NoName
  BY NamesAssumption DEF Inv, TypeOK, GroupNames
<1>3. \A g \in DOMAIN groups : c = g <=> node \in Members(g)
  BY <1>2 DEF At, Members
<1>4. \A g \in DOMAIN groups : Share(p, node, released, Members(g)) = IF counts /\ c = g THEN Requests[p] ELSE 0
  BY <1>3 DEF Share
<1> HIDE DEF counts, c
<1>5. DOMAIN groups' = DOMAIN groups
  BY <1>1
<1>6. ASSUME NEW g \in DOMAIN groups
      PROVE  /\ groups'[g] \in Accumulators
             /\ groups'[g].nodes = groups[g].nodes /\ groups'[g].tainted = groups[g].tainted
             /\ groups'[g].allocatable = groups[g].allocatable /\ groups'[g].used = groups[g].used
             /\ groups'[g].requested = groups[g].requested + Share(p, node, released, Members(g))
  <2>1. CASE counts /\ c = g
    <3>1. groups'[g] = [groups[g] EXCEPT !.requested = @ + Requests[p]]
      BY <1>1, <2>1
    <3>2. groups[g] \in Accumulators /\ groups[g].requested + Requests[p] \in Nat
      BY <1>2 DEF Accumulators
    <3>3. groups'[g] \in Accumulators
      BY <3>1, <3>2 DEF Accumulators
    <3> QED BY <1>4, <2>1, <3>1, <3>2, <3>3 DEF Accumulators
  <2>2. CASE ~(counts /\ c = g)
    <3>1. groups'[g] = groups[g]
      BY <1>1, <2>2
    <3>2. groups[g] \in Accumulators /\ groups[g].requested \in Nat
      BY <1>2 DEF Accumulators
    <3> QED BY <1>4, <2>2, <3>1, <3>2
  <2> QED BY <2>1, <2>2
<1> QED BY <1>5, <1>6
\* With detail: the pod has an entry of its own, and its namespace a row.
LEMMA PodIsEntered ==
  ASSUME Inv, NEW p \in Pods, NEW ns \in Namespaces, NEW node \in Nodes \cup {NoName},
         NEW released \in BOOLEAN, ReadPod(p, ns, node, released),
         CountsTowardsRequests(node, released), detail
  PROVE  /\ IsFiniteSet(pods') /\ IsFiniteSet(DOMAIN namespaces')
         /\ pods' \subseteq [name : Pods, namespace : Namespaces, node : Nodes,
                           requested : Nat, used : Nat, usageKnown : BOOLEAN]
         /\ DOMAIN namespaces' \subseteq Namespaces
         /\ \A x \in DOMAIN namespaces' : namespaces'[x] \in [requested : Nat, used : Nat, pods : Nat]
         /\ PodsAreEntries'
         /\ NamespacesAreTheirPods'
         /\ SumFunction([x \in DOMAIN namespaces' |-> namespaces'[x].requested])
              = SumFunction([x \in DOMAIN namespaces |-> namespaces[x].requested]) + Requests[p]
<1> DEFINE used == IF podMetricsOK THEN PodUsage[p] ELSE 0
           row == EnsureNamespace(ns)
           e == [name |-> p, namespace |-> ns, node |-> node, requested |-> Requests[p], used |-> used,
                 usageKnown |-> podMetricsOK]
           Entries == [name : Pods, namespace : Namespaces, node : Nodes, requested : Nat, used : Nat,
                       usageKnown : BOOLEAN]
           new == [requested |-> row.requested + Requests[p], used |-> row.used + used, pods |-> row.pods + 1]
           Row == [requested : Nat, used : Nat, pods : Nat]
<1>1. /\ pods' = pods \cup {e} /\ namespaces' = Put(namespaces, ns, new)
      /\ UNCHANGED <<detail, podMetricsOK>>
  BY DEF ReadPod, Enter, input
<1>2. Requests[p] \in Nat /\ used \in Nat /\ node \in Nodes /\ podMetricsOK \in BOOLEAN
  BY NamesAssumption DEF CountsTowardsRequests, Inv, TypeOK
<1>3. /\ e.name = p /\ e.namespace = ns /\ e.requested = Requests[p] /\ e.used = used
      /\ e \in Entries
  BY <1>2
<1>4. row = IF ns \in DOMAIN namespaces THEN namespaces[ns] ELSE EmptyNamespace
  BY DEF EnsureNamespace, At
<1>5. row \in Row
  BY <1>4 DEF Inv, TypeOK, EmptyNamespace
<1>6. /\ new \in Row /\ new.requested = row.requested + Requests[p]
      /\ new.used = row.used + used /\ new.pods = row.pods + 1
  BY <1>2, <1>5
<1> HIDE DEF used, row, new
<1>7. /\ DOMAIN namespaces' = DOMAIN namespaces \cup {ns} /\ namespaces'[ns] = new
      /\ \A x \in DOMAIN namespaces : x # ns => namespaces'[x] = namespaces[x]
  BY <1>1 DEF Put
<1>8. /\ IsFiniteSet(pods) /\ IsFiniteSet(DOMAIN namespaces) /\ DOMAIN namespaces \subseteq Namespaces
      /\ \A x \in DOMAIN namespaces : namespaces[x] \in Row
      /\ pods \subseteq Entries
  BY DEF Inv, TypeOK, ReadSoFar
<1>9. PodsAreEntries' /\ e \notin pods
  <2>1. /\ p \notin Reserving /\ Reserving' = Reserving \cup {p}
        /\ \A q \in Reserving : podList'[q] = podList[q]
        /\ podList'[p] = [namespace |-> ns, node |-> node, released |-> released]
    <3>1. p \notin Reserving /\ Reserving \subseteq DOMAIN podList /\ Reserving' = Reserving \cup {p}
      BY PodReserves
    <3>2. /\ \A q \in DOMAIN podList : podList'[q] = podList[q]
          /\ podList'[p] = [namespace |-> ns, node |-> node, released |-> released]
      BY PodIsRead
    <3> QED BY <3>1, <3>2
  <2>2. pods = {EntryOf(q) : q \in Reserving}
    BY DEF Inv, PodsAreEntries
  <2>3. \A q \in Reserving : EntryOf(q)' = EntryOf(q) /\ EntryOf(q).name = q
    BY <1>1, <2>1 DEF EntryOf
  <2>4. EntryOf(p)' = e
    BY <1>1, <2>1 DEF EntryOf, used
  <2>5. e \notin pods
    BY <1>3, <2>1, <2>2, <2>3
  <2>6. pods' = {EntryOf(q)' : q \in Reserving'}
    <3> HIDE DEF e
    <3> QED BY <1>1, <2>1, <2>2, <2>3, <2>4
  <2> QED BY <1>1, <2>5, <2>6 DEF PodsAreEntries
<1> HIDE DEF e
<1>10. IsFiniteSet(pods') /\ IsFiniteSet(DOMAIN namespaces')
  BY <1>1, <1>7, <1>8, FS_AddElement
<1>11. \A x \in DOMAIN namespaces' : namespaces'[x] \in Row
  BY <1>6, <1>7, <1>8
<1>12. SumFunction([x \in DOMAIN namespaces' |-> namespaces'[x].requested])
         = SumFunction([x \in DOMAIN namespaces |-> namespaces[x].requested]) + Requests[p]
  <2> DEFINE v == [x \in DOMAIN namespaces' |-> namespaces'[x].requested]
             w == [x \in DOMAIN namespaces |-> namespaces[x].requested]
  <2>1. DOMAIN v = DOMAIN w \cup {ns} /\ DOMAIN w = DOMAIN namespaces
    BY <1>7
  <2>2. \A x \in DOMAIN w : w[x] \in Nat /\ (x # ns => v[x] = w[x])
    BY <1>7, <1>8
  <2>3. v[ns] = (IF ns \in DOMAIN w THEN w[ns] ELSE 0) + Requests[p]
    BY <1>4, <1>6, <1>7 DEF EmptyNamespace
  <2> HIDE DEF v, w
  <2>4. SumFunction(v) = SumFunction(w) + Requests[p]
    BY <1>2, <1>8, <2>1, <2>2, <2>3, SumOfFunctionGrows
  <2> QED BY <2>4 DEF v, w
<1>13. NamespacesAreTheirPods'
  <2>1. {d.namespace : d \in pods'} \subseteq DOMAIN namespaces'
    BY <1>1, <1>3, <1>7 DEF Inv, NamespacesAreTheirPods
  <2>2. ASSUME NEW x \in DOMAIN namespaces, x # ns
        PROVE  /\ namespaces'[x].pods = Cardinality(EntriesOf(x)')
               /\ namespaces'[x].requested = SumFunction([d \in EntriesOf(x)' |-> d.requested])
               /\ namespaces'[x].used = SumFunction([d \in EntriesOf(x)' |-> d.used])
    <3>1. EntriesOf(x)' = EntriesOf(x)
      BY <1>1, <1>3, <2>2 DEF EntriesOf
    <3>2. namespaces'[x] = namespaces[x]
      BY <1>7, <2>2
    <3> QED BY <3>1, <3>2 DEF Inv, NamespacesAreTheirPods
  <2>3. /\ row.pods = Cardinality(EntriesOf(ns))
        /\ row.requested = SumFunction([d \in EntriesOf(ns) |-> d.requested])
        /\ row.used = SumFunction([d \in EntriesOf(ns) |-> d.used])
    <3>1. CASE ns \in DOMAIN namespaces
      BY <1>4, <3>1 DEF Inv, NamespacesAreTheirPods
    <3>2. CASE ns \notin DOMAIN namespaces
      <4>1. EntriesOf(ns) = {}
        BY <3>2 DEF Inv, NamespacesAreTheirPods, EntriesOf
      <4>2. /\ SumFunction([d \in EntriesOf(ns) |-> d.requested]) = 0
            /\ SumFunction([d \in EntriesOf(ns) |-> d.used]) = 0
        BY <4>1, SumOfNone DEF SumFunction
      <4> QED BY <1>4, <3>2, <4>1, <4>2, FS_EmptySet DEF EmptyNamespace
    <3> QED BY <3>1, <3>2
  <2>4. /\ EntriesOf(ns)' = EntriesOf(ns) \cup {e} /\ e \notin EntriesOf(ns)
        /\ IsFiniteSet(EntriesOf(ns)) /\ \A d \in EntriesOf(ns) : d.requested \in Nat /\ d.used \in Nat
    <3>1. EntriesOf(ns) \in SUBSET pods
      BY DEF EntriesOf
    <3>2. IsFiniteSet(EntriesOf(ns)) /\ \A d \in EntriesOf(ns) : d.requested \in Nat /\ d.used \in Nat
      BY <1>8, <3>1, FS_Subset
    <3> QED BY <1>1, <1>3, <1>9, <3>1, <3>2 DEF EntriesOf
  <2>5. new.pods = Cardinality(EntriesOf(ns)')
    BY <1>6, <2>3, <2>4, FS_AddElement
  <2>6. SumFunction([x \in EntriesOf(ns)' |-> x.requested])
          = SumFunction([x \in EntriesOf(ns) |-> x.requested]) + Requests[p]
    <3> DEFINE v == [x \in EntriesOf(ns)' |-> x.requested]
               w == [x \in EntriesOf(ns) |-> x.requested]
               d == Requests[p]
    <3>1. DOMAIN v = DOMAIN w \cup {e} /\ DOMAIN w = EntriesOf(ns)
      BY <2>4
    <3>2. \A x \in DOMAIN w : w[x] \in Nat /\ (x # e => v[x] = w[x])
      BY <2>4
    <3>3. v[e] = (IF e \in DOMAIN w THEN w[e] ELSE 0) + d
      BY <1>2, <1>3, <2>4
    <3>4. d \in Nat /\ IsFiniteSet(DOMAIN w)
      BY <1>2, <2>4
    <3> HIDE DEF v, w, d
    <3>5. SumFunction(v) = SumFunction(w) + d
      BY <3>1, <3>2, <3>3, <3>4, SumOfFunctionGrows
    <3> QED BY <3>5 DEF v, w, d
  <2>7. SumFunction([x \in EntriesOf(ns)' |-> x.used])
          = SumFunction([x \in EntriesOf(ns) |-> x.used]) + used
    <3> DEFINE v == [x \in EntriesOf(ns)' |-> x.used]
               w == [x \in EntriesOf(ns) |-> x.used]
    <3>1. DOMAIN v = DOMAIN w \cup {e} /\ DOMAIN w = EntriesOf(ns)
      BY <2>4
    <3>2. \A x \in DOMAIN w : w[x] \in Nat /\ (x # e => v[x] = w[x])
      BY <2>4
    <3>3. v[e] = (IF e \in DOMAIN w THEN w[e] ELSE 0) + used
      BY <1>2, <1>3, <2>4
    <3> HIDE DEF v, w
    <3>4. SumFunction(v) = SumFunction(w) + used
      BY <1>2, <2>4, <3>1, <3>2, <3>3, SumOfFunctionGrows
    <3> QED BY <3>4 DEF v, w
  <2>8. /\ namespaces'[ns].pods = Cardinality(EntriesOf(ns)')
        /\ namespaces'[ns].requested = SumFunction([d \in EntriesOf(ns)' |-> d.requested])
        /\ namespaces'[ns].used = SumFunction([d \in EntriesOf(ns)' |-> d.used])
    BY <1>6, <1>7, <2>3, <2>5, <2>6, <2>7
  <2>9. \A x \in DOMAIN namespaces' :
          /\ namespaces'[x].pods = Cardinality(EntriesOf(x)')
          /\ namespaces'[x].requested = SumFunction([d \in EntriesOf(x)' |-> d.requested])
          /\ namespaces'[x].used = SumFunction([d \in EntriesOf(x)' |-> d.used])
    BY <1>7, <2>2, <2>8
  <2> QED BY <2>1, <2>9 DEF NamespacesAreTheirPods
<1> QED BY <1>1, <1>3, <1>7, <1>8, <1>9, <1>10, <1>11, <1>12, <1>13

LEMMA ReadPodKeepsInv ==
  ASSUME Inv, NEW p \in Pods, NEW ns \in Namespaces, NEW node \in Nodes \cup {NoName},
         NEW released \in BOOLEAN, ReadPod(p, ns, node, released)
  PROVE  Inv'
<1> DEFINE counts == CountsTowardsRequests(node, released)
           share(S) == Share(p, node, released, S)
           stray == Nodes \ DOMAIN groupOfNode
<1>1. /\ stage = "pods"
      /\ UNCHANGED <<detail, nodeMetricsOK, podMetricsOK, stage, groupOfNode, tainted, order>>
      /\ cluster' = IF counts THEN [cluster EXCEPT !.requested = @ + Requests[p]] ELSE cluster
      /\ ~(counts /\ detail) => UNCHANGED <<namespaces, pods>>
  BY DEF ReadPod, input
<1>2. /\ DOMAIN groups' = DOMAIN groups
      /\ \A g \in DOMAIN groups :
           /\ groups'[g] \in Accumulators
           /\ groups'[g].nodes = groups[g].nodes /\ groups'[g].tainted = groups[g].tainted
           /\ groups'[g].allocatable = groups[g].allocatable /\ groups'[g].used = groups[g].used
           /\ groups'[g].requested = groups[g].requested + share(Members(g))
  BY GroupGetsPod
<1>3. Requests[p] \in Nat /\ (counts => node \in Nodes)
  BY NamesAssumption DEF CountsTowardsRequests
<1>4. /\ cluster' \in [allocatable : Nat, requested : Nat, used : Nat]
      /\ cluster'.allocatable = cluster.allocatable /\ cluster'.used = cluster.used
      /\ cluster'.requested = cluster.requested + (IF counts THEN Requests[p] ELSE 0)
  <2>1. cluster \in [allocatable : Nat, requested : Nat, used : Nat]
    BY DEF Inv, TypeOK
  <2> HIDE DEF counts
  <2>2. CASE counts
    BY <1>1, <1>3, <2>1, <2>2
  <2>3. CASE ~counts
    BY <1>1, <2>1, <2>3
  <2> QED BY <2>2, <2>3
<1>5. /\ DOMAIN podList' = DOMAIN podList \cup {p} /\ \A q \in DOMAIN podList : podList'[q] = podList[q]
      /\ podList'[p] = [namespace |-> ns, node |-> node, released |-> released]
      /\ Reserving' = IF counts THEN Reserving \cup {p} ELSE Reserving
      /\ \A q \in Reserving : podList'[q] = podList[q]
  <2>1. /\ DOMAIN podList' = DOMAIN podList \cup {p} /\ \A q \in DOMAIN podList : podList'[q] = podList[q]
        /\ podList'[p] = [namespace |-> ns, node |-> node, released |-> released]
    BY PodIsRead
  <2>2. /\ Reserving \subseteq DOMAIN podList
        /\ Reserving' = IF counts THEN Reserving \cup {p} ELSE Reserving
    BY PodReserves
  <2> QED BY <2>1, <2>2
<1>6. \A S : SumFunctionOnSet(Requests, {q \in Reserving' : podList'[q].node \in S})
              = Requested(PodsOn(S)) + share(S)
  BY SharesAddUp
<1>7. \A g : Members(g)' = Members(g)
  BY <1>1 DEF Members
<1>8. /\ counts /\ detail => IsFiniteSet(pods') /\ IsFiniteSet(DOMAIN namespaces') /\ PodsAreEntries'
                           /\ NamespacesAreTheirPods'
      /\ IsFiniteSet(pods') /\ IsFiniteSet(DOMAIN namespaces')
      /\ pods' \subseteq [name : Pods, namespace : Namespaces, node : Nodes,
                         requested : Nat, used : Nat, usageKnown : BOOLEAN]
      /\ DOMAIN namespaces' \subseteq Namespaces
      /\ \A x \in DOMAIN namespaces' : namespaces'[x] \in [requested : Nat, used : Nat, pods : Nat]
  <2>1. CASE counts /\ detail
    BY <2>1, PodIsEntered
  <2>2. CASE ~(counts /\ detail)
    BY <1>1, <2>2 DEF Inv, TypeOK, ReadSoFar
  <2> QED BY <2>1, <2>2
<1>9. TypeOK'
  <2>1. \A q \in DOMAIN podList' :
          podList'[q] \in [namespace : Namespaces, node : Nodes \cup {NoName}, released : BOOLEAN]
    BY <1>5 DEF Inv, TypeOK
  <2>2. DOMAIN podList' \subseteq Pods
    BY <1>5 DEF Inv, TypeOK
  <2>3. /\ detail' \in BOOLEAN /\ nodeMetricsOK' \in BOOLEAN /\ podMetricsOK' \in BOOLEAN
        /\ stage' \in {"nodes", "pods", "done"}
        /\ DOMAIN groupOfNode' \subseteq Nodes /\ tainted' \subseteq Nodes
        /\ DOMAIN groups' \subseteq GroupNames /\ order' \in Seq(GroupNames)
    BY <1>1, <1>2 DEF Inv, TypeOK
  <2>4. \A g \in DOMAIN groups' : groups'[g] \in Accumulators
    BY <1>2
  <2> QED BY <1>4, <1>8, <2>1, <2>2, <2>3, <2>4 DEF TypeOK, GroupNames, Accumulators
<1>10. OrderLists'
  BY <1>1, <1>2 DEF Inv, OrderLists
<1>11. ReadSoFar'
  <2>1. IsFiniteSet(DOMAIN podList')
    BY <1>5, FS_AddElement DEF Inv, ReadSoFar
  <2> QED BY <1>1, <1>2, <1>8, <2>1 DEF Inv, ReadSoFar
<1>12. PodsAreEntries'
  <2>1. CASE counts /\ detail
    BY <1>8, <2>1
  <2>2. CASE ~detail
    BY <1>1, <2>2 DEF Inv, PodsAreEntries
  <2>3. CASE detail /\ ~counts
    <3>1. Reserving' = Reserving /\ pods' = pods /\ pods = {EntryOf(q) : q \in Reserving}
      BY <1>1, <1>5, <2>3 DEF Inv, PodsAreEntries
    <3>2. \A q \in Reserving : EntryOf(q)' = EntryOf(q)
      BY <1>1, <1>5 DEF EntryOf
    <3>3. pods' = {EntryOf(q)' : q \in Reserving'}
      BY <3>1, <3>2
    <3> QED BY <1>1, <2>3, <3>3 DEF PodsAreEntries
  <2> QED BY <2>1, <2>2, <2>3
<1>13. GroupsAreTheirNodes'
  <2>1. DOMAIN groups' = {groupOfNode'[m] : m \in DOMAIN groupOfNode'}
    BY <1>1, <1>2 DEF Inv, GroupsAreTheirNodes
  <2>2. ASSUME NEW g \in DOMAIN groups'
        PROVE  SumsUp(groups'[g], Members(g)', tainted')
    <3>1. SumsUp(groups[g], Members(g), tainted)
      BY <1>2, GroupsSumUp DEF Inv
    <3> QED BY <1>1, <1>2, <1>7, <3>1 DEF SumsUp
  <2> QED BY <1>1, <2>1, <2>2 DEF GroupsAreTheirNodes, SumsUp
<1>14. GroupsGetTheirPods'
  <2>1. ASSUME NEW g \in DOMAIN groups
        PROVE  groups'[g].requested = SumFunctionOnSet(Requests, {q \in Reserving' : podList'[q].node \in Members(g)'})
    <3>1. groups'[g].requested = Requested(PodsOn(Members(g))) + share(Members(g))
      BY <1>2 DEF Inv, GroupsGetTheirPods
    <3> QED BY <1>6, <1>7, <3>1
  <2> QED BY <1>2, <2>1 DEF GroupsGetTheirPods, Requested, PodsOn
<1>15. counts /\ detail =>
         SumFunction([x \in DOMAIN namespaces' |-> namespaces'[x].requested])
           = SumFunction([x \in DOMAIN namespaces |-> namespaces[x].requested]) + Requests[p]
  BY PodIsEntered
<1>16. SumFunction([g \in DOMAIN groups' |-> groups'[g].requested]) + share(stray)
         = SumFunction([g \in DOMAIN groups |-> groups[g].requested]) + (IF counts THEN Requests[p] ELSE 0)
  <2> DEFINE v == [g \in DOMAIN groups' |-> groups'[g].requested]
             w == [g \in DOMAIN groups |-> groups[g].requested]
             c == groupOfNode[node]
             d == Requests[p]
  <2>1. /\ IsFiniteSet(DOMAIN groups) /\ DOMAIN v = DOMAIN groups /\ DOMAIN w = DOMAIN groups
        /\ \A g \in DOMAIN groups : w[g] \in Nat /\ v[g] = w[g] + share(Members(g))
    BY <1>2 DEF Inv, TypeOK, Accumulators, ReadSoFar
  <2>2. CASE counts /\ node \in DOMAIN groupOfNode
    <3>1. c \in DOMAIN groups /\ share(stray) = 0
      BY <2>2 DEF Inv, GroupsAreTheirNodes, Share
    <3>2. /\ share(Members(c)) = d
          /\ \A g \in DOMAIN groups : g # c => share(Members(g)) = 0
      BY <2>2 DEF Share, Members
    <3> HIDE DEF v, w, c, share, d
    <3>3. /\ \A g \in DOMAIN w : w[g] \in Nat /\ (g # c => v[g] = w[g])
          /\ v[c] = (IF c \in DOMAIN w THEN w[c] ELSE 0) + d /\ DOMAIN v = DOMAIN w \cup {c}
      BY <2>1, <3>1, <3>2
    <3>4. d \in Nat /\ IsFiniteSet(DOMAIN w)
      BY <1>3, <2>1 DEF d
    <3>5. SumFunction(v) = SumFunction(w) + d
      BY <3>3, <3>4, SumOfFunctionGrows
    <3>6. SumFunction(w) \in Nat
      BY <2>1, SumType DEF SumFunction
    <3>7. SumFunction(v) + share(stray) = SumFunction(w) + d
      BY <3>1, <3>4, <3>5, <3>6
    <3> QED BY <2>2, <3>7 DEF v, w, d
  <2>3. CASE ~(counts /\ node \in DOMAIN groupOfNode)
    <3>1. \A g \in DOMAIN groups : share(Members(g)) = 0
      BY <2>3 DEF Share, Members
    <3>2. share(stray) = IF counts THEN Requests[p] ELSE 0
      BY <1>3, <2>3 DEF Share
    <3> HIDE DEF share
    <3>3. v = w
      BY <1>2, <2>1, <3>1
    <3> HIDE DEF v, w
    <3>4. SumFunction(v) + share(stray) = SumFunction(w) + (IF counts THEN Requests[p] ELSE 0)
      BY <3>2, <3>3
    <3> QED BY <3>4 DEF v, w
  <2> QED BY <2>2, <2>3
<1>17. TotalsAddUp'
  <2> DEFINE total == SumFunction([g \in DOMAIN groups |-> groups[g].requested])
             rest == Requested(PodsOn(stray))
             rows == SumFunction([x \in DOMAIN namespaces |-> namespaces[x].requested])
             d == IF counts THEN Requests[p] ELSE 0
  <2>1. /\ cluster'.allocatable = SumFunction([g \in DOMAIN groups' |-> groups'[g].allocatable])
        /\ cluster'.used = SumFunction([g \in DOMAIN groups' |-> groups'[g].used])
    <3>1. /\ [g \in DOMAIN groups' |-> groups'[g].allocatable] = [g \in DOMAIN groups |-> groups[g].allocatable]
          /\ [g \in DOMAIN groups' |-> groups'[g].used] = [g \in DOMAIN groups |-> groups[g].used]
      BY <1>2
    <3> QED BY <1>4, <3>1 DEF Inv, TotalsAddUp
  <2>2. /\ total \in Nat /\ total' \in Nat /\ rest \in Nat /\ d \in Nat /\ share(stray) \in Nat
    <3>1. /\ IsFiniteSet(DOMAIN groups) /\ IsFiniteSet(DOMAIN groups')
          /\ \A g \in DOMAIN groups : groups[g].requested \in Nat /\ groups'[g].requested \in Nat
      BY <1>2, <1>11 DEF Inv, TypeOK, Accumulators, ReadSoFar
    <3>2. total \in Nat
      BY <3>1, SumType DEF SumFunction
    <3>3. total' \in Nat
      BY <1>2, <3>1, SumType DEF SumFunction
    <3>4. rest \in Nat
      BY SharesAddUp
    <3> QED BY <1>3, <3>2, <3>3, <3>4 DEF Share
  <2>3. total' + share(stray) = total + d
    BY <1>16
  <2>4. cluster.requested = total + rest /\ cluster'.requested = cluster.requested + d
    BY <1>4 DEF Inv, TotalsAddUp
  <2>5. Requested(PodsOn(Nodes \ DOMAIN groupOfNode))' = rest + share(stray)
    BY <1>1, <1>6 DEF Requested, PodsOn
  <2>6. cluster'.requested = total' + (rest + share(stray))
    <3> HIDE DEF total, rest, d, share, stray
    <3> QED BY <2>2, <2>3, <2>4
  <2>7. detail' => cluster'.requested = SumFunction([x \in DOMAIN namespaces' |-> namespaces'[x].requested])
    <3>1. detail => cluster.requested = rows
      BY DEF Inv, TotalsAddUp
    <3>2. CASE counts /\ detail
      BY <1>4, <1>15, <3>1, <3>2
    <3>3. CASE ~counts /\ detail
      BY <1>1, <1>4, <3>1, <3>3 DEF Inv, TypeOK
    <3> QED BY <1>1, <3>2, <3>3
  <2> QED BY <2>1, <2>5, <2>6, <2>7 DEF TotalsAddUp
<1>18. NamespacesAreTheirPods'
  <2>1. CASE counts /\ detail
    BY <1>8, <2>1
  <2>2. CASE ~(counts /\ detail)
    BY <1>1, <2>2 DEF Inv, NamespacesAreTheirPods, EntriesOf
  <2> QED BY <2>1, <2>2
<1> QED BY <1>1, <1>9, <1>10, <1>11, <1>12, <1>13, <1>14, <1>17, <1>18 DEF Inv

-----------------------------------------------------------------------------
(* The order of the groups *)

\* The sums are about nothing that the sort changes.
LEMMA SumsStay ==
  ASSUME Inv, UNCHANGED <<detail, nodeMetricsOK, podMetricsOK, groupOfNode, tainted, podList, cluster,
                          groups, namespaces, pods>>
  PROVE  /\ PodsAreEntries' /\ GroupsAreTheirNodes' /\ GroupsGetTheirPods'
         /\ TotalsAddUp' /\ NamespacesAreTheirPods'
<1>1. PodsAreEntries'
  BY DEF Inv, PodsAreEntries, EntryOf, Reserving
<1>2. GroupsAreTheirNodes'
  BY DEF Inv, GroupsAreTheirNodes, Members
<1>3. GroupsGetTheirPods'
  BY DEF Inv, GroupsGetTheirPods, Members, Requested, PodsOn, Reserving
<1>4. TotalsAddUp'
  BY DEF Inv, TotalsAddUp, Requested, PodsOn, Reserving
<1>5. NamespacesAreTheirPods'
  BY DEF Inv, NamespacesAreTheirPods, EntriesOf
<1> QED BY <1>1, <1>2, <1>3, <1>4, <1>5

\* Before orders any two groups, and orders them one way.
LEMMA BeforeIsOrder ==
  ASSUME Inv
  PROVE  \A a, b, c \in DOMAIN groups :
           /\ a # b => Before(a, b) \/ Before(b, a)
           /\ Before(a, b) => ~Before(b, a)
           /\ Before(a, b) => Before(a, c) \/ Before(c, b)
<1>1. \A g \in DOMAIN groups : groups[g].allocatable \in Nat /\ g \in Nat
  BY NamesAssumption DEF Inv, TypeOK, Accumulators, GroupNames
<1> QED BY <1>1 DEF Before

LEMMA PodsDoneKeepsInv ==
  ASSUME Inv, PodsDone
  PROVE  Inv'
<1> DEFINE n == Len(order)
           less == {p \in (1..n) \X (1..n) : Before(order[p[1]], order[p[2]])}
<1>1. /\ order' = StableSort(order, less)
      /\ UNCHANGED <<detail, nodeMetricsOK, podMetricsOK, groupOfNode, tainted, podList, cluster,
                     groups, namespaces, pods>>
      /\ stage' = "done"
  BY DEF PodsDone, input
<1>2. /\ order \in Seq(GroupNames) /\ n \in Nat /\ OrderLists
      /\ \A i \in 1..n : order[i] \in DOMAIN groups
  BY DEF Inv, TypeOK, OrderLists
<1>3. \A i, j \in 1..n : <<i, j>> \in less <=> Before(order[i], order[j])
  OBVIOUS
<1> HIDE DEF less
<1>4. StrictWeakOrder(less, n)
  BY <1>2, <1>3, BeforeIsOrder DEF StrictWeakOrder
<1>5. order' \in Seq(GroupNames) /\ Len(order') = n
  BY <1>1, <1>2, <1>4, StableSortSorts
<1>6. PICK from \in Bijection(1..n, 1..n) :
        /\ \A p \in 1..n : order'[p] = order[from[p]]
        /\ \A p, q \in 1..n : p < q => InFront(less, from[p], from[q])
  BY <1>1, <1>2, <1>4, StableSortSorts
<1>7. /\ \A p \in 1..n : from[p] \in 1..n
      /\ \A p, q \in 1..n : from[p] = from[q] => p = q
      /\ \A i \in 1..n : \E p \in 1..n : from[p] = i
  BY <1>6 DEF Bijection, Injection, IsInjective, Surjection
<1>8. OrderLists'
  <2>1. ASSUME NEW p \in 1..n, NEW q \in 1..n, order'[p] = order'[q] PROVE p = q
    <3>1. from[p] \in 1..n /\ from[q] \in 1..n /\ order[from[p]] = order[from[q]]
      BY <1>6, <1>7, <2>1
    <3>2. from[p] = from[q]
      BY <1>2, <3>1 DEF OrderLists
    <3> QED BY <1>7, <3>2
  <2>2. \A p \in 1..n : order'[p] \in DOMAIN groups
    BY <1>2, <1>6, <1>7
  <2>3. ASSUME NEW g \in DOMAIN groups PROVE \E p \in 1..n : order'[p] = g
    <3>1. PICK i \in 1..n : order[i] = g
      BY <1>2 DEF OrderLists
    <3>2. PICK p \in 1..n : from[p] = i
      BY <1>7
    <3> QED BY <1>6, <3>1, <3>2
  <2> QED BY <1>1, <1>5, <2>1, <2>2, <2>3 DEF OrderLists
<1>9. ASSUME NEW p \in 1..n, NEW q \in 1..n, p < q PROVE Before(order'[p], order'[q])
  <2>1. from[p] \in 1..n /\ from[q] \in 1..n /\ from[p] # from[q]
    BY <1>7, <1>9
  <2>2. order[from[p]] \in DOMAIN groups /\ order[from[q]] \in DOMAIN groups /\ order[from[p]] # order[from[q]]
    BY <1>2, <2>1 DEF OrderLists
  <2>3. InFront(less, from[p], from[q])
    BY <1>6, <1>9
  <2>4. Before(order[from[p]], order[from[q]]) \/ ~Before(order[from[q]], order[from[p]])
    BY <1>3, <2>1, <2>3 DEF InFront
  <2>5. Before(order[from[p]], order[from[q]])
    BY <2>2, <2>4, BeforeIsOrder
  <2> QED BY <1>6, <2>5
<1>10. Sorted'
  BY <1>1, <1>5, <1>9 DEF Sorted, Before
<1>11. TypeOK' /\ ReadSoFar'
  BY <1>1, <1>5 DEF PodsDone, Inv, TypeOK, ReadSoFar
<1> QED BY <1>1, <1>8, <1>10, <1>11, SumsStay DEF Inv

LEMMA InvNext == Inv /\ [Next]_vars => Inv'
<1> SUFFICES ASSUME Inv, [Next]_vars PROVE Inv'
  OBVIOUS
<1>1. CASE Next
  BY <1>1, ReadNodeKeepsInv, NodesDoneKeepsInv, ReadPodKeepsInv, PodsDoneKeepsInv DEF Next
<1>2. CASE UNCHANGED vars
  <2>1. TypeOK' /\ OrderLists' /\ (stage' = "done" => Sorted') /\ ReadSoFar'
    BY <1>2 DEF vars, input, Inv, TypeOK, OrderLists, Sorted, Before, ReadSoFar
  <2> QED BY <1>2, <2>1, SumsStay DEF vars, input, Inv
<1> QED BY <1>1, <1>2

\* As many rows as groups, and sorted.
LEMMA InvSettles == Inv => GroupsSettled
<1> SUFFICES ASSUME Inv, stage = "done" PROVE GroupsSettled
  BY DEF GroupsSettled
<1>1. /\ order \in Seq(GroupNames) /\ Len(order) \in Nat /\ DOMAIN order = 1..Len(order)
      /\ OrderLists /\ Sorted
  BY DEF Inv, TypeOK
<1>2. ExistsBijection(1..Len(order), DOMAIN groups)
  <2>1. order \in [1..Len(order) -> DOMAIN groups]
    BY <1>1 DEF OrderLists
  <2>2. order \in Bijection(1..Len(order), DOMAIN groups)
    BY <1>1, <2>1 DEF OrderLists, Bijection, Injection, Surjection, IsInjective
  <2> QED BY <2>2 DEF ExistsBijection
<1>3. Len(order) = Cardinality(DOMAIN groups)
  BY <1>1, <1>2, FS_CountingElements
<1> QED BY <1>1, <1>3 DEF GroupsSettled, Sorted, Before

(***************************************************************************)
(* The tables and totals keep their types while aggregate fills them.      *)
(***************************************************************************)
THEOREM TypeCorrect == Spec => []TypeOK
<1>1. Inv => TypeOK
  BY DEF Inv
<1> QED BY <1>1, InvInit, InvNext, PTL DEF Spec

(***************************************************************************)
(* The sort.SliceStable at the end of aggregate settles the order of the   *)
(* node groups, whatever the order in which the nodes came.                *)
(***************************************************************************)
THEOREM GroupsTheorem == Spec => []GroupsSettled
  BY InvInit, InvNext, InvSettles, PTL DEF Spec

(***************************************************************************)
(* A group is the sum of its nodes (groupAccumulator, filled by the loop   *)
(* over the nodes), however the nodes are labelled and in whatever order   *)
(* they come.                                                              *)
(***************************************************************************)
THEOREM GroupsAreTheirNodesTheorem == Spec => []GroupsAreTheirNodes
<1>1. Inv => GroupsAreTheirNodes
  BY DEF Inv
<1> QED BY <1>1, InvInit, InvNext, PTL DEF Spec

(***************************************************************************)
(* The loop over the pods gives the requests of a pod to the group of its  *)
(* node and to no other; a pod on a node that is not listed counts in no   *)
(* group.                                                                  *)
(***************************************************************************)
THEOREM GroupsGetTheirPodsTheorem == Spec => []GroupsGetTheirPods
<1>1. Inv => GroupsGetTheirPods
  BY DEF Inv
<1> QED BY <1>1, InvInit, InvNext, PTL DEF Spec

(***************************************************************************)
(* The header of the screen and its tables agree at every step of          *)
(* aggregate: the cluster is what the groups and the pods on nodes that    *)
(* are not listed make up, and with detail what the namespaces make up.    *)
(***************************************************************************)
THEOREM TotalsTheorem == Spec => []TotalsAddUp
<1>1. Inv => TotalsAddUp
  BY DEF Inv
<1> QED BY <1>1, InvInit, InvNext, PTL DEF Spec

(***************************************************************************)
(* A namespace is the sum of its pods, and every pod has its namespace:    *)
(* ensureNamespace never starts a row again and never misses one.          *)
(***************************************************************************)
THEOREM NamespacesTheorem == Spec => []NamespacesAreTheirPods
<1>1. Inv => NamespacesAreTheirPods
  BY DEF Inv
<1> QED BY <1>1, InvInit, InvNext, PTL DEF Spec
=============================================================================
