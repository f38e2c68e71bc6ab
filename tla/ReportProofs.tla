---------------------------- MODULE ReportProofs ----------------------------
(***************************************************************************)
(* Theorems about Report and CommandLine: what the scopes of the command   *)
(* line say of one cluster agrees, in either format, and its exit code     *)
(* tells whether it was said, for any nodes, pods, labels and amounts.     *)
(***************************************************************************)
EXTENDS CommandLine, AggregateProofs

\* The requests of the entries in S.
RequestsOf(S) == SumFunction([e \in S |-> e.requested])
UsageOf(S) == SumFunction([e \in S |-> e.used])

LEMMA EntriesAreCounted ==
  ASSUME Inv
  PROVE  /\ IsFiniteSet(pods)
         /\ \A e \in pods : e.requested \in Nat /\ e.used \in Nat
         /\ \A S \in SUBSET pods : IsFiniteSet(S) /\ RequestsOf(S) \in Nat /\ UsageOf(S) \in Nat
         /\ \A e \in pods : e.usageKnown = podMetricsOK
<1>1. /\ IsFiniteSet(pods)
      /\ \A e \in pods : e.requested \in Nat /\ e.used \in Nat
  BY DEF Inv, TypeOK, ReadSoFar
<1>2. ASSUME NEW S \in SUBSET pods
      PROVE  IsFiniteSet(S) /\ RequestsOf(S) \in Nat /\ UsageOf(S) \in Nat
  <2>1. IsFiniteSet(S)
    BY <1>1, FS_Subset
  <2> DEFINE v == [e \in S |-> e.requested]
             w == [e \in S |-> e.used]
  <2>2. /\ DOMAIN v = S /\ DOMAIN w = S
        /\ \A e \in S : v[e] \in Nat /\ w[e] \in Nat
    BY <1>1
  <2> HIDE DEF v, w
  <2>3. SumFunction(v) \in Nat /\ SumFunction(w) \in Nat
    BY <2>1, <2>2, SumType DEF SumFunction
  <2> QED BY <2>1, <2>3 DEF RequestsOf, UsageOf, v, w
<1>3. \A e \in pods : e.usageKnown = podMetricsOK
  BY DEF Inv, PodsAreEntries, EntryOf
<1> QED BY <1>1, <1>2, <1>3

\* Some pods know their usage when the query for it succeeded.
LEMMA FoldSays ==
  ASSUME Inv, NEW S \in SUBSET pods, S # {}
  PROVE  FoldSummary(S) = NewMetric(RequestsOf(S), UsageOf(S), podMetricsOK)
<1>1. (\A e \in S : e.usageKnown) = podMetricsOK
  BY EntriesAreCounted DEF Inv, TypeOK
<1> QED BY <1>1 DEF FoldSummary, RequestsOf, UsageOf

\* The pods that a report selects for a group are those on its nodes.
LEMMA SelectedAreOnMembers ==
  ASSUME Inv, detail, NEW g \in DOMAIN groups
  PROVE  /\ g # NoName
         /\ SelectPods(g) = {e \in pods : e.node \in Members(g)}
         /\ SelectPods(g) = {EntryOf(p) : p \in PodsOn(Members(g))}
<1>1. g # NoName
  BY NamesAssumption DEF Inv, TypeOK, GroupNames
<1>2. \A n : At(groupOfNode, n, NoName) = g <=> n \in Members(g)
  BY <1>1 DEF At, Members
<1>3. SelectPods(g) = {e \in pods : e.node \in Members(g)}
  BY <1>1, <1>2 DEF SelectPods
<1>4. pods = {EntryOf(p) : p \in Reserving}
  BY DEF Inv, PodsAreEntries
<1>5. \A p \in Reserving : EntryOf(p).node = podList[p].node
  BY DEF EntryOf
<1> QED BY <1>1, <1>3, <1>4, <1>5 DEF PodsOn

LEMMA GroupRequestsItsEntries ==
  ASSUME Inv, detail, NEW g \in DOMAIN groups
  PROVE  groups[g].requested = RequestsOf(SelectPods(g))
<1> DEFINE S == PodsOn(Members(g))
           T == SelectPods(g)
           f == [p \in S |-> EntryOf(p)]
           v == [e \in T |-> e.requested]
<1>1. T = {EntryOf(p) : p \in S}
  BY SelectedAreOnMembers
<1>2. IsFiniteSet(S) /\ \A p \in S : Requests[p] \in Nat
  <2>1. S \in SUBSET DOMAIN podList
    BY DEF PodsOn, Reserving
  <2> QED BY <2>1, FS_Subset, NamesAssumption DEF Inv, TypeOK, ReadSoFar
<1>3. \A p \in S : EntryOf(p).name = p /\ EntryOf(p).requested = Requests[p]
  BY DEF EntryOf
<1> HIDE DEF S, T
<1>4. \A p, q \in S : f[p] = f[q] => p = q
  BY <1>3
<1>5. T = {f[p] : p \in S} /\ \A p \in S : v[f[p]] = Requests[p]
  BY <1>1, <1>3
<1>6. DOMAIN v = T
  OBVIOUS
<1> HIDE DEF f, v
<1>7. SumFunctionOnSet(v, T) = SumFunctionOnSet(Requests, S)
  BY <1>2, <1>4, <1>5, SumOfImage
<1>8. SumFunction(v) = Requested(S)
  BY <1>6, <1>7 DEF SumFunction, Requested
<1> QED BY <1>8 DEF Inv, GroupsGetTheirPods, RequestsOf, S, T, v

\* Entries told apart by a class in G add up class by class.
LEMMA EntriesByClass ==
  ASSUME Inv, NEW S \in SUBSET pods, NEW G, IsFiniteSet(G), NEW class, \A e \in S : class[e] \in G,
         NEW r, DOMAIN r = G
  PROVE  /\ (\A x \in G : r[x] = RequestsOf({e \in S : class[e] = x})) => RequestsOf(S) = SumFunction(r)
         /\ (\A x \in G : r[x] = UsageOf({e \in S : class[e] = x})) => UsageOf(S) = SumFunction(r)
<1>1. IsFiniteSet(S) /\ \A e \in S : e.requested \in Nat /\ e.used \in Nat
  BY EntriesAreCounted
<1>2. ASSUME NEW w, DOMAIN w = S, \A e \in S : w[e] \in Nat,
             \A x \in G : r[x] = SumFunctionOnSet(w, {e \in S : class[e] = x})
      PROVE  SumFunction(w) = SumFunction(r)
  <2> DEFINE v == [x \in G |-> SumFunctionOnSet(w, {e \in S : class[e] = x})]
  <2>1. SumFunctionOnSet(w, S) = SumFunctionOnSet(v, G)
    BY <1>1, <1>2, SumByClass
  <2>2. \A x \in G : v[x] = r[x]
    BY <1>2
  <2> HIDE DEF v
  <2> QED BY <1>2, <2>1, <2>2, SumSame DEF SumFunction
<1>3. ASSUME \A x \in G : r[x] = RequestsOf({e \in S : class[e] = x})
      PROVE  RequestsOf(S) = SumFunction(r)
  <2> DEFINE w == [e \in S |-> e.requested]
  <2>1. \A T \in SUBSET S : SumFunctionOnSet(w, T) = RequestsOf(T)
    <3> SUFFICES ASSUME NEW T \in SUBSET S PROVE SumFunctionOnSet(w, T) = RequestsOf(T)
      OBVIOUS
    <3> DEFINE v == [e \in T |-> e.requested]
    <3>1. IsFiniteSet(T) /\ DOMAIN v = T /\ \A e \in T : w[e] = v[e]
      BY <1>1, FS_Subset
    <3> HIDE DEF v, w
    <3>2. SumFunctionOnSet(w, T) = SumFunction(v)
      BY <3>1, SumSame DEF SumFunction
    <3> QED BY <3>2 DEF v, RequestsOf
  <2>2. DOMAIN w = S /\ \A e \in S : w[e] \in Nat
    BY <1>1
  <2> HIDE DEF w
  <2>3. \A x \in G : r[x] = SumFunctionOnSet(w, {e \in S : class[e] = x})
    BY <1>3, <2>1
  <2>4. SumFunction(w) = SumFunction(r)
    BY <1>2, <2>2, <2>3
  <2> QED BY <2>4 DEF w, RequestsOf
<1>4. ASSUME \A x \in G : r[x] = UsageOf({e \in S : class[e] = x})
      PROVE  UsageOf(S) = SumFunction(r)
  <2> DEFINE w == [e \in S |-> e.used]
  <2>1. \A T \in SUBSET S : SumFunctionOnSet(w, T) = UsageOf(T)
    <3> SUFFICES ASSUME NEW T \in SUBSET S PROVE SumFunctionOnSet(w, T) = UsageOf(T)
      OBVIOUS
    <3> DEFINE v == [e \in T |-> e.used]
    <3>1. IsFiniteSet(T) /\ DOMAIN v = T /\ \A e \in T : w[e] = v[e]
      BY <1>1, FS_Subset
    <3> HIDE DEF v, w
    <3>2. SumFunctionOnSet(w, T) = SumFunction(v)
      BY <3>1, SumSame DEF SumFunction
    <3> QED BY <3>2 DEF v, UsageOf
  <2>2. DOMAIN w = S /\ \A e \in S : w[e] \in Nat
    BY <1>1
  <2> HIDE DEF w
  <2>3. \A x \in G : r[x] = SumFunctionOnSet(w, {e \in S : class[e] = x})
    BY <1>4, <2>1
  <2>4. SumFunction(w) = SumFunction(r)
    BY <1>2, <2>2, <2>3
  <2> QED BY <2>4 DEF w, UsageOf
<1> QED BY <1>3, <1>4

-----------------------------------------------------------------------------
(* The reports of a group *)

LEMMA MetricSays ==
  ASSUME NEW r, NEW u, NEW known
  PROVE  /\ NewMetric(r, u, known).requested = r
         /\ NewMetric(r, u, known).used = IF known THEN u ELSE Null
BY DEF NewMetric

LEMMA GroupReport ==
  ASSUME Inv, NEW g \in DOMAIN groups, detail
  PROVE  /\ DOMAIN NamespaceReport(g) = {e.namespace : e \in SelectPods(g)}
         /\ \A ns \in DOMAIN NamespaceReport(g) :
              LET there == {e \in SelectPods(g) : e.namespace = ns}
              IN  /\ NamespaceReport(g)[ns].requested = RequestsOf(there)
                  /\ NamespaceReport(g)[ns].used = IF podMetricsOK THEN UsageOf(there) ELSE Null
<1>1. NamespaceReport(g) = [ns \in {e.namespace : e \in SelectPods(g)} |->
                              FoldSummary({e \in SelectPods(g) : e.namespace = ns})]
  BY SelectedAreOnMembers DEF NamespaceReport
<1>2. ASSUME NEW S \in SUBSET pods, S # {}
      PROVE  /\ FoldSummary(S).requested = RequestsOf(S)
             /\ FoldSummary(S).used = IF podMetricsOK THEN UsageOf(S) ELSE Null
  BY <1>2, FoldSays, MetricSays
<1>3. \A ns \in DOMAIN NamespaceReport(g) :
        LET there == {e \in SelectPods(g) : e.namespace = ns}
        IN  there \in SUBSET pods /\ there # {} /\ NamespaceReport(g)[ns] = FoldSummary(there)
  BY <1>1 DEF SelectPods
<1> QED BY <1>1, <1>2, <1>3

LEMMA InvScopesAgree == Inv => ScopesAgree
<1> SUFFICES ASSUME Inv, detail, NEW g \in DOMAIN groups
             PROVE  /\ Overview(g)[g].requested = Reported(NamespaceReport(g))
                    /\ Overview(g)[g].requested = Reported(PodReport(g))
  BY DEF ScopesAgree
<1> DEFINE S == SelectPods(g)
           G == DOMAIN NamespaceReport(g)
           class == [e \in S |-> e.namespace]
<1>1. Overview(g)[g].requested = RequestsOf(S)
  <2>1. Overview(g)[g] = NewMetric(groups[g].requested, groups[g].used, nodeMetricsOK)
    BY DEF Overview
  <2> QED BY <2>1, MetricSays, GroupRequestsItsEntries
<1>2. S \in SUBSET pods /\ IsFiniteSet(S)
  BY EntriesAreCounted DEF SelectPods
<1>3. G = {e.namespace : e \in S}
  BY GroupReport
<1>4. Reported(NamespaceReport(g)) = RequestsOf(S)
  <2>1. IsFiniteSet(G)
    <3>1. class \in Surjection(S, G)
      BY <1>3 DEF Surjection
    <3> QED BY <1>2, <3>1, FS_Surjection
  <2>2. /\ \A e \in S : class[e] \in G
        /\ \A ns \in G : NamespaceReport(g)[ns].requested = RequestsOf({e \in S : class[e] = ns})
    <3>1. \A ns \in G : {e \in S : class[e] = ns} = {e \in S : e.namespace = ns}
      OBVIOUS
    <3> QED BY <1>3, <3>1, GroupReport
  <2> HIDE DEF S, G, class
  <2> DEFINE r == [ns \in G |-> NamespaceReport(g)[ns].requested]
  <2>3. DOMAIN r = G /\ \A ns \in G : r[ns] = RequestsOf({e \in S : class[e] = ns})
    BY <2>2
  <2> HIDE DEF r
  <2>4. RequestsOf(S) = SumFunction(r)
    BY <1>2, <2>1, <2>2, <2>3, EntriesByClass
  <2> QED BY <2>4 DEF Reported, G, r
<1>5. Reported(PodReport(g)) = RequestsOf(S)
  <2>1. /\ DOMAIN PodReport(g) = S
        /\ \A e \in S : PodReport(g)[e].requested = e.requested
    BY MetricSays DEF PodReport
  <2>2. [e \in DOMAIN PodReport(g) |-> PodReport(g)[e].requested] = [e \in S |-> e.requested]
    BY <2>1
  <2> QED BY <2>2 DEF Reported, RequestsOf
<1> QED BY <1>1, <1>4, <1>5

LEMMA EntriesInParts ==
  ASSUME Inv, NEW S \in SUBSET pods, NEW A \in SUBSET S, NEW B, B = S \ A
  PROVE  RequestsOf(S) = RequestsOf(A) + RequestsOf(B) /\ UsageOf(S) = UsageOf(A) + UsageOf(B)
<1>1. /\ IsFiniteSet(S) /\ IsFiniteSet(A) /\ IsFiniteSet(B)
      /\ \A e \in S : e.requested \in Nat /\ e.used \in Nat
  BY EntriesAreCounted
<1>2. ASSUME NEW w, NEW a, NEW b, DOMAIN w = S, DOMAIN a = A, DOMAIN b = B,
             \A e \in S : w[e] \in Nat, \A e \in A : a[e] = w[e], \A e \in B : b[e] = w[e]
      PROVE  SumFunction(w) = SumFunction(a) + SumFunction(b)
  <2>1. SumFunctionOnSet(w, S) = SumFunctionOnSet(w, A) + SumFunctionOnSet(w, B)
    BY <1>1, <1>2, SumOfParts
  <2>2. SumFunctionOnSet(a, A) = SumFunctionOnSet(w, A) /\ SumFunctionOnSet(b, B) = SumFunctionOnSet(w, B)
    BY <1>1, <1>2, SumSame
  <2> QED BY <1>2, <2>1, <2>2 DEF SumFunction
<1>3. RequestsOf(S) = RequestsOf(A) + RequestsOf(B)
  <2> DEFINE w == [e \in S |-> e.requested]
             a == [e \in A |-> e.requested]
             b == [e \in B |-> e.requested]
  <2>1. /\ DOMAIN w = S /\ DOMAIN a = A /\ DOMAIN b = B /\ \A e \in S : w[e] \in Nat
        /\ (\A e \in A : a[e] = w[e]) /\ \A e \in B : b[e] = w[e]
    BY <1>1
  <2> HIDE DEF w, a, b
  <2>2. SumFunction(w) = SumFunction(a) + SumFunction(b)
    BY <1>2, <2>1
  <2> QED BY <2>2 DEF w, a, b, RequestsOf
<1>4. UsageOf(S) = UsageOf(A) + UsageOf(B)
  <2> DEFINE w == [e \in S |-> e.used]
             a == [e \in A |-> e.used]
             b == [e \in B |-> e.used]
  <2>1. /\ DOMAIN w = S /\ DOMAIN a = A /\ DOMAIN b = B /\ \A e \in S : w[e] \in Nat
        /\ (\A e \in A : a[e] = w[e]) /\ \A e \in B : b[e] = w[e]
    BY <1>1
  <2> HIDE DEF w, a, b
  <2>2. SumFunction(w) = SumFunction(a) + SumFunction(b)
    BY <1>2, <2>1
  <2> QED BY <2>2 DEF w, a, b, UsageOf
<1> QED BY <1>3, <1>4

LEMMA InvGroupsMakeUp == Inv => GroupsMakeUpNamespaces
<1> DEFINE all(ns) == NamespaceReport(NoName)[ns]
           in(ns) == {g \in DOMAIN groups : ns \in DOMAIN NamespaceReport(g)}
           stray(ns) == {e \in EntriesOf(ns) : e.node \notin DOMAIN groupOfNode}
           requests(ns) == [g \in in(ns) |-> NamespaceReport(g)[ns].requested]
           usage(ns) == [g \in in(ns) |-> NamespaceReport(g)[ns].used]
<1>1. ASSUME Inv, detail, NEW ns \in DOMAIN namespaces
      PROVE  /\ all(ns).requested = SumFunction(requests(ns)) + RequestsOf(stray(ns))
             /\ \A g \in in(ns) : NamespaceReport(g)[ns].used = Null <=> all(ns).used = Null
             /\ all(ns).used # Null => all(ns).used = SumFunction(usage(ns)) + UsageOf(stray(ns))
  <2> DEFINE E == EntriesOf(ns)
             K == {e \in E : e.node \in DOMAIN groupOfNode}
             G == in(ns)
             T == stray(ns)
             class == [e \in K |-> groupOfNode[e.node]]
             r == requests(ns)
             u == usage(ns)
  <2>1. /\ all(ns).requested = RequestsOf(E)
        /\ all(ns).used = IF podMetricsOK THEN UsageOf(E) ELSE Null
    <3>1. NamespaceReport(NoName)[ns] = NewMetric(namespaces[ns].requested, namespaces[ns].used, podMetricsOK)
      BY <1>1 DEF NamespaceReport
    <3>2. namespaces[ns].requested = RequestsOf(E) /\ namespaces[ns].used = UsageOf(E)
      BY <1>1 DEF Inv, NamespacesAreTheirPods, RequestsOf, UsageOf
    <3> QED BY <3>1, <3>2, MetricSays
  <2>2. E \in SUBSET pods /\ K \in SUBSET pods /\ K \in SUBSET E /\ T = E \ K
    BY DEF EntriesOf
  <2>3. \A g \in DOMAIN groups : {e \in SelectPods(g) : e.namespace = ns} = {e \in K : class[e] = g}
    <3> SUFFICES ASSUME NEW g \in DOMAIN groups
                 PROVE  {e \in SelectPods(g) : e.namespace = ns} = {e \in K : class[e] = g}
      OBVIOUS
    <3>1. SelectPods(g) = {e \in pods : e.node \in DOMAIN groupOfNode /\ groupOfNode[e.node] = g}
      BY <1>1, SelectedAreOnMembers DEF Members
    <3> QED BY <3>1 DEF EntriesOf
  <2>4. IsFiniteSet(G) /\ \A e \in K : class[e] \in G
    <3>1. G \in SUBSET DOMAIN groups
      OBVIOUS
    <3>2. ASSUME NEW e \in K PROVE class[e] \in G
      <4>1. class[e] = groupOfNode[e.node] /\ class[e] \in DOMAIN groups
        BY <1>1 DEF Inv, GroupsAreTheirNodes
      <4>2. e \in SelectPods(class[e]) /\ e.namespace = ns
        BY <2>3, <4>1
      <4>3. ns \in DOMAIN NamespaceReport(class[e])
        <5> HIDE DEF E, K, G, T, class, r, u
        <5>1. DOMAIN NamespaceReport(class[e]) = {x.namespace : x \in SelectPods(class[e])}
          BY <1>1, <4>1, GroupReport
        <5> QED BY <4>2, <5>1
      <4> QED BY <4>1, <4>3
    <3> QED BY <1>1, <3>1, <3>2, FS_Subset DEF Inv, ReadSoFar
  <2>5. /\ DOMAIN r = G /\ DOMAIN u = G
        /\ \A g \in G : /\ r[g] = RequestsOf({e \in K : class[e] = g})
                        /\ u[g] = IF podMetricsOK THEN UsageOf({e \in K : class[e] = g}) ELSE Null
                        /\ NamespaceReport(g)[ns].used = u[g]
    BY <1>1, <2>3, GroupReport
  <2>6. \A S \in SUBSET pods : UsageOf(S) \in Nat /\ UsageOf(S) # Null
    BY <1>1, EntriesAreCounted, NullAssumption
  <2>7. ASSUME NEW g \in G PROVE NamespaceReport(g)[ns].used = Null <=> all(ns).used = Null
    <3>1. {e \in K : class[e] = g} \in SUBSET pods
      BY <2>2
    <3>2. UsageOf({e \in K : class[e] = g}) # Null /\ UsageOf(E) # Null
      BY <2>2, <2>6, <3>1
    <3> HIDE DEF E, K, class, u
    <3> QED BY <2>1, <2>5, <3>2
  <2> HIDE DEF E, K, G, T, class, r, u
  <2>8. /\ RequestsOf(K) = SumFunction(r)
        /\ podMetricsOK => UsageOf(K) = SumFunction(u)
    <3>1. RequestsOf(K) = SumFunction(r)
      BY <1>1, <2>2, <2>4, <2>5, EntriesByClass
    <3>2. ASSUME podMetricsOK PROVE UsageOf(K) = SumFunction(u)
      <4>1. DOMAIN u = G /\ \A g \in G : u[g] = UsageOf({e \in K : class[e] = g})
        BY <2>5, <3>2
      <4> QED BY <1>1, <2>2, <2>4, <4>1, EntriesByClass
    <3> QED BY <3>1, <3>2
  <2>9. RequestsOf(E) = RequestsOf(K) + RequestsOf(T) /\ UsageOf(E) = UsageOf(K) + UsageOf(T)
    BY <1>1, <2>2, EntriesInParts
  <2> QED BY <2>1, <2>7, <2>8, <2>9 DEF E, G, T, r, u
<1> HIDE DEF all, requests, usage
<1> QED BY <1>1 DEF GroupsMakeUpNamespaces, RequestsOf, UsageOf, all, requests, usage

-----------------------------------------------------------------------------
(* The command line aggregates as Aggregate does *)

LEMMA StepsAggregate == [CNext]_<<vars, cliVars>> => [Next]_vars
<1> SUFFICES ASSUME [CNext]_<<vars, cliVars>> PROVE [Next]_vars
  OBVIOUS
<1>1. CASE ConfigFails \/ Resolve \/ CollectFails
  BY <1>1 DEF ConfigFails, Resolve, CollectFails
<1>2. CASE Aggregating
  BY <1>2 DEF Aggregating
<1>3. ASSUME NEW req \in Reports, Render(req) PROVE [Next]_vars
  BY <1>3 DEF Render
<1>4. CASE UNCHANGED <<vars, cliVars>>
  BY <1>4
<1> QED BY <1>1, <1>2, <1>3, <1>4 DEF CNext

(***************************************************************************)
(* The cluster that a report is about is one that Aggregate makes: no step *)
(* of the command line touches it, however the run ends.                   *)
(***************************************************************************)
THEOREM CommandLineAggregates == CSpec => Spec
<1>1. CInit => Init
  BY DEF CInit
<1> QED BY <1>1, StepsAggregate, PTL DEF CSpec, Spec

(***************************************************************************)
(* BuildOverview, BuildNamespaces and BuildPods agree about the requests   *)
(* of every node group.                                                    *)
(***************************************************************************)
THEOREM ScopesTheorem == CSpec => []ScopesAgree
BY CommandLineAggregates, InvInit, InvNext, InvScopesAgree, PTL DEF Spec

(***************************************************************************)
(* BuildNamespaces with --nodegroup, for all the groups, makes up what it  *)
(* says without, in requests and in usage; nothing is counted twice.       *)
(***************************************************************************)
THEOREM GroupsMakeUpTheorem == CSpec => []GroupsMakeUpNamespaces
BY CommandLineAggregates, InvInit, InvNext, InvGroupsMakeUp, PTL DEF Spec

-----------------------------------------------------------------------------
(* The rows of a report: one for each of its subjects *)

\* before puts the elements of S in one order.
Orders(before, S) ==
  /\ \A x, y \in S : <<x, y>> \in before => <<y, x>> \notin before
  /\ \A x, y, z \in S : <<x, y>> \in before /\ <<y, z>> \in before => <<x, z>> \in before
  /\ \A x, y \in S : x # y => <<x, y>> \in before \/ <<y, x>> \in before

\* s has every element of S once.
Lists(s, S) ==
  /\ Len(s) \in Nat /\ s \in Seq(S) /\ DOMAIN s = 1..Len(s)
  /\ \A i, j \in DOMAIN s : s[i] = s[j] => i = j
  /\ S = {s[i] : i \in DOMAIN s}

\* There is a listing in the order of before: a stable sort of the elements,
\* however they are enumerated.
LEMMA ListedLists ==
  ASSUME NEW S, IsFiniteSet(S), NEW before, Orders(before, S)
  PROVE  /\ Lists(Listed(S, before), S)
         /\ \A i, j \in DOMAIN Listed(S, before) :
              i < j => <<Listed(S, before)[i], Listed(S, before)[j]>> \in before
<1> DEFINE n == Cardinality(S)
           IsListing(s) == \A i, j \in 1..n : i < j => <<s[i], s[j]>> \in before
<1>1. n \in Nat
  BY FS_CardinalityType
<1>2. PICK f \in Bijection(1..n, S) : TRUE
  BY FS_CardinalityType DEF ExistsBijection
<1>3. /\ f \in [1..n -> S] /\ f \in Seq(S) /\ Len(f) = n
      /\ \A i, j \in 1..n : f[i] = f[j] => i = j
  BY <1>1, <1>2 DEF Bijection, Injection, IsInjective
<1> DEFINE less == {p \in (1..n) \X (1..n) : <<f[p[1]], f[p[2]]>> \in before}
<1>4. \A i, j \in 1..n : <<i, j>> \in less <=> <<f[i], f[j]>> \in before
  OBVIOUS
<1> HIDE DEF less
<1>5. StrictWeakOrder(less, n)
  <2>1. \A i \in 1..n : f[i] \in S
    BY <1>3
  <2>2. \A i, j \in 1..n : <<i, j>> \in less => <<j, i>> \notin less
    BY <1>4, <2>1 DEF Orders
  <2>3. ASSUME NEW i \in 1..n, NEW j \in 1..n, NEW k \in 1..n, <<i, j>> \in less, <<i, k>> \notin less
        PROVE  <<k, j>> \in less
    <3>1. f[i] = f[k] \/ <<f[k], f[i]>> \in before
      BY <1>4, <2>1, <2>3 DEF Orders
    <3>2. CASE f[i] = f[k]
      BY <1>3, <2>3, <3>2
    <3>3. CASE <<f[k], f[i]>> \in before
      BY <1>4, <2>1, <2>3, <3>3 DEF Orders
    <3> QED BY <3>1, <3>2, <3>3
  <2> QED BY <2>2, <2>3 DEF StrictWeakOrder
<1>6. /\ StableSort(f, less) \in Seq(S) /\ Len(StableSort(f, less)) = n
      /\ \E from \in Bijection(1..n, 1..n) :
           /\ \A p \in 1..n : StableSort(f, less)[p] = f[from[p]]
           /\ \A p, q \in 1..n : p < q => InFront(less, from[p], from[q])
  <2> HIDE DEF n
  <2>1. f \in Seq(S) /\ Len(f) = n /\ StrictWeakOrder(less, Len(f))
    BY <1>3, <1>5
  <2> QED BY <2>1, StableSortSorts
<1>7. PICK from \in Bijection(1..n, 1..n) :
           /\ \A p \in 1..n : StableSort(f, less)[p] = f[from[p]]
           /\ \A p, q \in 1..n : p < q => InFront(less, from[p], from[q])
  BY <1>6
<1>8. /\ \A p \in 1..n : from[p] \in 1..n
      /\ \A p, q \in 1..n : from[p] = from[q] => p = q
  BY <1>7 DEF Bijection, Injection, IsInjective
<1>9. StableSort(f, less) \in [1..n -> S]
  BY <1>6
<1>10. IsListing(StableSort(f, less))
  <2> SUFFICES ASSUME NEW i \in 1..n, NEW j \in 1..n, i < j
               PROVE  <<f[from[i]], f[from[j]]>> \in before
    BY <1>7
  <2>1. from[i] \in 1..n /\ from[j] \in 1..n /\ from[i] # from[j]
    BY <1>8
  <2>2. <<from[i], from[j]>> \in less \/ <<from[j], from[i]>> \notin less
    BY <1>7 DEF InFront
  <2>3. f[from[i]] # f[from[j]] /\ f[from[i]] \in S /\ f[from[j]] \in S
    BY <1>3, <2>1
  <2> QED BY <1>4, <2>1, <2>2, <2>3 DEF Orders
<1> DEFINE s == Listed(S, before)
<1>11. s \in [1..n -> S] /\ IsListing(s)
  <2>1. s = CHOOSE t \in [1..n -> S] : IsListing(t)
    BY DEF Listed
  <2> HIDE DEF s, IsListing, n
  <2> QED BY <1>9, <1>10, <2>1
<1> HIDE DEF s
<1>12. s \in Seq(S) /\ Len(s) = n /\ DOMAIN s = 1..n
  BY <1>1, <1>11
<1>13. \A i, j \in 1..n : s[i] = s[j] => i = j
  <2>1. \A i, j \in 1..n : i < j => s[i] # s[j]
    <3>1. \A i \in 1..n : s[i] \in S
      BY <1>11
    <3> QED BY <1>11, <3>1 DEF Orders
  <2>2. \A i, j \in 1..n : i < j \/ j < i \/ i = j
    BY <1>1
  <2> QED BY <2>1, <2>2
<1>14. S = {s[i] : i \in 1..n}
  <2>1. s \in Injection(1..n, S)
    BY <1>11, <1>13 DEF Injection, IsInjective
  <2>2. IsFiniteSet(1..n) /\ Cardinality(1..n) = Cardinality(S)
    BY <1>1, FS_Interval
  <2>3. s \in Surjection(1..n, S)
    BY <2>1, <2>2, FS_Injection
  <2> QED BY <2>3 DEF Surjection
<1> HIDE DEF n
<1> QED BY <1>1, <1>11, <1>12, <1>13, <1>14 DEF Lists, s

LEMMA NamesOrder ==
  ASSUME NEW S \in SUBSET Nat
  PROVE  Orders(ByName(S), S)
<1> DEFINE before == ByName(S)
<1>1. \A x, y \in S : <<x, y>> \in before <=> x < y
  BY DEF ByName
<1> HIDE DEF before
<1>2. Orders(before, S)
  BY <1>1 DEF Orders
<1> QED BY <1>2 DEF before

\* Namespace and name tell the pods apart.
LEMMA EntriesOrder ==
  ASSUME Inv, detail, NEW S \in SUBSET pods
  PROVE  /\ Orders(ByNamespace(S), S)
         /\ \A e, f \in S : e.namespace = f.namespace /\ e.name = f.name => e = f
<1> DEFINE before == ByNamespace(S)
           ahead(e, f) == e.namespace < f.namespace \/ (e.namespace = f.namespace /\ e.name < f.name)
<1>1. \A x, y \in S : <<x, y>> \in before <=> ahead(x, y)
  BY DEF ByNamespace
<1>2. \A e \in S : e.namespace \in Nat /\ e.name \in Nat
  BY NamesAssumption DEF Inv, TypeOK
<1>3. \A e, f \in S : e.namespace = f.namespace /\ e.name = f.name => e = f
  <2>1. pods = {EntryOf(p) : p \in Reserving}
    BY DEF Inv, PodsAreEntries
  <2>2. \A p : EntryOf(p).name = p
    BY DEF EntryOf
  <2> QED BY <2>1, <2>2
<1> HIDE DEF before
<1>4. /\ \A x, y \in S : <<x, y>> \in before => <<y, x>> \notin before
      /\ \A x, y, z \in S : <<x, y>> \in before /\ <<y, z>> \in before => <<x, z>> \in before
  BY <1>1, <1>2
<1>5. \A x, y \in S : x # y => <<x, y>> \in before \/ <<y, x>> \in before
  BY <1>1, <1>2, <1>3
<1> QED BY <1>3, <1>4, <1>5 DEF Orders, before

\* What a report is about.
SubjectSet(scope, g) ==
  CASE scope = "overview"  -> {n \in DOMAIN groups : g \in {NoName, n}}
    [] scope = "namespace" -> DOMAIN NamespaceReport(g)
    [] scope = "pod"       -> SelectPods(g)

LEMMA NamesReported ==
  ASSUME Inv, NEW g
  PROVE  /\ DOMAIN NamespaceReport(g) \in SUBSET Namespaces
         /\ \A x \in SubjectSet("namespace", g) : x \in Nat
<1>1. SelectPods(g) \subseteq pods
  BY DEF SelectPods
<1>2. CASE g = NoName
  BY <1>2, NamesAssumption DEF NamespaceReport, Inv, TypeOK, SubjectSet
<1>3. CASE g # NoName
  <2>1. DOMAIN NamespaceReport(g) = {e.namespace : e \in SelectPods(g)}
    BY <1>3 DEF NamespaceReport
  <2>2. \A e \in pods : e.namespace \in Namespaces
    BY DEF Inv, TypeOK
  <2> QED BY <1>1, <2>1, <2>2, NamesAssumption DEF SubjectSet
<1> QED BY <1>2, <1>3

\* A report has one row for each of its subjects.
LEMMA SubjectsListed ==
  ASSUME Inv, NEW scope \in Scopes, detail <=> scope # "overview",
         NEW g \in DOMAIN groups \cup {NoName}
  PROVE  Lists(Subjects(scope, g), SubjectSet(scope, g))
<1>1. CASE scope = "overview"
  <2>1. Lists(order, DOMAIN groups)
    <3>1. order \in Seq(GroupNames) /\ \A i \in 1..Len(order) : order[i] \in DOMAIN groups
      BY DEF Inv, OrderLists, TypeOK
    <3>2. order \in Seq(DOMAIN groups) /\ Len(order) \in Nat /\ DOMAIN order = 1..Len(order)
      <4>1. Len(order) \in Nat /\ DOMAIN order = 1..Len(order) /\ order \in [1..Len(order) -> GroupNames]
        BY <3>1, LenProperties
      <4>2. order \in [1..Len(order) -> DOMAIN groups]
        BY <3>1, <4>1
      <4> QED BY <4>1, <4>2, SeqDef
    <3>3. /\ \A i, j \in 1..Len(order) : order[i] = order[j] => i = j
          /\ \A i \in 1..Len(order) : order[i] \in DOMAIN groups
          /\ \A n \in DOMAIN groups : \E i \in 1..Len(order) : order[i] = n
      BY DEF Inv, OrderLists
    <3>4. DOMAIN groups = {order[i] : i \in DOMAIN order}
      <4>1. \A i \in DOMAIN order : order[i] \in DOMAIN groups
        BY <3>2, <3>3
      <4>2. \A n \in DOMAIN groups : \E i \in DOMAIN order : order[i] = n
        BY <3>2, <3>3
      <4> QED BY <4>1, <4>2
    <3>5. \A i, j \in DOMAIN order : order[i] = order[j] => i = j
      BY <3>2, <3>3
    <3> QED BY <3>2, <3>4, <3>5 DEF Lists
  <2>2. NoName \notin DOMAIN groups
    BY NamesAssumption DEF Inv, TypeOK, GroupNames
  <2>3. CASE g = NoName
    BY <1>1, <2>1, <2>3 DEF Subjects, SubjectSet
  <2>4. CASE g # NoName
    <3>1. SubjectSet(scope, g) = {g} /\ Subjects(scope, g) = <<g>>
      BY <1>1, <2>4 DEF Subjects, SubjectSet
    <3>2. Lists(<<g>>, {g})
      BY DEF Lists
    <3> QED BY <3>1, <3>2
  <2> QED BY <2>3, <2>4
<1>2. CASE scope = "namespace"
  <2>2. IsFiniteSet(DOMAIN NamespaceReport(g)) /\ DOMAIN NamespaceReport(g) \in SUBSET Nat
    BY NamesReported, NamesAssumption, FS_Subset
  <2> QED BY <1>2, <2>2, NamesOrder, ListedLists DEF Subjects, SubjectSet
<1>3. CASE scope = "pod"
  <2>1. SelectPods(g) \in SUBSET pods
    BY DEF SelectPods
  <2>2. IsFiniteSet(SelectPods(g)) /\ Orders(ByNamespace(SelectPods(g)), SelectPods(g))
    BY <1>3, <2>1, FS_Subset, EntriesOrder DEF Inv, ReadSoFar
  <2> QED BY <1>3, <2>2, ListedLists DEF Subjects, SubjectSet
<1> QED BY <1>1, <1>2, <1>3 DEF Scopes

-----------------------------------------------------------------------------
(* Both formats say the same *)

\* The fields of a record are the entries of a row under the columns.
Says(columns, fields, row) ==
  /\ IsSequence(columns) /\ IsSequence(fields)
  /\ Len(fields) = Len(columns)
  /\ \A c \in 1..Len(columns) : fields[c] = Number(Entry(row, columns[c]))

\* Columns and fields that agree piece by piece agree.
LEMMA SaysTogether ==
  ASSUME NEW row, NEW h, NEW d, NEW k, NEW e, Says(h, d, row), Says(k, e, row)
  PROVE  Says(h \o k, d \o e, row)
<1>1. /\ IsSequence(h) /\ IsSequence(k) /\ IsSequence(d) /\ IsSequence(e)
      /\ Len(d) = Len(h) /\ Len(e) = Len(k)
      /\ \A c \in 1..Len(h) : d[c] = Number(Entry(row, h[c]))
      /\ \A c \in 1..Len(k) : e[c] = Number(Entry(row, k[c]))
  BY DEF Says
<1>2. /\ IsSequence(h \o k)
      /\ Len(h) \in Nat /\ Len(k) \in Nat
      /\ Len(h \o k) = Len(h) + Len(k)
      /\ \A i \in 1..Len(h) + Len(k) : (h \o k)[i] = IF i <= Len(h) THEN h[i] ELSE k[i - Len(h)]
  BY <1>1, JoinSequences
<1>3. /\ IsSequence(d \o e)
      /\ Len(d \o e) = Len(d) + Len(e)
      /\ \A i \in 1..Len(d) + Len(e) : (d \o e)[i] = IF i <= Len(d) THEN d[i] ELSE e[i - Len(d)]
  BY <1>1, JoinSequences
<1>4. ASSUME NEW c \in 1..Len(h) + Len(k)
      PROVE  (d \o e)[c] = Number(Entry(row, (h \o k)[c]))
  <2>1. CASE c <= Len(h)
    <3>1. (d \o e)[c] = d[c] /\ (h \o k)[c] = h[c]
      BY <1>1, <1>2, <1>3, <2>1
    <3>2. d[c] = Number(Entry(row, h[c]))
      BY <1>1, <1>2, <2>1
    <3> QED BY <3>1, <3>2
  <2>2. CASE c > Len(h)
    <3>1. c - Len(h) \in 1..Len(k)
      BY <1>2, <2>2
    <3>2. (d \o e)[c] = e[c - Len(h)] /\ (h \o k)[c] = k[c - Len(h)]
      BY <1>1, <1>2, <1>3, <2>2
    <3>3. e[c - Len(h)] = Number(Entry(row, k[c - Len(h)]))
      BY <1>1, <3>1
    <3> QED BY <3>2, <3>3
  <2>3. c <= Len(h) \/ c > Len(h)
    <3>1. Len(h) \in Nat /\ Len(k) \in Nat
      BY <1>2
    <3> QED BY <3>1
  <2> QED BY <2>1, <2>2, <2>3
<1> QED BY <1>1, <1>2, <1>3, <1>4 DEF Says

LEMMA CellsSay ==
  ASSUME NEW row, NEW h1, NEW h2, NEW h3
  PROVE  LET n(h) == Number(Entry(row, h))
         IN  /\ Says(<<h1>>, <<n(h1)>>, row)
             /\ Says(<<h1, h2>>, <<n(h1), n(h2)>>, row)
             /\ Says(<<h1, h2, h3>>, <<n(h1), n(h2), n(h3)>>, row)
             /\ \A h4 : Says(<<h1, h2, h3, h4>>, <<n(h1), n(h2), n(h3), n(h4)>>, row)
<1> DEFINE n(h) == Number(Entry(row, h))
<1> SUFFICES ASSUME NEW h4
             PROVE  /\ Says(<<h1>>, <<n(h1)>>, row)
                    /\ Says(<<h1, h2>>, <<n(h1), n(h2)>>, row)
                    /\ Says(<<h1, h2, h3>>, <<n(h1), n(h2), n(h3)>>, row)
                    /\ Says(<<h1, h2, h3, h4>>, <<n(h1), n(h2), n(h3), n(h4)>>, row)
  OBVIOUS
<1> DEFINE S == {h1, h2, h3, h4}
           T == {n(h1), n(h2), n(h3), n(h4)}
<1>1. ASSUME NEW h, NEW d, h \in Seq(S), d \in Seq(T), Len(d) = Len(h),
             \A c \in 1..Len(h) : d[c] = n(h[c])
      PROVE  Says(h, d, row)
  BY <1>1 DEF Says, IsSequence
<1>2. Says(<<h1>>, <<n(h1)>>, row)
  <2> DEFINE h == <<h1>>
             d == <<n(h1)>>
  <2> HIDE DEF n
  <2>1. h \in Seq(S) /\ d \in Seq(T) /\ Len(d) = Len(h) /\ \A c \in 1..Len(h) : d[c] = n(h[c])
    OBVIOUS
  <2> QED BY <1>1, <2>1
<1>3. Says(<<h1, h2>>, <<n(h1), n(h2)>>, row)
  <2> DEFINE h == <<h1, h2>>
             d == <<n(h1), n(h2)>>
  <2> HIDE DEF n
  <2>1. h \in Seq(S) /\ d \in Seq(T) /\ Len(d) = Len(h) /\ \A c \in 1..Len(h) : d[c] = n(h[c])
    OBVIOUS
  <2> QED BY <1>1, <2>1
<1>4. Says(<<h1, h2, h3>>, <<n(h1), n(h2), n(h3)>>, row)
  <2> DEFINE h == <<h1, h2, h3>>
             d == <<n(h1), n(h2), n(h3)>>
  <2> HIDE DEF n
  <2>1. h \in Seq(S) /\ d \in Seq(T) /\ Len(d) = Len(h) /\ \A c \in 1..Len(h) : d[c] = n(h[c])
    OBVIOUS
  <2> QED BY <1>1, <2>1
<1>5. Says(<<h1, h2, h3, h4>>, <<n(h1), n(h2), n(h3), n(h4)>>, row)
  <2> DEFINE h == <<h1, h2, h3, h4>>
             d == <<n(h1), n(h2), n(h3), n(h4)>>
  <2> HIDE DEF n
  <2>1. h \in Seq(S) /\ d \in Seq(T) /\ Len(d) = Len(h) /\ \A c \in 1..Len(h) : d[c] = n(h[c])
    OBVIOUS
  <2> QED BY <1>1, <2>1
<1> QED BY <1>2, <1>3, <1>4, <1>5

LEMMA MetricCellsSay ==
  ASSUME NEW row, NEW r
  PROVE  /\ Says(MetricColumns(r), MetricCells(row[r]), row)
         /\ Says(NodeGroupColumns(r), NodeGroupMetricCells(row[r]), row)
<1>1. \A f : Entry(row, <<r, f>>) = row[r][f]
  BY DEF Entry
<1>2. Says(MetricColumns(r), MetricCells(row[r]), row)
  <2> DEFINE n(h) == Number(Entry(row, h))
             a == <<r, "requested">>
             b == <<r, "used">>
             c == <<r, "waste">>
             d == <<r, "percent">>
  <2>1. MetricColumns(r) = <<a, b, c, d>> /\ MetricCells(row[r]) = <<n(a), n(b), n(c), n(d)>>
    BY <1>1 DEF MetricColumns, MetricCells
  <2> HIDE DEF a, b, c, d
  <2>2. Says(<<a, b, c, d>>, <<n(a), n(b), n(c), n(d)>>, row)
    BY CellsSay
  <2> QED BY <2>1, <2>2
<1>3. Says(<<<<r, "allocatable">>>>, <<Number(row[r].allocatable)>>, row)
  BY <1>1, CellsSay
<1> QED BY <1>2, <1>3, SaysTogether DEF NodeGroupColumns, NodeGroupMetricCells

LEMMA RecordSays ==
  ASSUME NEW scope \in Scopes, NEW row,
         scope = "overview" => row.nodegroup # Null /\ row.nodes # Null,
         scope = "namespace" => row.namespace # Null,
         scope = "pod" => row.namespace # Null /\ row.pod # Null /\ row.node # Null
  PROVE  Says(Header(scope), Record(scope, row), row)
<1>1. \A x : row[x] # Null => Number(Entry(row, <<x>>)) = row[x]
  BY DEF Entry, Number
<1>2. CASE scope = "overview"
  <2>1. Says(<<<<"nodegroup">>, <<"nodes">>>>, <<row.nodegroup, row.nodes>>, row)
    BY <1>1, <1>2, CellsSay
  <2> QED BY <1>2, <2>1, MetricCellsSay, SaysTogether DEF Header, Record
<1>3. CASE scope = "namespace"
  <2>1. Says(<<<<"namespace">>>>, <<row.namespace>>, row)
    BY <1>1, <1>3, CellsSay
  <2> QED BY <1>3, <2>1, MetricCellsSay, SaysTogether DEF Header, Record
<1>4. CASE scope = "pod"
  <2>1. Says(<<<<"namespace">>, <<"pod">>, <<"node">>>>, <<row.namespace, row.pod, row.node>>, row)
    BY <1>1, <1>4, CellsSay
  <2> QED BY <1>4, <2>1, MetricCellsSay, SaysTogether DEF Header, Record
<1> QED BY <1>2, <1>3, <1>4 DEF Scopes

\* m is what newMetric makes of two amounts.
IsMetric(m, known) == \E q \in Nat, u \in Nat : m = NewMetric(q, u, known)

\* A row with the metrics of cpu and memory, with usage exactly if it is known.
MetricRow(row, known) ==
  /\ Kinds \subseteq DOMAIN row
  /\ \A r \in Kinds :
       /\ row[r].used # Null <=> known
       /\ row[r].waste # Null <=> known
       /\ row[r].percent # Null <=> known /\ row[r].requested # <<r, 0>>

\* A tag leaves null alone, and makes no other value null.
LEMMA OfSays ==
  ASSUME NEW r \in Kinds, NEW v, v \in Int \cup Nat \X Nat \/ v = Null
  PROVE  Of(r, v) = Null <=> v = Null
BY NoValueAssumption DEF Of

\* Null metrics are those without usage, and percentages of no requests.
LEMMA GroupSays ==
  ASSUME NEW known \in BOOLEAN, NEW m, IsMetric(m, known), NEW a
  PROVE  MetricRow(NewGroup(m), known) /\ MetricRow(NewGroup(Put(m, "allocatable", a)), known)
<1>1. PICK q \in Nat, u \in Nat : m = NewMetric(q, u, known)
  BY DEF IsMetric
<1>2. /\ m.requested = q
      /\ m.used = IF known THEN u ELSE Null
      /\ m.waste = IF known THEN q - u ELSE Null
      /\ m.percent = IF known /\ q # 0 THEN <<u, q>> ELSE Null
      /\ DOMAIN m = {"requested", "used", "waste", "percent"}
  BY <1>1 DEF NewMetric
<1>3. q # Null /\ u # Null /\ q - u \in Int /\ q - u # Null /\ <<u, q>> \in Nat \X Nat /\ <<u, q>> # Null
  BY NullAssumption
<1>4. ASSUME NEW r \in Kinds
      PROVE  /\ Of(r, m.requested) = <<r, q>>
             /\ Of(r, m.used) # Null <=> known
             /\ Of(r, m.waste) # Null <=> known
             /\ Of(r, m.percent) # Null <=> known /\ q # 0
  <2>1. Of(r, m.used) = Null <=> m.used = Null
    BY <1>2, OfSays
  <2>2. Of(r, m.waste) = Null <=> m.waste = Null
    BY <1>2, <1>3, OfSays
  <2>3. Of(r, m.percent) = Null <=> m.percent = Null
    BY <1>2, <1>3, OfSays
  <2>4. Of(r, m.requested) = <<r, q>>
    BY <1>2, <1>3 DEF Of
  <2> QED BY <1>2, <1>3, <2>1, <2>2, <2>3, <2>4
<1>5. ASSUME NEW w, {"requested", "used", "waste", "percent"} \subseteq DOMAIN w,
             \A f \in {"requested", "used", "waste", "percent"} : w[f] = m[f]
      PROVE  MetricRow(NewGroup(w), known)
  <2>1. Kinds \subseteq DOMAIN NewGroup(w)
    BY DEF NewGroup
  <2>2. ASSUME NEW r \in Kinds
        PROVE  /\ NewGroup(w)[r].used # Null <=> known
               /\ NewGroup(w)[r].waste # Null <=> known
               /\ NewGroup(w)[r].percent # Null <=> known /\ NewGroup(w)[r].requested # <<r, 0>>
    <3>1. \A f \in {"requested", "used", "waste", "percent"} : NewGroup(w)[r][f] = Of(r, m[f])
      BY <1>5 DEF NewGroup
    <3>2. /\ NewGroup(w)[r].requested = Of(r, m.requested) /\ NewGroup(w)[r].used = Of(r, m.used)
          /\ NewGroup(w)[r].waste = Of(r, m.waste) /\ NewGroup(w)[r].percent = Of(r, m.percent)
      BY <3>1
    <3>3. <<r, q>> # <<r, 0>> <=> q # 0
      OBVIOUS
    <3> QED BY <1>4, <3>2, <3>3
  <2> QED BY <2>1, <2>2 DEF MetricRow
<1>6. MetricRow(NewGroup(m), known)
  BY <1>2, <1>5
<1>7. MetricRow(NewGroup(Put(m, "allocatable", a)), known)
  <2> DEFINE w == Put(m, "allocatable", a)
  <2>1. /\ DOMAIN w = DOMAIN m \cup {"allocatable"}
        /\ \A z \in DOMAIN m \ {"allocatable"} : w[z] = m[z]
    BY DEF Put
  <2> HIDE DEF w
  <2>2. \A f \in {"requested", "used", "waste", "percent"} : f \in DOMAIN m \ {"allocatable"}
    BY <1>2
  <2>3. MetricRow(NewGroup(w), known)
    BY <1>5, <2>1, <2>2
  <2> QED BY <2>3 DEF w
<1> QED BY <1>6, <1>7

LEMMA PutKeepsMetrics ==
  ASSUME NEW known, NEW row, MetricRow(row, known), NEW x, x \notin Kinds, NEW y
  PROVE  MetricRow(Put(row, x, y), known)
<1>1. Kinds \subseteq DOMAIN Put(row, x, y) /\ \A r \in Kinds : Put(row, x, y)[r] = row[r]
  <2>1. /\ DOMAIN Put(row, x, y) = DOMAIN row \cup {x}
        /\ \A z \in DOMAIN row \ {x} : Put(row, x, y)[z] = row[z]
    BY DEF Put
  <2>2. \A r \in Kinds : r \in DOMAIN row \ {x}
    BY DEF MetricRow
  <2> QED BY <2>1, <2>2
<1> QED BY <1>1 DEF MetricRow

\* All amounts of a report are numbers; usage comes from one query.
LEMMA MetricsReported ==
  ASSUME Inv, NEW scope \in Scopes, detail <=> scope # "overview",
         NEW g \in DOMAIN groups \cup {NoName}, NEW x \in SubjectSet(scope, g)
  PROVE  /\ scope = "overview"  => IsMetric(Overview(g)[x], UsageKnown(scope))
         /\ scope = "namespace" => IsMetric(NamespaceReport(g)[x], UsageKnown(scope))
         /\ scope = "pod"       => IsMetric(PodReport(g)[x], UsageKnown(scope))
<1>1. CASE scope = "overview"
  <2>1. x \in DOMAIN groups /\ Overview(g)[x] = NewMetric(groups[x].requested, groups[x].used, nodeMetricsOK)
    BY <1>1 DEF SubjectSet, Overview
  <2>2. groups[x].requested \in Nat /\ groups[x].used \in Nat
    BY <2>1 DEF Inv, TypeOK, Accumulators
  <2> QED BY <1>1, <2>1, <2>2 DEF IsMetric, UsageKnown
<1>2. CASE scope = "namespace"
  <2>0. x \in DOMAIN NamespaceReport(g)
    BY <1>2 DEF SubjectSet
  <2>1. CASE g = NoName
    <3>1. x \in DOMAIN namespaces
          /\ NamespaceReport(g)[x] = NewMetric(namespaces[x].requested, namespaces[x].used, podMetricsOK)
      BY <2>0, <2>1 DEF NamespaceReport
    <3>2. namespaces[x].requested \in Nat /\ namespaces[x].used \in Nat
      BY <3>1 DEF Inv, TypeOK
    <3> QED BY <1>2, <3>1, <3>2 DEF IsMetric, UsageKnown
  <2>2. CASE g # NoName
    <3> DEFINE S == {e \in SelectPods(g) : e.namespace = x}
    <3>1. NamespaceReport(g)[x] = FoldSummary(S)
      BY <2>0, <2>2 DEF NamespaceReport
    <3>2. S \in SUBSET pods /\ S # {}
      BY <2>0, <2>2 DEF NamespaceReport, SelectPods
    <3> HIDE DEF S
    <3>3. FoldSummary(S) = NewMetric(RequestsOf(S), UsageOf(S), podMetricsOK)
      BY <3>2, FoldSays
    <3> QED BY <1>2, <3>1, <3>2, <3>3, EntriesAreCounted DEF IsMetric, UsageKnown
  <2> QED BY <2>1, <2>2
<1>3. CASE scope = "pod"
  <2>1. x \in pods /\ PodReport(g)[x] = NewMetric(x.requested, x.used, podMetricsOK)
    BY <1>3, EntriesAreCounted DEF SubjectSet, PodReport, SelectPods
  <2> QED BY <1>3, <2>1, EntriesAreCounted DEF IsMetric, UsageKnown
<1> QED BY <1>1, <1>2, <1>3 DEF Scopes

LEMMA RowSays ==
  ASSUME Inv, NEW scope \in Scopes, detail <=> scope # "overview",
         NEW g \in DOMAIN groups \cup {NoName}, NEW x \in SubjectSet(scope, g)
  PROVE  LET row == Row(scope, g, x)
         IN  /\ MetricRow(row, UsageKnown(scope))
             /\ scope = "overview" => row.nodegroup = x /\ x \in Nat /\ row.nodes \in Nat
             /\ scope = "namespace" => row.namespace = x /\ x \in Nat
             /\ scope = "pod" =>
                  /\ row.namespace = x.namespace /\ row.pod = x.name /\ row.node = x.node
                  /\ x.namespace \in Nat /\ x.name \in Nat /\ x.node \in Nat
<1> DEFINE known == UsageKnown(scope)
<1>1. known \in BOOLEAN
  BY DEF Inv, TypeOK, UsageKnown
<1> HIDE DEF known
<1>2. CASE scope = "overview"
  <2> DEFINE m == Overview(g)[x]
             b == NewGroup(Put(m, "allocatable", groups[x].allocatable))
             c == Put(b, "nodes", groups[x].nodes)
             row == Put(c, "nodegroup", x)
  <2>1. Row(scope, g, x) = row
    BY <1>2 DEF Row, NodeGroupRow, NewNodeGroup
  <2>2. IsMetric(m, known)
    BY <1>2, MetricsReported DEF known
  <2> HIDE DEF m
  <2>3. MetricRow(b, known)
    BY <1>1, <2>2, GroupSays
  <2> HIDE DEF b
  <2>4. MetricRow(c, known)
    BY <2>3, PutKeepsMetrics DEF Kinds
  <2>5. c.nodes = groups[x].nodes /\ "nodes" \in DOMAIN c
    BY DEF Put
  <2> HIDE DEF c
  <2>6. MetricRow(row, known)
    BY <2>4, PutKeepsMetrics DEF Kinds
  <2>7. row.nodegroup = x /\ row.nodes = groups[x].nodes
    BY <2>5 DEF Put
  <2>8. x \in Nat /\ groups[x].nodes \in Nat
    <3>1. x \in DOMAIN groups
      BY <1>2 DEF SubjectSet
    <3> QED BY <3>1, NamesAssumption DEF Inv, TypeOK, GroupNames, Accumulators
  <2> HIDE DEF row
  <2> QED BY <1>2, <2>1, <2>6, <2>7, <2>8 DEF known
<1>3. CASE scope = "namespace"
  <2> DEFINE b == NewGroup(NamespaceReport(g)[x])
             row == Put(b, "namespace", x)
  <2>1. Row(scope, g, x) = row
    BY <1>3 DEF Row, NamespaceRow
  <2>2. IsMetric(NamespaceReport(g)[x], known)
    BY <1>3, MetricsReported DEF known
  <2>3. MetricRow(b, known)
    BY <1>1, <2>2, GroupSays
  <2> HIDE DEF b
  <2>4. MetricRow(row, known)
    BY <2>3, PutKeepsMetrics DEF Kinds
  <2>5. row.namespace = x
    BY DEF Put
  <2>6. x \in Nat
    BY <1>3, NamesReported
  <2> HIDE DEF row
  <2> QED BY <1>3, <2>1, <2>4, <2>5, <2>6 DEF known
<1>4. CASE scope = "pod"
  <2> DEFINE a == NewGroup(PodReport(g)[x])
             b == Put(a, "namespace", x.namespace)
             c == Put(b, "pod", x.name)
             row == Put(c, "node", x.node)
  <2>1. Row(scope, g, x) = row
    BY <1>4 DEF Row, PodRow
  <2>2. IsMetric(PodReport(g)[x], known)
    BY <1>4, MetricsReported DEF known
  <2>3. MetricRow(a, known)
    BY <1>1, <2>2, GroupSays
  <2> HIDE DEF a
  <2>4. MetricRow(b, known)
    BY <2>3, PutKeepsMetrics DEF Kinds
  <2>5. b.namespace = x.namespace /\ "namespace" \in DOMAIN b
    BY DEF Put
  <2> HIDE DEF b
  <2>6. MetricRow(c, known)
    BY <2>4, PutKeepsMetrics DEF Kinds
  <2>7. c.namespace = x.namespace /\ c.pod = x.name /\ {"namespace", "pod"} \subseteq DOMAIN c
    BY <2>5 DEF Put
  <2> HIDE DEF c
  <2>8. MetricRow(row, known)
    BY <2>6, PutKeepsMetrics DEF Kinds
  <2>9. row.namespace = x.namespace /\ row.pod = x.name /\ row.node = x.node
    BY <2>7 DEF Put
  <2>10. x.namespace \in Nat /\ x.name \in Nat /\ x.node \in Nat
    <3>1. x \in pods
      BY <1>4 DEF SubjectSet, SelectPods
    <3> QED BY <3>1, NamesAssumption DEF Inv, TypeOK
  <2> HIDE DEF row
  <2> QED BY <1>4, <2>1, <2>8, <2>9, <2>10 DEF known
<1> QED BY <1>2, <1>3, <1>4 DEF Scopes

\* The header shifts the records by one line.
LEMMA LineAbove ==
  ASSUME NEW h, NEW f, IsSequence(f)
  PROVE  /\ Len(<<h>> \o f) = Len(f) + 1
         /\ (<<h>> \o f)[1] = h
         /\ \A i \in 1..Len(f) : (<<h>> \o f)[i + 1] = f[i]
<1> DEFINE s == <<h>>
<1>1. IsSequence(s) /\ Len(s) = 1 /\ s[1] = h
  <2>1. s \in Seq({h}) /\ Len(s) = 1 /\ s[1] = h
    OBVIOUS
  <2> QED BY <2>1 DEF IsSequence
<1> HIDE DEF s
<1>2. /\ Len(f) \in Nat /\ Len(s \o f) = 1 + Len(f)
      /\ \A i \in 1..1 + Len(f) : (s \o f)[i] = IF i <= 1 THEN s[i] ELSE f[i - 1]
  BY <1>1, JoinSequences
<1>3. \A i \in 1..Len(f) : i + 1 \in 1..1 + Len(f) /\ ~(i + 1 <= 1) /\ (i + 1) - 1 = i
  BY <1>2
<1> QED BY <1>1, <1>2, <1>3 DEF s

LEMMA CSVLines ==
  ASSUME Inv, NEW scope \in Scopes, detail <=> scope # "overview",
         NEW g \in DOMAIN groups \cup {NoName}
  PROVE  LET rows == Rows(scope, g)
             csv == WriteCSV(scope, g)
         IN  /\ Len(rows) \in Nat /\ DOMAIN rows = 1..Len(rows)
             /\ Len(rows) = Len(Subjects(scope, g))
             /\ \A i \in DOMAIN rows : rows[i] = Row(scope, g, Subjects(scope, g)[i])
             /\ Len(csv) = 1 + Len(rows)
             /\ csv[1] = Header(scope)
             /\ \A i \in 1..Len(rows) : csv[i + 1] = Record(scope, rows[i])
<1> DEFINE s == Subjects(scope, g)
           n == Len(s)
           rows == Rows(scope, g)
           f == [i \in DOMAIN rows |-> Record(scope, rows[i])]
           row(i) == Row(scope, g, s[i])
<1>1. n \in Nat /\ DOMAIN s = 1..n
  BY SubjectsListed DEF Lists
<1>2. rows = [i \in DOMAIN s |-> row(i)]
  BY DEF Rows
<1> HIDE DEF s, row
<1>3. DOMAIN rows = 1..n /\ Len(rows) = n /\ \A i \in 1..n : rows[i] = row(i)
  <2> HIDE DEF n, rows
  <2>1. rows = [i \in 1..n |-> row(i)]
    BY <1>1, <1>2
  <2> QED BY <1>1, <2>1
<1> HIDE DEF rows
<1>4. WriteCSV(scope, g) = <<Header(scope)>> \o f
  BY DEF WriteCSV, rows
<1>5. IsSequence(f) /\ Len(f) = n /\ \A i \in 1..n : f[i] = Record(scope, rows[i])
  <2> DEFINE S == {f[i] : i \in 1..n}
  <2>1. f \in [1..n -> S] /\ \A i \in 1..n : f[i] = Record(scope, rows[i])
    BY <1>3
  <2> HIDE DEF f, S, n
  <2>2. f \in Seq(S) /\ Len(f) = n
    BY <1>1, <2>1
  <2> QED BY <2>1, <2>2 DEF IsSequence
<1> HIDE DEF f, n
<1>6. /\ Len(<<Header(scope)>> \o f) = n + 1
      /\ (<<Header(scope)>> \o f)[1] = Header(scope)
      /\ \A i \in 1..n : (<<Header(scope)>> \o f)[i + 1] = f[i]
  BY <1>1, <1>5, LineAbove
<1> DEFINE csv == WriteCSV(scope, g)
<1>7. /\ Len(csv) = 1 + n /\ csv[1] = Header(scope)
      /\ \A i \in 1..n : csv[i + 1] = Record(scope, rows[i])
  <2>1. csv = <<Header(scope)>> \o f
    BY <1>4
  <2> HIDE DEF csv
  <2>2. Len(csv) = n + 1 /\ csv[1] = Header(scope) /\ \A i \in 1..n : csv[i + 1] = f[i]
    BY <1>6, <2>1
  <2>3. n + 1 = 1 + n
    BY <1>1
  <2> QED BY <1>5, <2>2, <2>3
<1> HIDE DEF csv
<1>8. /\ Len(rows) \in Nat /\ DOMAIN rows = 1..Len(rows) /\ Len(rows) = Len(s)
      /\ \A i \in DOMAIN rows : rows[i] = row(i)
      /\ Len(csv) = 1 + Len(rows) /\ csv[1] = Header(scope)
      /\ \A i \in 1..Len(rows) : csv[i + 1] = Record(scope, rows[i])
  <2>1. Len(rows) = n /\ n = Len(s)
    BY <1>3 DEF n
  <2> QED BY <1>1, <1>3, <1>7, <2>1
<1> QED BY <1>8 DEF s, row, rows, csv

LEMMA InvFormatsAgree == Inv => FormatsAgree
<1> SUFFICES ASSUME Inv, NEW scope \in Scopes, detail <=> scope # "overview",
                    NEW g \in DOMAIN groups \cup {NoName}
             PROVE  LET csv == WriteCSV(scope, g)
                        json == WriteJSON(scope, g)[1]
                        header == csv[1]
                    IN  /\ Len(csv) = 1 + Len(json)
                        /\ \A i \in 1..Len(json) :
                             /\ Len(csv[i + 1]) = Len(header)
                             /\ \A c \in 1..Len(header) :
                                  LET entry == Entry(json[i], header[c])
                                      field == csv[i + 1][c]
                                  IN  IF entry = Null THEN field = Blank ELSE field = entry
                             /\ \A r \in Kinds :
                                  /\ json[i][r].used # Null <=> UsageKnown(scope)
                                  /\ json[i][r].waste # Null <=> UsageKnown(scope)
                                  /\ json[i][r].percent # Null <=>
                                       UsageKnown(scope) /\ json[i][r].requested # <<r, 0>>
  <2>1. \A scope \in IF detail THEN {"namespace", "pod"} ELSE {"overview"} :
          scope \in Scopes /\ (detail <=> scope # "overview")
    BY DEF Scopes
  <2> QED BY <2>1 DEF FormatsAgree
<1> DEFINE json == WriteJSON(scope, g)[1]
           csv == WriteCSV(scope, g)
           known == UsageKnown(scope)
<1>1. json = Rows(scope, g)
  BY DEF WriteJSON
<1>2. /\ Len(json) = Len(Subjects(scope, g)) /\ DOMAIN json = 1..Len(json)
      /\ \A i \in DOMAIN json : json[i] = Row(scope, g, Subjects(scope, g)[i])
      /\ Len(csv) = 1 + Len(json)
      /\ csv[1] = Header(scope)
      /\ \A i \in 1..Len(json) : csv[i + 1] = Record(scope, json[i])
  BY <1>1, CSVLines
<1> HIDE DEF json, csv
<1>3. ASSUME NEW i \in 1..Len(json)
      PROVE  /\ MetricRow(json[i], known)
             /\ Says(csv[1], csv[i + 1], json[i])
  <2> DEFINE x == Subjects(scope, g)[i]
  <2>1. x \in SubjectSet(scope, g)
    BY <1>2, SubjectsListed DEF Lists
  <2>2. json[i] = Row(scope, g, x)
    BY <1>2
  <2> HIDE DEF x
  <2> DEFINE row == Row(scope, g, x)
  <2>3. /\ MetricRow(row, known)
        /\ scope = "overview" => row.nodegroup \in Nat /\ row.nodes \in Nat
        /\ scope = "namespace" => row.namespace \in Nat
        /\ scope = "pod" => row.namespace \in Nat /\ row.pod \in Nat /\ row.node \in Nat
    BY <2>1, RowSays
  <2> HIDE DEF row
  <2>4. \A v \in Nat : v # Null
    BY NullAssumption
  <2>5. Says(Header(scope), Record(scope, row), row)
    BY <2>3, <2>4, RecordSays
  <2> QED BY <1>2, <2>2, <2>3, <2>5 DEF row
<1>4. ASSUME NEW i \in 1..Len(json)
      PROVE  /\ Len(csv[i + 1]) = Len(csv[1])
             /\ \A c \in 1..Len(csv[1]) :
                  IF Entry(json[i], csv[1][c]) = Null
                  THEN csv[i + 1][c] = Blank
                  ELSE csv[i + 1][c] = Entry(json[i], csv[1][c])
  BY <1>3 DEF Says, Number
<1>5. ASSUME NEW i \in 1..Len(json), NEW r \in Kinds
      PROVE  /\ json[i][r].used # Null <=> known
             /\ json[i][r].waste # Null <=> known
             /\ json[i][r].percent # Null <=> known /\ json[i][r].requested # <<r, 0>>
  BY <1>3 DEF MetricRow
<1> QED BY <1>2, <1>4, <1>5 DEF json, csv, known

(***************************************************************************)
(* WriteJSON and WriteCSV say the same of every row, for any cluster, and  *)
(* usage that newMetric was not given is null in both, never zero.         *)

-----------------------------------------------------------------------------
(* The exit code tells whether stdout has the report *)

\* What tells a subject of a report from the others.
Key(scope, x) == IF scope = "pod" THEN <<x.namespace, x.name>> ELSE <<x>>

\* The subjects of a report are what is wanted, as its property counts them
\* from the cluster itself.
LEMMA WantedSubjects ==
  ASSUME Inv, NEW req \in Reports, detail <=> req.scope # "overview",
         req.nodeGroup \in DOMAIN groups \cup {NoName}
  PROVE  /\ Wanted(req) = {Key(req.scope, x) : x \in SubjectSet(req.scope, req.nodeGroup)}
         /\ \A x, y \in SubjectSet(req.scope, req.nodeGroup) :
              Key(req.scope, x) = Key(req.scope, y) => x = y
<1> DEFINE g == req.nodeGroup
           scope == req.scope
           there == {e \in pods : g = NoName \/ e.node \in Members(g)}
<1>1. scope \in Scopes
  BY DEF Reports
<1>2. ASSUME detail PROVE SelectPods(g) = there
  <2>1. CASE g = NoName
    BY <2>1 DEF SelectPods
  <2>2. CASE g # NoName
    <3>1. g \in DOMAIN groups
      BY <2>2
    <3> QED BY <1>2, <2>2, <3>1, SelectedAreOnMembers
  <2> QED BY <2>1, <2>2
<1>3. CASE scope = "overview"
  BY <1>3 DEF Wanted, SubjectSet, Key
<1>4. CASE scope = "namespace"
  <2>1. SubjectSet(scope, g) = IF g = NoName THEN DOMAIN namespaces ELSE {e.namespace : e \in there}
    BY <1>2, <1>4 DEF SubjectSet, NamespaceReport
  <2>2. Wanted(req) = {<<ns>> : ns \in IF g = NoName THEN DOMAIN namespaces ELSE {e.namespace : e \in there}}
    BY <1>4 DEF Wanted
  <2>3. \A x : Key(scope, x) = <<x>>
    BY <1>4 DEF Key
  <2> HIDE DEF there, g, scope
  <2> QED BY <2>1, <2>2, <2>3 DEF g, scope
<1>5. CASE scope = "pod"
  <2>1. SubjectSet(scope, g) = there /\ Wanted(req) = {<<e.namespace, e.name>> : e \in there}
    BY <1>2, <1>5 DEF SubjectSet, Wanted
  <2>2. \A x : Key(scope, x) = <<x.namespace, x.name>>
    BY <1>5 DEF Key
  <2>3. \A e, f \in there : e.namespace = f.namespace /\ e.name = f.name => e = f
    BY <1>5, EntriesOrder
  <2> HIDE DEF there, g, scope
  <2>4. Wanted(req) = {Key(scope, e) : e \in there}
    BY <2>1, <2>2
  <2>5. \A x, y \in there : Key(scope, x) = Key(scope, y) => x = y
    BY <2>2, <2>3
  <2> QED BY <2>1, <2>4, <2>5 DEF g, scope
<1> QED BY <1>1, <1>3, <1>4, <1>5 DEF Scopes

\* A record starts with the names that its row is about.
LEMMA RecordStarts ==
  ASSUME NEW scope \in Scopes, NEW row
  PROVE  /\ scope = "overview" => Record(scope, row)[1] = row.nodegroup
         /\ scope = "namespace" => Record(scope, row)[1] = row.namespace
         /\ scope = "pod" => Record(scope, row)[1] = row.namespace /\ Record(scope, row)[2] = row.pod
<1> DEFINE a == MetricCells(row.cpu)
           b == MetricCells(row.memory)
           c == NodeGroupMetricCells(row.cpu)
           d == NodeGroupMetricCells(row.memory)
<1>1. IsSequence(a) /\ IsSequence(b) /\ IsSequence(c) /\ IsSequence(d)
  <2>1. Says(MetricColumns("cpu"), MetricCells(row["cpu"]), row)
    BY MetricCellsSay
  <2>2. Says(MetricColumns("memory"), MetricCells(row["memory"]), row)
    BY MetricCellsSay
  <2>3. Says(NodeGroupColumns("cpu"), NodeGroupMetricCells(row["cpu"]), row)
    BY MetricCellsSay
  <2>4. Says(NodeGroupColumns("memory"), NodeGroupMetricCells(row["memory"]), row)
    BY MetricCellsSay
  <2> QED BY <2>1, <2>2, <2>3, <2>4 DEF Says
<1> HIDE DEF a, b, c, d
<1>3. CASE scope = "overview"
  <2> DEFINE s == <<row.nodegroup, row.nodes>>
  <2>1. Record(scope, row) = s \o c \o d
    BY <1>3 DEF Record, c, d
  <2>2. Len(s) = 2 /\ s[1] = row.nodegroup
    OBVIOUS
  <2>3. IsSequence(s)
    BY TuplesAreSequences
  <2> HIDE DEF s
  <2>4. StartsWith(s \o c \o d, s)
    BY <1>1, <2>3, JoinStarts
  <2> QED BY <1>3, <2>1, <2>2, <2>4 DEF StartsWith
<1>4. CASE scope = "namespace"
  <2> DEFINE s == <<row.namespace>>
  <2>1. Record(scope, row) = s \o a \o b
    BY <1>4 DEF Record, a, b
  <2>2. Len(s) = 1 /\ s[1] = row.namespace
    OBVIOUS
  <2>3. IsSequence(s)
    BY TuplesAreSequences
  <2> HIDE DEF s
  <2>4. StartsWith(s \o a \o b, s)
    BY <1>1, <2>3, JoinStarts
  <2> QED BY <1>4, <2>1, <2>2, <2>4 DEF StartsWith
<1>5. CASE scope = "pod"
  <2> DEFINE s == <<row.namespace, row.pod, row.node>>
  <2>1. Record(scope, row) = s \o a \o b
    BY <1>5 DEF Record, a, b
  <2>2. /\ Len(s) = 3
        /\ s[1] = row.namespace /\ s[2] = row.pod
    OBVIOUS
  <2>3. IsSequence(s)
    BY TuplesAreSequences
  <2> HIDE DEF s
  <2>4. StartsWith(s \o a \o b, s)
    BY <1>1, <2>3, JoinStarts
  <2> QED BY <1>5, <2>1, <2>2, <2>4 DEF StartsWith
<1> QED BY <1>3, <1>4, <1>5 DEF Scopes

\* What a row of the JSON, and a record of the CSV, says that it is about.
KeyOfRow(scope, r) ==
  CASE scope = "overview"  -> <<r.nodegroup>>
    [] scope = "namespace" -> <<r.namespace>>
    [] scope = "pod"       -> <<r.namespace, r.pod>>
KeyOfRecord(scope, f) == IF scope = "pod" THEN <<f[1], f[2]>> ELSE <<f[1]>>

LEMMA RowsHaveKeys ==
  ASSUME Inv, NEW scope \in Scopes, detail <=> scope # "overview",
         NEW g \in DOMAIN groups \cup {NoName}, NEW x \in SubjectSet(scope, g)
  PROVE  /\ KeyOfRow(scope, Row(scope, g, x)) = Key(scope, x)
         /\ KeyOfRecord(scope, Record(scope, Row(scope, g, x))) = Key(scope, x)
<1> DEFINE row == Row(scope, g, x)
           record == Record(scope, row)
<1>1. /\ scope = "overview" => row.nodegroup = x
      /\ scope = "namespace" => row.namespace = x
      /\ scope = "pod" => row.namespace = x.namespace /\ row.pod = x.name
  BY RowSays
<1> HIDE DEF row
<1>2. /\ scope = "overview" => record[1] = row.nodegroup
      /\ scope = "namespace" => record[1] = row.namespace
      /\ scope = "pod" => record[1] = row.namespace /\ record[2] = row.pod
  BY RecordStarts
<1> HIDE DEF record
<1>3. KeyOfRow(scope, row) = Key(scope, x)
  BY <1>1 DEF KeyOfRow, Key, Scopes
<1>4. KeyOfRecord(scope, record) = Key(scope, x)
  BY <1>1, <1>2 DEF KeyOfRecord, Key, Scopes
<1> QED BY <1>3, <1>4 DEF row, record

\* A prefix of the lines of a report has a row for all that is wanted only if
\* it is the whole report.
LEMMA PrefixDelivers ==
  ASSUME Inv, NEW req \in Reports, detail <=> req.scope # "overview",
         req.nodeGroup \in DOMAIN groups \cup {NoName}, NEW n \in 0..Len(Lines(req))
  PROVE  n = Len(Lines(req)) <=>
           /\ SubSeq(Lines(req), 1, n) # <<>>
           /\ Delivered(req, SubSeq(Lines(req), 1, n)) = Wanted(req)
<1> DEFINE scope == req.scope
           g == req.nodeGroup
           s == Subjects(scope, g)
           rows == Rows(scope, g)
           key(i) == Key(scope, s[i])
           lines == Lines(req)
           out == SubSeq(lines, 1, n)
<1>1. scope \in Scopes /\ req.format \in Formats
  BY DEF Reports
<1>2. /\ Len(rows) \in Nat /\ DOMAIN rows = 1..Len(rows) /\ Len(rows) = Len(s)
      /\ \A i \in DOMAIN rows : rows[i] = Row(scope, g, s[i])
      /\ Len(WriteCSV(scope, g)) = 1 + Len(rows)
      /\ \A i \in 1..Len(rows) : WriteCSV(scope, g)[i + 1] = Record(scope, rows[i])
  BY <1>1, CSVLines
<1>3. /\ DOMAIN s = 1..Len(rows)
      /\ \A i \in 1..Len(rows) : s[i] \in SubjectSet(scope, g)
      /\ \A i, j \in 1..Len(rows) : s[i] = s[j] => i = j
      /\ SubjectSet(scope, g) = {s[i] : i \in 1..Len(rows)}
  <2>1. Lists(s, SubjectSet(scope, g))
    BY <1>1, SubjectsListed
  <2>2. Len(s) = Len(rows)
    BY <1>2
  <2> HIDE DEF s, rows, scope, g
  <2> QED BY <2>1, <2>2 DEF Lists
<1>4. /\ Wanted(req) = {key(i) : i \in 1..Len(rows)}
      /\ \A i, j \in 1..Len(rows) : key(i) = key(j) => i = j
  <2>1. /\ Wanted(req) = {Key(scope, x) : x \in SubjectSet(scope, g)}
        /\ \A x, y \in SubjectSet(scope, g) : Key(scope, x) = Key(scope, y) => x = y
    BY WantedSubjects
  <2> HIDE DEF s, rows, scope, g
  <2> QED BY <1>3, <2>1
<1>5. \A i \in 1..Len(rows) : /\ KeyOfRow(scope, rows[i]) = key(i)
                              /\ KeyOfRecord(scope, Record(scope, rows[i])) = key(i)
  <2> SUFFICES ASSUME NEW i \in 1..Len(rows)
               PROVE  /\ KeyOfRow(scope, rows[i]) = key(i)
                      /\ KeyOfRecord(scope, Record(scope, rows[i])) = key(i)
    OBVIOUS
  <2>1. rows[i] = Row(scope, g, s[i]) /\ s[i] \in SubjectSet(scope, g)
    BY <1>2, <1>3
  <2> HIDE DEF rows, s
  <2> QED BY <1>1, <2>1, RowsHaveKeys
<1>6. CASE req.format = "json"
  <2>1. lines = <<rows>>
    BY <1>6 DEF Lines, WriteJSON
  <2>2. Delivered(req, out) = {KeyOfRow(scope, out[1][i]) : i \in DOMAIN out[1]}
    BY <1>6 DEF Delivered, KeyOfRow
  <2> HIDE DEF rows, scope, key, lines
  <2>3. Len(lines) = 1 /\ lines[1] = rows
    BY <2>1
  <2>4. CASE n = 1
    <3>1. out = <<rows>>
      <4>1. lines \in Seq({rows})
        BY <2>1
      <4>2. SubSeq(lines, 1, Len(lines)) = lines
        BY <4>1, SubSeqFull
      <4> QED BY <2>1, <2>3, <2>4, <4>2
    <3> HIDE DEF out
    <3>2. Delivered(req, out) = {KeyOfRow(scope, rows[i]) : i \in 1..Len(rows)}
      BY <1>2, <2>2, <3>1
    <3>3. Delivered(req, out) = Wanted(req)
      BY <1>4, <1>5, <3>2
    <3> QED BY <2>3, <2>4, <3>1, <3>3 DEF lines, out
  <2>5. CASE n = 0
    <3>1. out = <<>>
      <4>1. SubSeq(lines, 1, 0) = <<>>
        BY SubSeqEmpty
      <4> QED BY <2>5, <4>1
    <3> QED BY <2>3, <2>5, <3>1 DEF lines, out
  <2>6. n = 0 \/ n = 1
    BY <2>3 DEF lines
  <2> QED BY <2>4, <2>5, <2>6
<1>7. CASE req.format = "csv"
  <2>1. lines = WriteCSV(scope, g)
    BY <1>7 DEF Lines
  <2>2. Delivered(req, out) = {KeyOfRecord(scope, out[i]) : i \in 2..Len(out)}
    BY <1>7 DEF Delivered, KeyOfRecord
  <2>3. Len(lines) = 1 + Len(rows) /\ \A i \in 1..Len(rows) : lines[i + 1] = Record(scope, rows[i])
    BY <1>2, <2>1
  <2>4. n \in Nat /\ n <= Len(lines)
    BY <1>2, <2>3
  <2> HIDE DEF rows, scope, key, lines
  <2>5. Len(out) = n /\ \A i \in 1..n : out[i] = lines[i]
    <3> DEFINE S == {lines[i] : i \in 1..n}
    <3>1. \A i \in 1..n : lines[i] \in S
      OBVIOUS
    <3> HIDE DEF S
    <3>2. /\ Len(SubSeq(lines, 1, n)) = IF 1 <= n THEN n - 1 + 1 ELSE 0
          /\ \A i \in 1..n - 1 + 1 : SubSeq(lines, 1, n)[i] = lines[1 + i - 1]
      BY <2>4, <3>1, SubSeqProperties
    <3> QED BY <2>4, <3>2
  <2> HIDE DEF out
  <2>6. \A i \in 2..n : KeyOfRecord(scope, out[i]) = key(i - 1)
    <3> SUFFICES ASSUME NEW i \in 2..n PROVE KeyOfRecord(scope, out[i]) = key(i - 1)
      OBVIOUS
    <3>1. i - 1 \in 1..Len(rows) /\ (i - 1) + 1 = i /\ i \in 1..n
      BY <1>2, <2>3, <2>4
    <3>2. out[i] = Record(scope, rows[i - 1])
      BY <2>3, <2>5, <3>1
    <3> QED BY <1>5, <3>1, <3>2
  <2>7. Delivered(req, out) = {key(i) : i \in 1..n - 1}
    <3>1. ASSUME NEW i \in 2..n PROVE \E j \in 1..n - 1 : KeyOfRecord(scope, out[i]) = key(j)
      <4>1. i - 1 \in 1..n - 1
        BY <2>4
      <4> QED BY <2>6, <4>1
    <3>2. ASSUME NEW j \in 1..n - 1 PROVE \E i \in 2..n : KeyOfRecord(scope, out[i]) = key(j)
      <4>1. j + 1 \in 2..n /\ (j + 1) - 1 = j
        BY <2>4
      <4>2. KeyOfRecord(scope, out[j + 1]) = key((j + 1) - 1)
        BY <2>6, <4>1
      <4> QED BY <4>1, <4>2
    <3>3. {KeyOfRecord(scope, out[i]) : i \in 2..n} = {key(j) : j \in 1..n - 1}
      BY <3>1, <3>2
    <3> QED BY <2>2, <2>5, <3>3
  <2>8. CASE n = Len(lines)
    <3>1. n - 1 = Len(rows) /\ Len(out) # 0
      BY <1>2, <2>3, <2>5, <2>8
    <3>2. out # <<>>
      BY <3>1
    <3>3. Delivered(req, out) = Wanted(req)
      BY <1>4, <2>7, <3>1
    <3> QED BY <2>8, <3>2, <3>3 DEF lines, out
  <2>9. CASE n # Len(lines) /\ n = 0
    <3>1. out = <<>>
      <4>1. SubSeq(lines, 1, 0) = <<>>
        BY SubSeqEmpty
      <4> QED BY <2>9, <4>1 DEF out
    <3> QED BY <2>9, <3>1 DEF lines, out
  <2>10. CASE n # Len(lines) /\ n # 0
    <3>1. Len(rows) \in 1..Len(rows) /\ Len(rows) \notin 1..n - 1 /\ \A i \in 1..n - 1 : i \in 1..Len(rows)
      BY <1>2, <2>3, <2>4, <2>10
    <3>2. key(Len(rows)) \in Wanted(req) /\ key(Len(rows)) \notin Delivered(req, out)
      BY <1>4, <2>7, <3>1
    <3> QED BY <2>10, <3>2 DEF lines, out
  <2> QED BY <2>8, <2>9, <2>10
<1> QED BY <1>1, <1>6, <1>7 DEF Formats

(***************************************************************************)
(* ExitTells speaks of the end.  It rests on nothing having been written   *)
(* or asked before: until then there is no request and no line, and until  *)
(* the flags are checked no node has been read.                            *)
(***************************************************************************)
ExitInv ==
  /\ phase # "over" => request = NoRequest /\ exit = Running /\ stdout = <<>>
  /\ phase = "start" => stage = "nodes" /\ groupOfNode = Empty
  /\ ExitTells

LEMMA ExitInit == CInit => ExitInv
BY DEF CInit, Init, ExitInv, ExitTells

LEMMA WantedStays ==
  ASSUME UNCHANGED vars
  PROVE  \A req : Wanted(req)' = Wanted(req)
BY DEF vars, input, Wanted, Members

\* A run that ends without a report.
LEMMA FailureTells ==
  ASSUME ExitInv, phase # "over", phase' = "over", UNCHANGED <<vars, request>>, stdout' = <<>>,
         exit' \in {ExitError, ExitUsage}, exit' = ExitUsage => phase = "start"
  PROVE  ExitInv'
<1>1. request' = NoRequest /\ exit' # ExitOK
  BY DEF ExitInv, ExitError, ExitUsage, ExitOK
<1>2. exit' = ExitUsage => stage' = "nodes" /\ groupOfNode' = Empty
  BY DEF ExitInv, vars
<1> QED BY <1>1, <1>2 DEF ExitInv, ExitTells, Empty

LEMMA ExitNext ==
  ASSUME Inv, ExitInv, [CNext]_<<vars, cliVars>>
  PROVE  ExitInv'
<1>1. CASE ConfigFails
  BY <1>1, FailureTells DEF ConfigFails, Exit, ExitError, ExitUsage
<1>2. CASE Resolve
  <2>1. phase = "start" /\ UNCHANGED <<vars, request>>
    BY <1>2 DEF Resolve
  <2>2. \/ phase' = "collect" /\ UNCHANGED <<exit, stdout>>
        \/ Exit(ExitUsage, <<>>)
    BY <1>2 DEF Resolve
  <2>3. CASE phase' = "collect" /\ UNCHANGED <<exit, stdout>>
    BY <2>1, <2>3 DEF ExitInv, ExitTells
  <2>4. CASE Exit(ExitUsage, <<>>)
    BY <2>1, <2>4, FailureTells DEF Exit
  <2> QED BY <2>2, <2>3, <2>4
<1>3. CASE CollectFails
  BY <1>3, FailureTells DEF CollectFails, Exit, ExitError, ExitUsage
<1>4. CASE Aggregating
  BY <1>4 DEF Aggregating, cliVars, ExitInv, ExitTells
<1>5. ASSUME NEW req \in Reports, Render(req)
      PROVE  ExitInv'
  <2>1. phase = "collect" /\ (detail <=> req.scope # "overview") /\ UNCHANGED vars
    BY <1>5 DEF Render
  <2>2. CASE ~Known(req.nodeGroup)
    <3>1. Exit(ExitError, <<>>) /\ UNCHANGED request
      BY <1>5, <2>2 DEF Render
    <3> QED BY <2>1, <3>1, FailureTells DEF Exit, ExitError, ExitUsage
  <2>3. CASE Known(req.nodeGroup)
    <3>1. /\ request' = req
          /\ \E n \in 0..Len(Lines(req)) :
               Exit(IF Written(req, n) THEN ExitOK ELSE ExitError, SubSeq(Lines(req), 1, n))
      BY <1>5, <2>3 DEF Render
    <3>2. PICK n \in 0..Len(Lines(req)) :
            Exit(IF Written(req, n) THEN ExitOK ELSE ExitError, SubSeq(Lines(req), 1, n))
      BY <3>1
    <3>3. /\ phase' = "over" /\ stdout' = SubSeq(Lines(req), 1, n)
          /\ exit' = ExitOK <=> n = Len(Lines(req))
          /\ exit' # ExitUsage
      BY <3>2 DEF Exit, Written, ExitOK, ExitError, ExitUsage
    <3>4. n = Len(Lines(req)) <=> stdout' # <<>> /\ Delivered(req, stdout') = Wanted(req)
      BY <2>1, <2>3, <3>3, PrefixDelivers DEF Known
    <3>5. req # NoRequest
      BY DEF Reports, NoRequest, Scopes
    <3>6. /\ Wanted(request)' = Wanted(req)
          /\ Delivered(request, stdout)' = Delivered(req, stdout')
      BY <2>1, <3>1, WantedStays DEF Delivered
    <3> QED BY <3>1, <3>3, <3>4, <3>5, <3>6 DEF ExitInv, ExitTells
  <2> QED BY <2>2, <2>3
<1>6. CASE UNCHANGED <<vars, cliVars>>
  <2>1. UNCHANGED <<phase, request, stdout, exit, stage, groupOfNode>> /\ Wanted(request)' = Wanted(request)
    BY <1>6, WantedStays DEF vars, cliVars, Wanted, Members
  <2>2. Delivered(request, stdout)' = Delivered(request, stdout)
    BY <2>1 DEF Delivered
  <2> QED BY <2>1, <2>2 DEF ExitInv, ExitTells, Empty
<1> QED BY <1>1, <1>2, <1>3, <1>4, <1>5, <1>6 DEF CNext

(***************************************************************************)
THEOREM FormatsTheorem == CSpec => []FormatsAgree
BY CommandLineAggregates, InvInit, InvNext, InvFormatsAgree, PTL DEF Spec

(***************************************************************************)
(* Run exits with 0 exactly when the whole report that was asked for is on *)
(* stdout, however many rows it has and wherever the write breaks off.     *)
(***************************************************************************)
THEOREM ExitTheorem == CSpec => []ExitTells
<1>1. CInit => Inv /\ ExitInv
  BY InvInit, ExitInit DEF CInit
<1>2. Inv /\ ExitInv /\ [CNext]_<<vars, cliVars>> => (Inv /\ ExitInv)'
  BY InvNext, ExitNext, StepsAggregate
<1>3. ExitInv => ExitTells
  BY DEF ExitInv
<1> QED BY <1>1, <1>2, <1>3, PTL DEF CSpec
=============================================================================
