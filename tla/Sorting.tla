------------------------------- MODULE Sorting -------------------------------
(***************************************************************************)
(* The tables' orders and filters: internal/model/sort.go.  Functions of   *)
(* rows, without state.  The strings that are compared are numbers, in the *)
(* byte order of the strings; how a string is spelled matters to filters   *)
(* only.                                                                   *)
(***************************************************************************)
EXTENDS StableSort

CONSTANTS
  Spelling,  \* for each string that is searched: its characters, in lower case
  Wide       \* the characters that take two bytes

Tables == {"contexts", "namespaces", "pods"}

\* What is left of a wide character when its last byte is gone.
Cut == "cut"

Amounts == {"reqCPU", "usedCPU", "reqMem", "usedMem"}
Textual(k) == k \in {"name", "node", "status", "cluster"}
SortKeys ==
  {"name", "node", "status", "cluster", "current", "podCount", "wasteCPU", "wasteMem"} \cup Amounts

Contexts   == [name : Nat, cluster : Nat, current : BOOLEAN, status : Nat]
NamespaceRows ==
  [name : Nat, podCount : Nat, reqCPU : Nat, usedCPU : Nat, reqMem : Nat, usedMem : Nat]
PodRows ==
  [name : Nat, node : Nat, reqCPU : Nat, usedCPU : Nat, reqMem : Nat, usedMem : Nat]
RowsOf(t) == CASE t = "contexts" -> Contexts [] t = "namespaces" -> NamespaceRows [] t = "pods" -> PodRows

\* The names of the rows of a table are unique.
Distinct(s) == \A i, j \in 1..Len(s) : s[i].name = s[j].name => i = j

-----------------------------------------------------------------------------
(* Orders *)

\* lessInt, lessString
LessIn(a, b, desc) == IF desc THEN a > b ELSE a < b

\* ties are left to the order of arrival
BugLessByValue(a, b, va, vb, desc) == LessIn(va, vb, desc)

\* By a value of the rows; ties fall back to the name, in either direction.
LessByValue(a, b, va, vb, desc) == IF va = vb THEN a.name < b.name ELSE LessIn(va, vb, desc)

\* A key that is no amount is worth nothing.
SummaryValue(r, k) ==
  CASE k = "wasteCPU" -> r.reqCPU - r.usedCPU
    [] k = "wasteMem" -> r.reqMem - r.usedMem
    [] k = "reqCPU"   -> r.reqCPU
    [] k = "usedCPU"  -> r.usedCPU
    [] k = "reqMem"   -> r.reqMem
    [] k = "usedMem"  -> r.usedMem
    [] OTHER -> 0

\* SortNamespaces
LessNamespace(a, b, k, desc) ==
  CASE k = "name"     -> LessIn(a.name, b.name, desc)
    [] k = "podCount" -> LessByValue(a, b, a.podCount, b.podCount, desc)
    [] OTHER          -> LessByValue(a, b, SummaryValue(a, k), SummaryValue(b, k), desc)

\* SortPods
LessPod(a, b, k, desc) ==
  CASE k = "name" -> LessIn(a.name, b.name, desc)
    [] k = "node" -> LessByValue(a, b, a.node, b.node, desc)
    [] OTHER      -> LessByValue(a, b, SummaryValue(a, k), SummaryValue(b, k), desc)

\* SortContexts: any other key is the name.
LessContext(a, b, k, desc) ==
  CASE k = "current" /\ a.current # b.current -> IF desc THEN a.current ELSE b.current
    [] k = "status"  -> LessByValue(a, b, a.status, b.status, desc)
    [] k = "cluster" -> LessByValue(a, b, a.cluster, b.cluster, desc)
    [] OTHER         -> LessIn(a.name, b.name, desc)

Less(t, a, b, k, desc) ==
  CASE t = "contexts"   -> LessContext(a, b, k, desc)
    [] t = "namespaces" -> LessNamespace(a, b, k, desc)
    [] t = "pods"       -> LessPod(a, b, k, desc)

SortRows(t, rows, k, desc) ==
  StableSort(rows, {p \in (1..Len(rows)) \X (1..Len(rows)) :
                      Less(t, rows[p[1]], rows[p[2]], k, desc)})

-----------------------------------------------------------------------------
(* Filters *)

Contains(s, q) == \E i \in 0..Len(s) - Len(q) : SubSeq(s, i + 1, i + Len(q)) = q

\* The columns of a row that a filter looks at.
Fields(t, r) ==
  CASE t = "contexts" -> {r.name, r.cluster} [] t = "namespaces" -> {r.name} [] t = "pods" -> {r.name, r.node}

\* Matches: strings.ToLower makes the replacement character of a cut one,
\* which no name has.
Matches(t, q, r) == q = <<>> \/ \E f \in Fields(t, r) : Contains(Spelling[f], q)

\* FilterContexts, FilterNamespaces, FilterPods: the positions of the rows
\* that are shown; they keep their order.
Shown(t, rows, q) == {i \in 1..Len(rows) : Matches(t, q, rows[i])}
=============================================================================
