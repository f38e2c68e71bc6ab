----------------------------- MODULE TableProofs -----------------------------
(* Theorems about Sorting and Table, for any rows, statuses and filters. *)
EXTENDS Table, LibraryProofs

-----------------------------------------------------------------------------
(* The orders of the tables *)

(***************************************************************************)
(* Every comparison of sort.go is a strict weak order that tells any two   *)
(* names apart, whatever the key: what sort.SliceStable asks of it, and    *)
(* why the order on the screen does not depend on the order of arrival.    *)
(***************************************************************************)
THEOREM LessIsOrder ==
  ASSUME NEW t \in Tables, NEW k, NEW d \in BOOLEAN
  PROVE  /\ \A a, b \in RowsOf(t) : Less(t, a, b, k, d) => ~Less(t, b, a, k, d)
         /\ \A a, b, c \in RowsOf(t) :
              Less(t, a, b, k, d) => Less(t, a, c, k, d) \/ Less(t, c, b, k, d)
         /\ \A a, b \in RowsOf(t) :
              a.name # b.name => Less(t, a, b, k, d) \/ Less(t, b, a, k, d)
<1> SUFFICES ASSUME NEW a \in RowsOf(t), NEW b \in RowsOf(t), NEW c \in RowsOf(t)
             PROVE  /\ Less(t, a, b, k, d) => ~Less(t, b, a, k, d)
                    /\ Less(t, a, b, k, d) => Less(t, a, c, k, d) \/ Less(t, c, b, k, d)
                    /\ a.name # b.name => Less(t, a, b, k, d) \/ Less(t, b, a, k, d)
  OBVIOUS
<1> USE DEF Less, RowsOf, LessByValue, LessIn
<1>1. CASE t = "contexts"
  <2>1. a \in Contexts /\ b \in Contexts /\ c \in Contexts
    BY <1>1
  <2> QED BY <1>1, <2>1 DEF LessContext, Contexts
<1>2. ASSUME t # "contexts", NEW r \in RowsOf(t) PROVE SummaryValue(r, k) \in Int
  <2>1. r \in NamespaceRows \/ r \in PodRows
    BY <1>2 DEF Tables
  <2> QED BY <2>1 DEF SummaryValue, NamespaceRows, PodRows
<1>3. CASE t = "namespaces"
  <2>1. a \in NamespaceRows /\ b \in NamespaceRows /\ c \in NamespaceRows
    BY <1>3
  <2>2. SummaryValue(a, k) \in Int /\ SummaryValue(b, k) \in Int /\ SummaryValue(c, k) \in Int
    BY <1>2, <1>3
  <2> QED BY <1>3, <2>1, <2>2 DEF LessNamespace, NamespaceRows
<1>4. CASE t = "pods"
  <2>1. a \in PodRows /\ b \in PodRows /\ c \in PodRows
    BY <1>4
  <2>2. SummaryValue(a, k) \in Int /\ SummaryValue(b, k) \in Int /\ SummaryValue(c, k) \in Int
    BY <1>2, <1>4
  <2> QED BY <1>4, <2>1, <2>2 DEF LessPod, PodRows
<1> QED BY <1>1, <1>3, <1>4 DEF Tables

(***************************************************************************)
(* Sorting rows with different names (SortContexts, SortNamespaces and     *)
(* SortPods) permutes them: every row is there once, as many as there      *)
(* were, and no two of them are in an order that is not settled by the     *)
(* rows themselves.                                                        *)
(***************************************************************************)
THEOREM SortRowsSorts ==
  ASSUME NEW t \in Tables, NEW k, NEW d \in BOOLEAN,
         NEW s \in Seq(RowsOf(t)), Distinct(s)
  PROVE  /\ SortRows(t, s, k, d) \in Seq(RowsOf(t))
         /\ Distinct(SortRows(t, s, k, d))
         /\ Len(SortRows(t, s, k, d)) = Len(s)
         /\ \E from \in Bijection(1..Len(s), 1..Len(s)) :
              \A p \in 1..Len(s) : SortRows(t, s, k, d)[p] = s[from[p]]
         /\ \A p, q \in 1..Len(SortRows(t, s, k, d)) :
              p < q => Less(t, SortRows(t, s, k, d)[p], SortRows(t, s, k, d)[q], k, d)
<1> DEFINE n == Len(s)
           less == {p \in (1..n) \X (1..n) : Less(t, s[p[1]], s[p[2]], k, d)}
           r == SortRows(t, s, k, d)
<1>0. n \in Nat /\ r = StableSort(s, less)
  BY DEF SortRows
<1>1. \A i, j \in 1..n : <<i, j>> \in less <=> Less(t, s[i], s[j], k, d)
  OBVIOUS
<1>2. \A i \in 1..n : s[i] \in RowsOf(t)
  OBVIOUS
<1> HIDE DEF less
<1>3. StrictWeakOrder(less, n)
  <2>1. ASSUME NEW i \in 1..n, NEW j \in 1..n, <<i, j>> \in less PROVE <<j, i>> \notin less
    BY <1>1, <1>2, <2>1, LessIsOrder
  <2>2. ASSUME NEW i \in 1..n, NEW j \in 1..n, NEW l \in 1..n, <<i, j>> \in less
        PROVE  <<i, l>> \in less \/ <<l, j>> \in less
    <3>1. Less(t, s[i], s[j], k, d)
      BY <1>1, <2>2
    <3>2. s[i] \in RowsOf(t) /\ s[j] \in RowsOf(t) /\ s[l] \in RowsOf(t)
      BY <1>2
    <3>3. Less(t, s[i], s[l], k, d) \/ Less(t, s[l], s[j], k, d)
      BY <3>1, <3>2, LessIsOrder
    <3> QED BY <1>1, <3>3
  <2> QED BY <2>1, <2>2 DEF StrictWeakOrder
<1> HIDE DEF r
<1>5. r \in Seq(RowsOf(t)) /\ Len(r) = n
  BY <1>0, <1>3, StableSortSorts
<1>4. PICK from \in Bijection(1..n, 1..n) :
        /\ \A p \in 1..n : r[p] = s[from[p]]
        /\ \A p, q \in 1..n : p < q => InFront(less, from[p], from[q])
  <2>1. \E from \in Bijection(1..Len(s), 1..Len(s)) :
          /\ \A p \in 1..Len(s) : StableSort(s, less)[p] = s[from[p]]
          /\ \A p, q \in 1..Len(s) : p < q => InFront(less, from[p], from[q])
    BY <1>3, StableSortSorts
  <2> QED BY <1>0, <2>1
<1>6. /\ \A p \in 1..n : from[p] \in 1..n
      /\ \A p, q \in 1..n : from[p] = from[q] => p = q
  BY <1>4 DEF Bijection, Injection, IsInjective
<1>7. Distinct(r)
  <2>1. ASSUME NEW p \in 1..n, NEW q \in 1..n, p # q PROVE r[p].name # r[q].name
    <3>1. from[p] \in 1..n /\ from[q] \in 1..n /\ from[p] # from[q]
      BY <1>6, <2>1
    <3>2. s[from[p]].name # s[from[q]].name
      BY <3>1 DEF Distinct
    <3> QED BY <1>4, <3>2
  <2> QED BY <1>5, <2>1 DEF Distinct
<1>8. ASSUME NEW p \in 1..n, NEW q \in 1..n, p < q PROVE Less(t, r[p], r[q], k, d)
  <2> DEFINE i == from[p]
             j == from[q]
  <2>1. i \in 1..n /\ j \in 1..n /\ i # j /\ r[p] = s[i] /\ r[q] = s[j]
    BY <1>4, <1>6, <1>8
  <2>2. InFront(less, i, j)
    BY <1>4, <1>8
  <2> HIDE DEF i, j
  <2>3. Less(t, s[i], s[j], k, d) \/ ~Less(t, s[j], s[i], k, d)
    BY <1>1, <2>1, <2>2 DEF InFront
  <2>4. s[i].name # s[j].name
    BY <2>1 DEF Distinct
  <2>5. Less(t, s[i], s[j], k, d) \/ Less(t, s[j], s[i], k, d)
    BY <1>2, <2>1, <2>4, LessIsOrder
  <2> QED BY <2>1, <2>3, <2>5
<1>9. \E f \in Bijection(1..n, 1..n) : \A p \in 1..n : r[p] = s[f[p]]
  BY <1>4
<1>10. \A p, q \in 1..Len(r) : p < q => Less(t, r[p], r[q], k, d)
  BY <1>5, <1>8
<1> QED BY <1>5, <1>7, <1>9, <1>10 DEF r

-----------------------------------------------------------------------------
(* The tables *)

(***************************************************************************)
(* The inductive invariant.  That names are unique (in TypeOK) is what     *)
(* settles the order, and a status that is stored with a row is what it    *)
(* is drawn with only while the table is sorted by it: OrderIsRight has to *)
(* be about the rows as they are drawn.                                    *)
(***************************************************************************)
Inv == TypeOK /\ OrderIsRight

LEMMA RowTypes ==
  /\ RowsOf("contexts") = Contexts
  /\ RowsOf("namespaces") = NamespaceRows
  /\ RowsOf("pods") = PodRows
  /\ \A t \in Tables : \A r \in RowsOf(t) : r.name \in Nat
BY DEF RowsOf, Tables, Contexts, NamespaceRows, PodRows

\* Adding the statuses changes no name, and adding them again nothing.
LEMMA WithStatusKeepsRows ==
  ASSUME table \in Tables, NEW s \in Seq(RowsOf(table)), NEW pr,
         \A c \in DOMAIN pr : pr[c] \in Nat
  PROVE  /\ WithStatus(s, pr) \in Seq(RowsOf(table))
         /\ Len(WithStatus(s, pr)) = Len(s)
         /\ \A i \in 1..Len(s) : WithStatus(s, pr)[i].name = s[i].name
         /\ table = "contexts" =>
              \A i \in 1..Len(s) : WithStatus(s, pr)[i].status = StatusOf(s[i].name, pr)
<1>1. CASE table = "contexts"
  <2>1. \A i \in 1..Len(s) : s[i] \in Contexts
    BY <1>1, RowTypes
  <2>2. \A i \in 1..Len(s) : StatusOf(s[i].name, pr) \in Nat
    BY DEF StatusOf
  <2>3. \A i \in 1..Len(s) :
          /\ [s[i] EXCEPT !.status = StatusOf(s[i].name, pr)] \in Contexts
          /\ [s[i] EXCEPT !.status = StatusOf(s[i].name, pr)].name = s[i].name
          /\ [s[i] EXCEPT !.status = StatusOf(s[i].name, pr)].status = StatusOf(s[i].name, pr)
    BY <2>1, <2>2 DEF Contexts
  <2>4. WithStatus(s, pr) = [i \in 1..Len(s) |-> [s[i] EXCEPT !.status = StatusOf(s[i].name, pr)]]
    BY <1>1 DEF WithStatus
  <2>5. WithStatus(s, pr) \in Seq(Contexts) /\ Len(WithStatus(s, pr)) = Len(s)
    BY <2>3, <2>4
  <2> QED BY <1>1, <2>3, <2>4, <2>5, RowTypes
<1>2. CASE table # "contexts"
  BY <1>2 DEF WithStatus
<1> QED BY <1>1, <1>2

LEMMA WithStatusIsIdempotent ==
  ASSUME table \in Tables, NEW s \in Seq(RowsOf(table)), NEW pr,
         table = "contexts" => \A i \in 1..Len(s) : s[i].status = StatusOf(s[i].name, pr)
  PROVE  WithStatus(s, pr) = s
<1>1. CASE table = "contexts"
  <2>1. \A i \in 1..Len(s) : s[i] \in Contexts
    BY <1>1, RowTypes
  <2>2. \A i \in 1..Len(s) : [s[i] EXCEPT !.status = StatusOf(s[i].name, pr)] = s[i]
    BY <1>1, <2>1 DEF Contexts
  <2>3. s = [i \in 1..Len(s) |-> s[i]]
    OBVIOUS
  <2> QED BY <1>1, <2>2, <2>3 DEF WithStatus
<1>2. CASE table # "contexts"
  BY <1>2 DEF WithStatus
<1> QED BY <1>1, <1>2

Ordered(s, k, d) == \A i, j \in 1..Len(s) : i < j => Less(table, s[i], s[j], k, d)

\* What applyContextSort, applyNamespaceSort and applyPodSort leave behind.
LEMMA ApplySortSorts ==
  ASSUME table \in Tables, NEW s \in Seq(RowsOf(table)), Distinct(s), NEW pr,
         \A c \in DOMAIN pr : pr[c] \in Nat, NEW k, NEW d \in BOOLEAN
  PROVE  /\ ApplySort(s, pr, k, d) \in Seq(RowsOf(table))
         /\ Distinct(ApplySort(s, pr, k, d))
         /\ WithStatus(ApplySort(s, pr, k, d), pr) = ApplySort(s, pr, k, d)
         /\ Ordered(ApplySort(s, pr, k, d), k, d)
<1> DEFINE w == WithStatus(s, pr)
           r == SortRows(table, w, k, d)
<1>1. /\ w \in Seq(RowsOf(table)) /\ Len(w) = Len(s)
      /\ \A i \in 1..Len(s) : w[i].name = s[i].name
      /\ table = "contexts" => \A i \in 1..Len(s) : w[i].status = StatusOf(s[i].name, pr)
  BY WithStatusKeepsRows
<1>2. ApplySort(s, pr, k, d) = r
  BY DEF ApplySort
<1> HIDE DEF w
<1>3. Distinct(w)
  BY <1>1 DEF Distinct
<1>4. /\ r \in Seq(RowsOf(table)) /\ Distinct(r) /\ Len(r) = Len(w)
      /\ \E from \in Bijection(1..Len(w), 1..Len(w)) : \A p \in 1..Len(w) : r[p] = w[from[p]]
      /\ \A p, q \in 1..Len(r) : p < q => Less(table, r[p], r[q], k, d)
  BY <1>1, <1>3, SortRowsSorts
<1> HIDE DEF r
<1>5. /\ r \in Seq(RowsOf(table)) /\ Distinct(r)
      /\ \A p \in 1..Len(r) : \E i \in 1..Len(w) : r[p] = w[i]
      /\ \A p, q \in 1..Len(r) : p < q => Less(table, r[p], r[q], k, d)
  BY <1>4 DEF Bijection, Injection
<1>6. ASSUME table = "contexts", NEW p \in 1..Len(r) PROVE r[p].status = StatusOf(r[p].name, pr)
  <2>1. PICK i \in 1..Len(s) : r[p] = w[i]
    BY <1>1, <1>5
  <2>2. w[i].status = StatusOf(s[i].name, pr) /\ w[i].name = s[i].name
    BY <1>1, <1>6
  <2> QED BY <2>1, <2>2
<1>7. WithStatus(r, pr) = r
  BY <1>5, <1>6, WithStatusIsIdempotent
<1> QED BY <1>2, <1>5, <1>7 DEF Ordered

\* A status moves no row of a table that is sorted by something else.
LEMMA LessIgnoresStatus ==
  ASSUME NEW a \in Contexts, NEW b \in Contexts, NEW x \in Nat, NEW y \in Nat,
         NEW k, k # "status", NEW d \in BOOLEAN
  PROVE  Less("contexts", [a EXCEPT !.status = x], [b EXCEPT !.status = y], k, d)
           <=> Less("contexts", a, b, k, d)
BY DEF Less, LessContext, LessByValue, LessIn, Contexts

LEMMA StatusKeepsOrder ==
  ASSUME table \in Tables, NEW s \in Seq(RowsOf(table)), NEW pr, NEW k, NEW d \in BOOLEAN,
         \A c \in DOMAIN pr : pr[c] \in Nat, table # "contexts" \/ k # "status"
  PROVE  Ordered(WithStatus(s, pr), k, d) <=> Ordered(s, k, d)
<1>1. CASE table # "contexts"
  BY <1>1 DEF WithStatus
<1>2. CASE table = "contexts"
  <2>1. \A i \in 1..Len(s) : s[i] \in Contexts /\ StatusOf(s[i].name, pr) \in Nat
    BY <1>2, RowTypes DEF StatusOf
  <2>2. /\ Len(WithStatus(s, pr)) = Len(s)
        /\ \A i \in 1..Len(s) :
             WithStatus(s, pr)[i] = [s[i] EXCEPT !.status = StatusOf(s[i].name, pr)]
    <3>1. WithStatus(s, pr) = [i \in 1..Len(s) |-> [s[i] EXCEPT !.status = StatusOf(s[i].name, pr)]]
      BY <1>2 DEF WithStatus
    <3> QED BY <3>1, WithStatusKeepsRows
  <2>3. \A i, j \in 1..Len(s) :
          Less("contexts", WithStatus(s, pr)[i], WithStatus(s, pr)[j], k, d)
            <=> Less("contexts", s[i], s[j], k, d)
    <3> SUFFICES ASSUME NEW i \in 1..Len(s), NEW j \in 1..Len(s)
                 PROVE  Less("contexts", WithStatus(s, pr)[i], WithStatus(s, pr)[j], k, d)
                          <=> Less("contexts", s[i], s[j], k, d)
      OBVIOUS
    <3> DEFINE x == StatusOf(s[i].name, pr)
               y == StatusOf(s[j].name, pr)
    <3>1. s[i] \in Contexts /\ s[j] \in Contexts /\ x \in Nat /\ y \in Nat
      BY <2>1
    <3>2. WithStatus(s, pr)[i] = [s[i] EXCEPT !.status = x] /\ WithStatus(s, pr)[j] = [s[j] EXCEPT !.status = y]
      BY <2>2
    <3> HIDE DEF x, y
    <3>3. Less("contexts", [s[i] EXCEPT !.status = x], [s[j] EXCEPT !.status = y], k, d)
            <=> Less("contexts", s[i], s[j], k, d)
      BY <1>2, <3>1, LessIgnoresStatus
    <3> QED BY <3>2, <3>3
  <2> QED BY <1>2, <2>2, <2>3 DEF Ordered
<1> QED BY <1>1, <1>2

LEMMA ColumnsAreSortKeys ==
  ASSUME NEW t \in Tables
  PROVE  /\ Len(Columns[t]) \in Nat \ {0}
         /\ \A i \in 1..Len(Columns[t]) : Columns[t][i] \in SortKeys
<1>1. CASE t = "contexts"
  BY <1>1 DEF Columns, SortKeys
<1>2. CASE t = "namespaces"
  BY <1>2 DEF Columns, WithAmounts, SortKeys, Amounts
<1>3. CASE t = "pods"
  BY <1>3 DEF Columns, WithAmounts, SortKeys, Amounts
<1> QED BY <1>1, <1>2, <1>3 DEF Tables

\* Sorting by any key keeps the invariant.
LEMMA ResortKeepsInv ==
  ASSUME Inv, NEW k \in SortKeys, NEW d \in BOOLEAN, Resort(k, d)
  PROVE  Inv'
<1> USE DEF Inv, TypeOK, Resort
<1>1. \A c \in DOMAIN probes : probes[c] \in Nat
  BY TableAssumption
<1>2. /\ rows' \in Seq(RowsOf(table)) /\ Distinct(rows')
      /\ WithStatus(rows', probes) = rows' /\ Ordered(rows', k, d)
  BY <1>1, ApplySortSorts
<1>3. TypeOK'
  BY <1>2
<1>4. Drawn' = rows'
  BY <1>2 DEF Drawn, WithStatus
<1> QED BY <1>2, <1>3, <1>4 DEF OrderIsRight, Ordered

LEMMA SetSortKeepsInv ==
  ASSUME Inv, NEW k \in SortKeys, SetSort(k)
  PROVE  Inv'
<1>1. \E d \in BOOLEAN : Resort(k, d)
  BY DEF SetSort, Inv, TypeOK, Textual
<1> QED BY <1>1, ResortKeepsInv

\* A step that leaves rows, statuses and order alone.
LEMMA QuietStepKeepsInv ==
  ASSUME Inv, UNCHANGED <<table, rows, probes, listed, sortVars>>,
         filter' \in Seq(Chars \cup {Cut}), cursor' \in Nat, filtering' \in BOOLEAN
  PROVE  Inv'
<1>1. key' = key /\ desc' = desc
  BY DEF sortVars
<1>2. TypeOK'
  BY <1>1 DEF Inv, TypeOK, Distinct
<1>3. OrderIsRight'
  BY <1>1 DEF Inv, OrderIsRight, Drawn, WithStatus
<1> QED BY <1>2, <1>3 DEF Inv

LEMMA LastRowType ==
  ASSUME Inv PROVE RowCount \in Nat /\ LastRow \in Nat
<1>1. Len(rows) \in Nat
  BY DEF Inv, TypeOK
<1>2. IsFiniteSet(1..Len(rows))
  BY <1>1, FS_Interval
<1>3. RowCount \in Nat
  BY <1>2, FS_Subset, FS_CardinalityType DEF RowCount, Shown
<1> QED BY <1>3 DEF LastRow

LEMMA InvInit == Init => Inv
<1> SUFFICES ASSUME Init PROVE Inv
  OBVIOUS
<1> USE DEF Init
<1>1. TypeOK
  <2>1. /\ rows \in Seq(RowsOf(table)) /\ Distinct(rows)
        /\ filter \in Seq(Chars \cup {Cut}) /\ DOMAIN probes = {}
    BY DEF Distinct
  <2>2. table \in Tables /\ key \in SortKeys /\ desc \in BOOLEAN /\ filtering \in BOOLEAN
    BY DEF SortKeys
  <2> QED BY <2>1, <2>2 DEF TypeOK
<1>2. Len(Drawn) = 0
  <2>1. rows \in Seq(RowsOf(table)) /\ Len(rows) = 0 /\ table \in Tables
    OBVIOUS
  <2>2. \A c \in DOMAIN probes : probes[c] \in Nat
    OBVIOUS
  <2> QED BY <2>1, <2>2, WithStatusKeepsRows DEF Drawn
<1>3. OrderIsRight
  BY <1>2 DEF OrderIsRight
<1> QED BY <1>1, <1>3 DEF Inv

LEMMA ListingType ==
  ASSUME NEW t \in Tables, NEW s \in Listings[t]
  PROVE  s \in Seq(RowsOf(t)) /\ Distinct(s) /\ Names(s) \subseteq Nat
<1>1. PICK n \in 0..MaxRows : s \in [1..n -> Items[t]]
  BY DEF Listings
<1>2. s \in Seq(RowsOf(t))
  BY <1>1, TableAssumption
<1> QED BY <1>2, RowTypes DEF Listings, Names

LEMMA InvNext == Inv /\ [Next]_vars => Inv'
<1> SUFFICES ASSUME Inv, [Next]_vars PROVE Inv'
  OBVIOUS
<1>1. /\ table \in Tables /\ rows \in Seq(RowsOf(table)) /\ Distinct(rows)
      /\ key \in SortKeys /\ desc \in BOOLEAN
      /\ \A c \in DOMAIN probes : probes[c] \in Nat
  BY TableAssumption DEF Inv, TypeOK
<1>2. ASSUME NEW s \in Listings[table], DataArrives(s) \/ Opened(s) PROVE Inv'
  <2>1. s \in Seq(RowsOf(table)) /\ Distinct(s) /\ Names(s) \subseteq Nat
    BY <1>1, ListingType
  <2>2. /\ rows' = ApplySort(s, probes, key, desc)
        /\ UNCHANGED <<table, probes, key, desc>>
    BY <1>2 DEF DataArrives, Opened, sortVars
  <2>3. /\ rows' \in Seq(RowsOf(table)) /\ Distinct(rows')
        /\ WithStatus(rows', probes) = rows' /\ Ordered(rows', key, desc)
    BY <1>1, <2>1, <2>2, ApplySortSorts
  <2>4. listed \subseteq listed' /\ listed' \subseteq Nat
    BY <1>2, <2>1 DEF DataArrives, Opened, Inv, TypeOK
  <2>5. filter' \in Seq(Chars \cup {Cut}) /\ cursor' \in Nat /\ filtering' \in BOOLEAN
    <3>1. <<>> \in Seq(Chars \cup {Cut})
      OBVIOUS
    <3>2. CASE DataArrives(s)
      BY <3>2 DEF DataArrives, Inv, TypeOK
    <3>3. CASE Opened(s)
      BY <3>1, <3>3 DEF Opened
    <3> QED BY <1>2, <3>2, <3>3
  <2>6. TypeOK'
    BY <2>2, <2>3, <2>4, <2>5 DEF Inv, TypeOK
  <2>7. Drawn' = rows'
    BY <2>2, <2>3 DEF Drawn, WithStatus
  <2> QED BY <2>2, <2>3, <2>6, <2>7 DEF Inv, OrderIsRight, Ordered
<1>3. ASSUME NEW name \in listed, NEW status \in Statuses, SetProbe(name, status) PROVE Inv'
  <2>1. /\ \A c \in DOMAIN probes' : probes'[c] \in Statuses
        /\ DOMAIN probes' \subseteq listed /\ UNCHANGED <<table, listed, key, desc, filter, filtering>>
        /\ cursor' = cursor
    BY <1>3 DEF SetProbe, Inv, TypeOK, sortVars, AfterProbe
  <2>2. \A c \in DOMAIN probes' : probes'[c] \in Nat
    BY <2>1, TableAssumption
  <2>3. CASE NeedsSort
    <3>1. rows' = ApplySort(rows, probes', key, desc)
      BY <1>3, <2>3 DEF SetProbe
    <3>2. /\ rows' \in Seq(RowsOf(table)) /\ Distinct(rows')
          /\ WithStatus(rows', probes') = rows' /\ Ordered(rows', key, desc)
      BY <1>1, <2>2, <3>1, ApplySortSorts
    <3>3. TypeOK'
      BY <2>1, <3>2 DEF Inv, TypeOK
    <3>4. Drawn' = rows'
      BY <2>1, <3>2 DEF Drawn, WithStatus
    <3> QED BY <2>1, <3>2, <3>3, <3>4 DEF Inv, OrderIsRight, Ordered
  <2>4. CASE ~NeedsSort
    <3>1. rows' = rows
      BY <1>3, <2>4 DEF SetProbe
    <3>2. TypeOK'
      BY <2>1, <3>1 DEF Inv, TypeOK, Distinct
    <3>3. Ordered(WithStatus(rows, probes), key, desc)
      BY DEF Inv, OrderIsRight, Drawn, Ordered
    <3>4. Ordered(WithStatus(rows, probes'), key, desc)
      BY <1>1, <2>2, <2>4, <3>3, StatusKeepsOrder DEF NeedsSort
    <3>5. Drawn' = WithStatus(rows, probes')
      BY <2>1, <3>1 DEF Drawn, WithStatus
    <3> QED BY <2>1, <3>2, <3>4, <3>5 DEF Inv, OrderIsRight, Ordered
  <2> QED BY <2>3, <2>4
<1>4. CASE SortKey
  <2>1. CASE ToggleSortDirection
    BY <1>1, <2>1, ResortKeepsInv DEF ToggleSortDirection
  <2>2. ASSUME NEW k \in {"wasteCPU", "wasteMem"}, SetSort(k) PROVE Inv'
    <3>1. k \in SortKeys
      BY DEF SortKeys
    <3> QED BY <2>2, <3>1, SetSortKeepsInv
  <2>3. ASSUME NEW dir \in {-1, 1}, CycleSort(dir) PROVE Inv'
    <3> DEFINE keys == Columns[table]
               at == {i \in 1..Len(keys) : keys[i] = key}
               pos == IF at = {} THEN 1 ELSE CHOOSE i \in at : TRUE
               next == ((pos - 1 + dir) % Len(keys)) + 1
    <3>1. Len(keys) \in Nat \ {0} /\ \A i \in 1..Len(keys) : keys[i] \in SortKeys
      BY <1>1, ColumnsAreSortKeys
    <3>2. pos \in 1..Len(keys)
      BY <3>1
    <3>3. SetSort(keys[next])
      BY <2>3 DEF CycleSort
    <3> HIDE DEF keys, pos
    <3>4. next \in 1..Len(keys)
      BY <3>1, <3>2
    <3> QED BY <3>1, <3>3, <3>4, SetSortKeepsInv
  <2> QED BY <1>4, <2>1, <2>2, <2>3 DEF SortKey
<1>5. CASE CursorKey
  <2>1. PICK idx \in Int : SetCursor(idx)
    <3>1. cursor \in Int /\ Page \in Int /\ RowCount \in Int
      BY LastRowType, TableAssumption DEF Inv, TypeOK
    <3> QED BY <1>5, <3>1 DEF CursorKey
  <2>2. cursor' \in Nat
    BY <2>1, LastRowType DEF SetCursor, Clamp
  <2> QED BY <2>1, <2>2, QuietStepKeepsInv DEF SetCursor, Inv, TypeOK
<1>6. CASE StartFilter \/ ClearFilter
  <2>1. <<>> \in Seq(Chars \cup {Cut})
    OBVIOUS
  <2>2. UNCHANGED <<table, rows, probes, listed, sortVars>>
    BY <1>6 DEF StartFilter, ClearFilter
  <2>3. filter' \in Seq(Chars \cup {Cut}) /\ cursor' \in Nat /\ filtering' \in BOOLEAN
    <3>1. CASE StartFilter
      BY <3>1 DEF StartFilter, Inv, TypeOK
    <3>2. CASE ClearFilter
      BY <2>1, <3>2 DEF ClearFilter, Inv, TypeOK
    <3> QED BY <1>6, <3>1, <3>2
  <2> QED BY <2>2, <2>3, QuietStepKeepsInv
<1>7. CASE FilterKey
  <2>1. ASSUME NEW text \in Seq(Chars \cup {Cut}), NEW more \in BOOLEAN, Prompt(text, more) PROVE Inv'
    BY <2>1, QuietStepKeepsInv DEF Prompt
  <2>2. filter \in Seq(Chars \cup {Cut}) /\ <<>> \in Seq(Chars \cup {Cut})
    BY DEF Inv, TypeOK
  <2>3. DropByte(filter) \in Seq(Chars \cup {Cut})
    BY <2>2 DEF DropByte
  <2>4. \A c \in Chars : Append(filter, c) \in Seq(Chars \cup {Cut})
    BY <2>2
  <2> QED BY <1>7, <2>1, <2>2, <2>3, <2>4 DEF FilterKey, Backspace, Type
<1>8. CASE UNCHANGED vars
  BY <1>8, QuietStepKeepsInv DEF vars, Inv, TypeOK
<1> QED BY <1>2, <1>3, <1>4, <1>5, <1>6, <1>7, <1>8 DEF Next

LEMMA TableIsFixed == [Next]_vars => table' = table
BY DEF vars, Next, DataArrives, Opened, SetProbe, SortKey, CycleSort, SetSort, ToggleSortDirection,
       Resort, CursorKey, SetCursor, StartFilter, ClearFilter, FilterKey, Backspace, Type, Prompt

LEMMA DrawnType ==
  Inv => Drawn \in Seq(RowsOf(table)) /\ table \in Tables /\ desc \in BOOLEAN
BY TableAssumption, WithStatusKeepsRows DEF Inv, TypeOK, Drawn

(***************************************************************************)
(* The state of a table keeps its types, however keys and answers mix.     *)
(***************************************************************************)
THEOREM TypeCorrect == Spec => []TypeOK
  BY InvInit, InvNext, PTL DEF Spec, Inv

(***************************************************************************)
(* The rows are drawn in the order the header announces, at every moment   *)
(* (applyContextSort, setProbe, resort, clusterMsg).                       *)
(***************************************************************************)
THEOREM OrderTheorem == Spec => []OrderIsRight
  BY InvInit, InvNext, PTL DEF Spec, Inv

(***************************************************************************)
(* Refreshes and probes move only rows that changed: the order of two rows *)
(* depends on nothing but these rows (the ties of sort.go).                *)
(***************************************************************************)
THEOREM StableTheorem == Spec => OnlyChangedRowsMove
<1> DEFINE Typed == Drawn \in Seq(RowsOf(table)) /\ table \in Tables /\ desc \in BOOLEAN
<1>1. ASSUME Inv, Typed, Inv', Typed', [Next]_vars, sortVars' = sortVars,
             NEW i \in DOMAIN Drawn, NEW j \in DOMAIN Drawn,
             NEW k \in DOMAIN Drawn', NEW l \in DOMAIN Drawn',
             i < j, Drawn[i] = Drawn'[k], Drawn[j] = Drawn'[l]
      PROVE  k < l
  <2>1. key' = key /\ desc' = desc /\ table' = table
    BY <1>1, TableIsFixed DEF sortVars
  <2>2. /\ Drawn \in Seq(RowsOf(table)) /\ Drawn' \in Seq(RowsOf(table))
        /\ table \in Tables /\ desc \in BOOLEAN
    BY <1>1, <2>1
  <2>3. i \in 1..Len(Drawn) /\ j \in 1..Len(Drawn) /\ k \in 1..Len(Drawn') /\ l \in 1..Len(Drawn')
    BY <1>1, <2>2
  <2>4. Less(table, Drawn[i], Drawn[j], key, desc)
    BY <1>1, <2>3 DEF Inv, OrderIsRight
  <2>5. ~Less(table, Drawn[j], Drawn[i], key, desc)
    BY <2>2, <2>3, <2>4, LessIsOrder
  <2>6. k # l
    BY <1>1, <2>4, <2>5
  <2>7. l < k => Less(table, Drawn'[l], Drawn'[k], key, desc)
    BY <1>1, <2>1, <2>3 DEF Inv, OrderIsRight
  <2> QED BY <1>1, <2>3, <2>5, <2>6, <2>7
<1>2. Inv /\ Typed /\ Inv' /\ Typed' /\ [Next]_vars =>
        (sortVars' = sortVars =>
           \A i, j \in DOMAIN Drawn, k, l \in DOMAIN Drawn' :
             i < j /\ Drawn[i] = Drawn'[k] /\ Drawn[j] = Drawn'[l] => k < l)
  BY <1>1
<1>3. Inv => Typed
  BY DrawnType
<1> HIDE DEF Typed
<1> QED BY <1>2, <1>3, InvInit, InvNext, PTL DEF Spec, OnlyChangedRowsMove

(***************************************************************************)
(* The answer of a probe leaves the highlight where it is, unless the list *)
(* is sorted by status (setProbe).                                         *)
(***************************************************************************)
THEOREM HighlightTheorem == Spec => ProbesKeepHighlight
<1>1. ASSUME [Next]_vars, probes' # probes, key # "status" PROVE Highlighted' = Highlighted
  <2>1. PICK name \in listed, status \in Statuses : SetProbe(name, status)
    BY <1>1 DEF vars, Next, DataArrives, Opened, SortKey, CycleSort, SetSort, ToggleSortDirection,
                Resort, CursorKey, SetCursor, StartFilter, ClearFilter, FilterKey, Backspace, Type, Prompt
  <2>2. UNCHANGED <<table, rows, filter, cursor>>
    BY <1>1, <2>1 DEF SetProbe, NeedsSort, AfterProbe
  <2> QED BY <2>2 DEF Highlighted, HighlightedAt, RowCount, LastRow, Shown, Matches, Fields, Clamp
<1> QED BY <1>1, PTL DEF Spec, ProbesKeepHighlight
=============================================================================
