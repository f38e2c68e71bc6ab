-------------------------------- MODULE Table --------------------------------
(***************************************************************************)
(* One of the three tables of the terminal UI with the order of its rows,  *)
(* its filter and its cursor: internal/tui/navigation.go and the handlers  *)
(* of internal/tui/app.go that touch them.  Answers replace and reorder    *)
(* the rows under a cursor that is kept as a row number.                   *)
(*                                                                         *)
(* Whose rows arrive is Session's subject, the window drawn Viewport's.    *)
(***************************************************************************)
EXTENDS Sorting

CONSTANTS
  Items,      \* for each table: the rows that may arrive for it
  Statuses,   \* what a probe may report, as strings: none of them empty
  Chars,      \* the characters that are typed
  MaxRows,    \* bound: rows of the table
  MaxFilter,  \* bound: characters of the filter
  Page        \* m.pageSize()

ASSUME TableAssumption ==
  /\ \A t \in Tables : Items[t] \subseteq RowsOf(t)
  /\ Statuses \subseteq Nat \ {0}
  /\ Wide \subseteq Chars /\ Cut \notin Chars
  /\ MaxRows \in Nat /\ MaxFilter \in Nat /\ Page \in Nat \ {0}

VARIABLES
  table,      \* which of the tables this is
  rows,       \* m.contexts, m.cluster.Namespaces, or the pods of m.namespace
  probes,     \* for each context that has a status: the status
  listed,     \* the contexts that a probe, or a load, was started for
  key, desc,  \* tableState: sortKey, sortDesc
  filter,     \* tableState: the filter, as characters
  cursor,     \* tableState: a row number from 0
  filtering   \* keys go to the filter prompt

sortVars == <<key, desc>>
vars == <<table, rows, probes, listed, sortVars, filter, cursor, filtering>>

\* contextSortKeys, namespaceSortKeys, podSortKeys
WithAmounts(k, l) == <<k, l, "reqCPU", "usedCPU", "wasteCPU", "reqMem", "usedMem", "wasteMem">>
Columns ==
  [contexts   |-> <<"name", "current", "status", "cluster">>,
   namespaces |-> WithAmounts("name", "podCount"),
   pods       |-> WithAmounts("name", "node")]

Init ==
  /\ table \in Tables
  /\ rows = <<>> /\ probes = <<>> /\ listed = {}
  /\ key = IF table = "contexts" THEN "name" ELSE "wasteCPU"
  /\ desc = (table # "contexts")
  /\ filter = <<>> /\ cursor = 0 /\ filtering = FALSE

-----------------------------------------------------------------------------
(* Orders *)

StatusOf(name, pr) == IF name \in DOMAIN pr THEN pr[name] ELSE 0

\* The rows with the statuses the probes have reported.
WithStatus(s, pr) ==
  IF table = "contexts" THEN [i \in 1..Len(s) |-> [s[i] EXCEPT !.status = StatusOf(s[i].name, pr)]] ELSE s

\* applyContextSort, applyNamespaceSort, applyPodSort
ApplySort(s, pr, k, d) == SortRows(table, WithStatus(s, pr), k, d)

\* statuses do not move rows
BugNeedsSort == FALSE

\* A status matters to the order.
NeedsSort == table = "contexts" /\ key = "status"

\* the cursor starts over with the new order
BugAfterProbe == 0

\* The cursor once a status has come in.
AfterProbe == cursor

-----------------------------------------------------------------------------
(* Messages *)

Names(s) == {s[i].name : i \in 1..Len(s)}

\* What a server may send for a table, in any order; contexts come from the
\* kubeconfig, sorted by name and without a status.
Listings ==
  [t \in Tables |->
     {s \in UNION {[1..n -> Items[t]] : n \in 0..MaxRows} :
        /\ Distinct(s)
        /\ t = "contexts" => \A i, j \in 1..Len(s) : i < j => s[i].name < s[j].name
        /\ t = "contexts" => \A i \in 1..Len(s) : s[i].status = 0}]

\* contextsMsg, or clusterMsg with a snapshot.
DataArrives(s) ==
  /\ rows' = ApplySort(s, probes, key, desc)
  /\ listed' = IF table = "contexts" THEN listed \cup Names(s) ELSE listed
  /\ UNCHANGED <<table, probes, sortVars, filter, cursor, filtering>>

\* setProbe: probeMsg, and clusterMsg for a context that was opened.
SetProbe(name, status) ==
  /\ name \in listed
  /\ probes' = [c \in DOMAIN probes \cup {name} |-> IF c = name THEN status ELSE probes[c]]
  /\ rows' = IF NeedsSort THEN ApplySort(rows, probes', key, desc) ELSE rows
  /\ cursor' = AfterProbe
  /\ UNCHANGED <<table, listed, sortVars, filter, filtering>>

\* "enter" on the screen before: a cluster that is not loaded yet, or the
\* pods of a namespace.  Its prompt may have been left open by an error.
Opened(s) ==
  /\ table # "contexts"
  /\ table = "namespaces" => s = <<>>
  /\ rows' = ApplySort(s, probes, key, desc)
  /\ cursor' = 0 /\ filter' = <<>> /\ filtering' = FALSE
  /\ UNCHANGED <<table, probes, listed, sortVars>>

-----------------------------------------------------------------------------
(* Keys *)

\* resort
Resort(k, d) ==
  /\ ~filtering
  /\ key' = k /\ desc' = d
  /\ rows' = ApplySort(rows, probes, k, d)
  /\ cursor' = 0
  /\ UNCHANGED <<table, probes, listed, filter, filtering>>

SetSort(k) == Resort(k, IF k = key THEN ~desc ELSE ~Textual(k))

\* A key that is no column of the table counts as its first.
CycleSort(dir) ==
  LET keys == Columns[table]
      at == {i \in 1..Len(keys) : keys[i] = key}
      pos == IF at = {} THEN 1 ELSE CHOOSE i \in at : TRUE
  IN  SetSort(keys[((pos - 1 + dir) % Len(keys)) + 1])

\* "S"
ToggleSortDirection == Resort(key, ~desc)

SortKey ==
  \/ \E dir \in {-1, 1} : CycleSort(dir)
  \/ \E k \in {"wasteCPU", "wasteMem"} : SetSort(k)  \* "c", "m": on every table
  \/ ToggleSortDirection

RowCount == Cardinality(Shown(table, rows, filter))

\* the upper bound is tested first
BugClamp(v, lo, hi) == IF v >= hi THEN hi ELSE v

Clamp(v, lo, hi) == IF v < lo THEN lo ELSE IF v > hi THEN hi ELSE v
LastRow == IF RowCount = 0 THEN 0 ELSE RowCount - 1

\* setCursor
SetCursor(idx) ==
  /\ ~filtering
  /\ cursor' = Clamp(idx, 0, LastRow)
  /\ UNCHANGED <<table, rows, probes, listed, sortVars, filter, filtering>>

CursorKey ==
  \/ \E delta \in {-1, 1, -Page, Page} : SetCursor(cursor + delta)
  \/ SetCursor(0)
  \/ SetCursor(RowCount - 1)

\* "/"
StartFilter ==
  /\ ~filtering /\ filtering' = TRUE
  /\ UNCHANGED <<table, rows, probes, listed, sortVars, filter, cursor>>

\* "esc" with a filter
ClearFilter ==
  /\ ~filtering /\ filter # <<>>
  /\ filter' = <<>> /\ cursor' = 0
  /\ UNCHANGED <<table, rows, probes, listed, sortVars, filtering>>

\* Every key in the prompt, known or not, starts over at the first row.
Prompt(text, more) ==
  /\ filtering
  /\ filter' = text /\ filtering' = more
  /\ cursor' = 0
  /\ UNCHANGED <<table, rows, probes, listed, sortVars>>

\* The filter without its last byte.
DropByte(q) ==
  IF q = <<>> THEN q
  ELSE LET rest == SubSeq(q, 1, Len(q) - 1)
       IN  IF q[Len(q)] \in Wide THEN Append(rest, Cut) ELSE rest

Backspace == Prompt(DropByte(filter), TRUE)
Type == Len(filter) < MaxFilter /\ \E c \in Chars : Prompt(Append(filter, c), TRUE)

FilterKey ==
  \/ Prompt(<<>>, FALSE)    \* "esc"
  \/ Prompt(filter, FALSE)  \* "enter"
  \/ Backspace
  \/ Prompt(<<>>, TRUE)     \* "ctrl+u"
  \/ Type
  \/ Prompt(filter, TRUE)   \* any other key

Next ==
  \/ \E s \in Listings[table] : DataArrives(s) \/ Opened(s)
  \/ \E name \in listed, status \in Statuses : SetProbe(name, status)
  \/ SortKey \/ CursorKey
  \/ StartFilter \/ ClearFilter \/ FilterKey

Spec == Init /\ [][Next]_vars
-----------------------------------------------------------------------------
(* Properties *)

NoRow == -1

\* The position in rows of the row that is drawn highlighted, which is the
\* one "enter" opens: the cursor counts the rows shown.
HighlightedAt ==
  CHOOSE i \in Shown(table, rows, filter) :
    Cardinality({j \in Shown(table, rows, filter) : j < i}) = Clamp(cursor, 0, LastRow)
Highlighted == IF RowCount = 0 THEN NoRow ELSE rows[HighlightedAt].name

\* The rows as they are drawn: with the statuses of now.
Drawn == WithStatus(rows, probes)

TypeOK ==
  /\ table \in Tables
  /\ rows \in Seq(RowsOf(table)) /\ Distinct(rows)
  /\ DOMAIN probes \subseteq listed /\ \A c \in DOMAIN probes : probes[c] \in Statuses
  /\ listed \subseteq Nat
  /\ key \in SortKeys /\ desc \in BOOLEAN
  /\ filter \in Seq(Chars \cup {Cut})
  /\ cursor \in Nat
  /\ filtering \in BOOLEAN

(***************************************************************************)
(* The rows are always drawn in the order that the header announces.  A    *)
(* row keeps a copy of its status, for sorting, which is not renewed when  *)
(* a probe answers while the table is sorted by something else.            *)
(***************************************************************************)
OrderIsRight ==
  \A i, j \in 1..Len(Drawn) : i < j => Less(table, Drawn[i], Drawn[j], key, desc)

(***************************************************************************)
(* sort.go:84: "Ties fall back to the namespace name so the order stays    *)
(* stable across refreshes."  Whatever arrives, in whatever order, two     *)
(* rows that are drawn as before do not change places, unless the user     *)
(* sorts.                                                                  *)
(***************************************************************************)
OnlyChangedRowsMove ==
  [][sortVars' = sortVars =>
       \A i, j \in DOMAIN Drawn, k, l \in DOMAIN Drawn' :
         i < j /\ Drawn[i] = Drawn'[k] /\ Drawn[j] = Drawn'[l] => k < l]_vars

(***************************************************************************)
(* Probes answer while the user looks for a context.  The row that "enter" *)
(* would open stays the same, unless the list is sorted by status.         *)
(***************************************************************************)
ProbesKeepHighlight ==
  [][probes' # probes /\ key # "status" => Highlighted' = Highlighted]_vars

(***************************************************************************)
(* What the code does not keep.  README.md:154: "`backspace` deletes a     *)
(* character".  A shorter filter then matches what the longer one matched. *)
(***************************************************************************)
BackspaceWidens ==
  [][Backspace => Shown(table, rows, filter) \subseteq Shown(table, rows', filter')]_vars
=============================================================================
