----------------------------- MODULE CommandLine -----------------------------
(***************************************************************************)
(* kube-waste without the terminal UI (internal/cli, internal/output, and  *)
(* cmd/kube-waste/main.go up to the choice between the two): the flags are *)
(* checked, the cluster is collected and aggregated, a report is built and *)
(* written to stdout, and the process exits.  Any step may fail, and a     *)
(* write may break off.                                                    *)
(*                                                                         *)
(* The flags do not change: what of them the code has not looked at yet is *)
(* chosen when it does.  What goes to stderr, and the report's context and *)
(* timestamp, are left out.                                                *)
(***************************************************************************)
EXTENDS Report

CONSTANT Blank  \* an empty CSV field

ExitOK == 0
ExitError == 1
ExitUsage == 2
Running == -1

VARIABLES
  phase,    \* "start", "collect", then "over"
  request,  \* the report that is written: scope, format and node group
  stdout,   \* its lines, as far as they were written
  exit      \* the exit code, Running before

cliVars == <<phase, request, stdout, exit>>

Scopes == {"overview", "namespace", "pod"}
Formats == {"json", "csv"}
NoRequest == [scope |-> "none", format |-> "none", nodeGroup |-> NoName]
Reports == [scope : Scopes, format : Formats, nodeGroup : GroupNames \cup {NoName}]

CInit ==
  /\ Init
  /\ phase = "start" /\ request = NoRequest /\ stdout = <<>> /\ exit = Running

-----------------------------------------------------------------------------
(* Rows: a value is tagged with the resource it is of, because one number  *)
(* of the cluster stands for both.                                         *)

Kinds == {"cpu", "memory"}
ASSUME NoValueAssumption == Null \notin Kinds \X (Int \cup Nat \X Nat)

Of(resource, v) == IF v = Null THEN Null ELSE <<resource, v>>

\* NewGroup
NewGroup(m) == [r \in Kinds |-> [f \in DOMAIN m |-> Of(r, m[f])]]

\* NewNodeGroup
NewNodeGroup(name, m) ==
  Put(NewGroup(Put(m, "allocatable", groups[name].allocatable)), "nodes", groups[name].nodes)

\* sort.Strings, sort.Slice: no two elements are equal in the order.
Listed(S, before) ==
  CHOOSE s \in [1..Cardinality(S) -> S] :
    \A i, j \in 1..Cardinality(S) : i < j => <<s[i], s[j]>> \in before

ByName(S) == {p \in S \X S : p[1] < p[2]}
ByNamespace(S) ==
  {p \in S \X S : \/ p[1].namespace < p[2].namespace
                  \/ p[1].namespace = p[2].namespace /\ p[1].name < p[2].name}

\* What a report has rows for: node groups in the order of the cluster, the
\* others by name.  Of a group that is asked for, checkNodeGroup knows that it
\* is among them.
Subjects(scope, g) ==
  CASE scope = "overview"  -> IF g = NoName THEN order ELSE <<g>>
    [] scope = "namespace" -> Listed(DOMAIN NamespaceReport(g), ByName(DOMAIN NamespaceReport(g)))
    [] scope = "pod"       -> Listed(SelectPods(g), ByNamespace(SelectPods(g)))

\* Rows of BuildOverview, BuildNamespaces and BuildPods.
NodeGroupRow(g, n) == Put(NewNodeGroup(n, Overview(g)[n]), "nodegroup", n)
NamespaceRow(g, ns) == Put(NewGroup(NamespaceReport(g)[ns]), "namespace", ns)
PodRow(g, e) ==
  Put(Put(Put(NewGroup(PodReport(g)[e]), "namespace", e.namespace), "pod", e.name), "node", e.node)

Row(scope, g, x) ==
  CASE scope = "overview"  -> NodeGroupRow(g, x)
    [] scope = "namespace" -> NamespaceRow(g, x)
    [] scope = "pod"       -> PodRow(g, x)

Rows(scope, g) == LET s == Subjects(scope, g) IN [i \in DOMAIN s |-> Row(scope, g, s[i])]

-----------------------------------------------------------------------------
(* Writers: a column is <<resource, field>>, or <<field>> *)

\* the header in another order than the fields
BugMetricColumns(resource) ==
  <<<<resource, "requested">>, <<resource, "used">>, <<resource, "percent">>, <<resource, "waste">>>>

\* metricHeader: half of it
MetricColumns(resource) ==
  <<<<resource, "requested">>, <<resource, "used">>, <<resource, "waste">>, <<resource, "percent">>>>

\* nodeGroupHeader: what follows the nodes, half of it
NodeGroupColumns(resource) == <<<<resource, "allocatable">>>> \o MetricColumns(resource)

Header(scope) ==
  CASE scope = "overview" ->
         <<<<"nodegroup">>, <<"nodes">>>> \o NodeGroupColumns("cpu") \o NodeGroupColumns("memory")
    [] scope = "namespace" -> <<<<"namespace">>>> \o MetricColumns("cpu") \o MetricColumns("memory")
    [] scope = "pod" ->
         <<<<"namespace">>, <<"pod">>, <<"node">>>> \o MetricColumns("cpu") \o MetricColumns("memory")

\* number: a pointer that is nil is an empty field
Number(v) == IF v = Null THEN Blank ELSE v

\* Metric.fields, NodeGroupMetric.fields
MetricCells(m) == <<Number(m.requested), Number(m.used), Number(m.waste), Number(m.percent)>>
NodeGroupMetricCells(m) == <<Number(m.allocatable)>> \o MetricCells(m)

\* Rows of the three reports, with Group.fields and NodeGroup.fields
Record(scope, row) ==
  CASE scope = "overview" ->
         <<row.nodegroup, row.nodes>> \o NodeGroupMetricCells(row.cpu) \o NodeGroupMetricCells(row.memory)
    [] scope = "namespace" -> <<row.namespace>> \o MetricCells(row.cpu) \o MetricCells(row.memory)
    [] scope = "pod" ->
         <<row.namespace, row.pod, row.node>> \o MetricCells(row.cpu) \o MetricCells(row.memory)

\* WriteCSV: a header line, and a line for each row.
WriteCSV(scope, g) ==
  <<Header(scope)>> \o [i \in DOMAIN Rows(scope, g) |-> Record(scope, Rows(scope, g)[i])]

\* WriteJSON: one line.  The order within nodegroups, an object, says nothing.
WriteJSON(scope, g) == <<Rows(scope, g)>>

Lines(req) ==
  IF req.format = "csv" THEN WriteCSV(req.scope, req.nodeGroup) ELSE WriteJSON(req.scope, req.nodeGroup)

-----------------------------------------------------------------------------
(* Steps *)

Exit(code, lines) == phase' = "over" /\ exit' = code /\ stdout' = lines

\* Load: a default path need not exist.
LoadFails(explicit, file) == file = "bad" \/ (file = "missing" /\ explicit)

ConfigFails ==
  /\ phase = "start"
  /\ \E explicit \in BOOLEAN, file \in {"good", "bad", "missing"} : LoadFails(explicit, file)
  /\ Exit(ExitError, <<>>)
  /\ UNCHANGED <<vars, request>>

\* Any flag value, or none.
ScopeFlags == Scopes \cup {"", "unknown"}
OutputFlags == Formats \cup {"", "unknown"}

\* Either flag on its own implies the default of the other.
Enabled(s, o) == s # "" \/ o # ""
ScopeOf(s) == IF s = "" THEN "overview" ELSE s
FormatOf(o) == IF o = "" THEN "json" ELSE o

Resolve ==
  /\ phase = "start"
  /\ \E s \in ScopeFlags, o \in OutputFlags :
       /\ Enabled(s, o)
       /\ \/ /\ ScopeOf(s) \in Scopes /\ FormatOf(o) \in Formats
             /\ detail <=> ScopeOf(s) # "overview"  \* Collect or CollectOverview
             /\ phase' = "collect" /\ UNCHANGED <<exit, stdout>>
          \/ /\ ScopeOf(s) \notin Scopes \/ FormatOf(o) \notin Formats
             /\ Exit(ExitUsage, <<>>)
  /\ UNCHANGED <<vars, request>>

\* The kubeconfig, the clients or a query that has to succeed.
CollectFails ==
  /\ phase = "collect" /\ stage = "nodes" /\ groupOfNode = Empty
  /\ Exit(ExitError, <<>>)
  /\ UNCHANGED <<vars, request>>

Aggregating == phase = "collect" /\ Next /\ UNCHANGED cliVars

\* the error of the last write is dropped
BugWritten(req, n) == req.format = "csv" \/ n = Len(Lines(req))

\* Write returns no error: all n lines of the report were taken.
Written(req, n) == n = Len(Lines(req))

\* checkNodeGroup
Known(g) == g \in {NoName} \cup DOMAIN groups

\* Build and Write.
Render(req) ==
  /\ phase = "collect" /\ stage = "done"
  /\ detail <=> req.scope # "overview"
  /\ \/ /\ Known(req.nodeGroup)
        /\ request' = req
        /\ \E n \in 0..Len(Lines(req)) :
             Exit(IF Written(req, n) THEN ExitOK ELSE ExitError, SubSeq(Lines(req), 1, n))
     \/ /\ ~Known(req.nodeGroup)
        /\ Exit(ExitError, <<>>) /\ UNCHANGED request
  /\ UNCHANGED vars

CNext ==
  \/ ConfigFails \/ Resolve \/ CollectFails
  \/ Aggregating
  \/ \E req \in Reports : Render(req)

CSpec == CInit /\ [][CNext]_<<vars, cliVars>>
-----------------------------------------------------------------------------
(* Properties *)

\* The entry of a JSON row for a column.
Entry(row, column) == IF Len(column) = 1 THEN row[column[1]] ELSE row[column[1]][column[2]]

UsageKnown(scope) == IF scope = "overview" THEN nodeMetricsOK ELSE podMetricsOK

(***************************************************************************)
(* Whichever format a consumer reads, it reads the same: row by row, the   *)
(* field under a header of the CSV is the JSON entry of that name, and it  *)
(* is empty where that is null.  Usage is null, and never zero, exactly if *)
(* the query it comes from failed, which is another one for the overview   *)
(* than for the rest, and a percentage of no requests is null as well.     *)
(***************************************************************************)
FormatsAgree ==
  stage = "done" /\ phase = "collect" =>
    \A scope \in IF detail THEN {"namespace", "pod"} ELSE {"overview"},
       g \in DOMAIN groups \cup {NoName} :
      LET csv == WriteCSV(scope, g)
          json == WriteJSON(scope, g)[1]
          header == csv[1]
      IN  /\ Len(csv) = 1 + Len(json)
          /\ \A i \in 1..Len(json) :
               /\ Len(csv[i + 1]) = Len(header)
               /\ \A c \in 1..Len(header) :
                    LET entry == Entry(json[i], header[c])
                        field == csv[i + 1][c]
                    IN  IF entry = Null THEN field = Blank ELSE field = entry
               /\ \A r \in Kinds :
                    /\ json[i][r].used # Null <=> UsageKnown(scope)
                    /\ json[i][r].waste # Null <=> UsageKnown(scope)
                    /\ json[i][r].percent # Null <=>
                         UsageKnown(scope) /\ json[i][r].requested # <<r, 0>>

\* What a report has to have a row for.
Wanted(req) ==
  LET g == req.nodeGroup
      there == {e \in pods : g = NoName \/ e.node \in Members(g)}
  IN  CASE req.scope = "overview"  -> {<<n>> : n \in {n \in DOMAIN groups : g \in {NoName, n}}}
        [] req.scope = "namespace" ->
             {<<ns>> : ns \in IF g = NoName THEN DOMAIN namespaces ELSE {e.namespace : e \in there}}
        [] req.scope = "pod"       -> {<<e.namespace, e.name>> : e \in there}

\* What the rows among the lines are about.
Delivered(req, lines) ==
  LET row(r) == CASE req.scope = "overview"  -> <<r.nodegroup>>
                  [] req.scope = "namespace" -> <<r.namespace>>
                  [] req.scope = "pod"       -> <<r.namespace, r.pod>>
      record(f) == IF req.scope = "pod" THEN <<f[1], f[2]>> ELSE <<f[1]>>
  IN  IF req.format = "json"
      THEN {row(lines[1][i]) : i \in DOMAIN lines[1]}
      ELSE {record(lines[i]) : i \in 2..Len(lines)}

(***************************************************************************)
(* A script may rely on the exit code: it is 0 exactly if stdout has the   *)
(* whole report that was asked for.  README.md:92: "stdout carries nothing *)
(* but the report; diagnostics go to stderr and a failed collection exits  *)
(* non-zero"; and after a usage error no cluster was asked.                *)
(***************************************************************************)
ExitTells ==
  phase = "over" =>
    /\ exit = ExitOK <=> request # NoRequest /\ stdout # <<>> /\ Delivered(request, stdout) = Wanted(request)
    /\ exit = ExitUsage => stage = "nodes" /\ groupOfNode = Empty /\ stdout = <<>>
=============================================================================
