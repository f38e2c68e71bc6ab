# Verification of kube-waste

TLA+ specifications of kube-waste, a terminal UI and command line tool that
compares what the pods of a Kubernetes cluster request with what they use.
TLC checks the specifications on small instances; TLAPS proves the most
important properties for every value of the constants. Paths below are relative
to the repository (`internal/...`); a definition is named `Module!Definition`.

## The system

| Part | State | Operations | Hard about it |
| --- | --- | --- | --- |
| Session, `internal/tui/app.go` | `Model`: screen, snapshot, context in the header, `loading`, error, filters, help | one `Update` per message: answers of loads, probes and lists, spinner timers, keys | answers of several loads arrive in any order, also those of contexts the user has left; one `loading` flag for all of them |
| Cursor, scrolling, layout: `app.go`, `table.go`, `namespaces.go`, `view.go` | cursor and offset of each table | keys, new data, resizing | the rows and the lines change under a cursor that stays |
| Tables: `model/sort.go`, `navigation.go` | rows, sort key, direction, filter, a cached status per context | sorting, filtering, re-sorting when an answer arrives | rows move under a cursor that is a row number; the cached status gets stale |
| Rendering: `header.go`, `styles.go`, `help.go`, `box.go`, `table.go`, `pods.go`, `contexts.go`, `overview.go` | none | pure functions of the model | only the line count matters to the control |
| Collector, `internal/kube/collect.go` | the `Snapshot` under a mutex, a `WaitGroup`, a deadline | `Collect`, `CollectOverview`: three or five queries at once, in pages | interleaving, every subset of failures, a server that never answers |
| Aggregation, `kube/aggregate.go`, `kube/nodegroups.go` | accumulators of groups, namespaces, totals | `Aggregate`, `AggregateOverview` | nodes and pods come from different moments; two paths, one result |
| Pod requests, `kube/resources.go` | three running sums | `PodRequests` | depends on the order of init containers |
| Reports, `internal/output/report.go` | none | `BuildOverview`, `BuildNamespaces`, `BuildPods` | a second aggregation that must agree with the first; null is not zero |
| Writers, `output/output.go` | what has been written | JSON, CSV | two serializations that must say the same; a write that breaks off |
| Command line, `internal/cli` | the exit code | flags, one collection, one report | every step may fail, and scripts see only stdout and the exit code |
| Kubeconfig and clients, `kube/client.go` | none | `Contexts`, `Probe`, `ClientsFor` | library calls |
| Configuration, start-up | none | reads a file, dispatches flags | a missing file is an error only sometimes |

How they interact: Bubble Tea calls `Update` with one message at a time and runs
the commands it returns in goroutines, each of which sends one message when it
is done. `loadClusterCmd` is a whole collection: the collector fills a snapshot,
`aggregate` makes a `model.Cluster` of it, and the message carries that to the
session, which shows it in tables. The command line does the same once, and
hands the cluster to a report.

What makes each part correct:

- session: header, tables and error are of one context; nothing waits, loads or
  spins for ever; a failure costs nothing that is on display; `--context` holds;
- cursor and layout: the highlighted row is on the screen; no line is wasted, no
  row skipped, no box cut off;
- collector: the result is a function of the answers, and their order shows only
  in the message that names two failures of the metrics; a snapshot is whole; no
  failure is lost; `collect` returns and leaves nothing running;
- aggregation and reports: every total is the sum of its parts on every table
  and report, and what is not known is not a number;
- tables: rows are in the order that the header announces, whatever arrives when;
  only what changed moves;
- writers and command line: both formats say the same, and exit code 0 means that
  all of it was said;
- pod requests: a pod reserves what its busiest moment takes.

## Modules

| Module | Models | Instance, configurations |
| --- | --- | --- |
| `Session` | `app.go` (control) | `MCSession`: `.cfg`, `_live`, `_late`, `_list`, `_stale` |
| `SessionProofs` | theorems about `Session` | |
| `Collector` | `collect.go` | `MCCollector` |
| `CollectPromise` | what a collection promises, without its mechanics | implemented by `Collector` |
| `CollectorProofs` | theorems, the refinement among them | |
| `Viewport` | `setCursor`, `scrollOffset`, `clusterLayout`, rendering of the rows | `MCViewport`: `.cfg`, `_up` |
| `ViewportProofs` | theorems about `Viewport` | |
| `Resources` | `model.Resources` | used by `PodRequests` |
| `PodRequests` | `PodRequests`, with the start of a pod beside it | `MCPodRequests` |
| `PodRequestsProofs` | theorems about `PodRequests` | |
| `StableSort` | `sort.SliceStable` | used by `Sorting` and `Aggregate` |
| `LibraryProofs` | theorems about sums, joined sequences and `StableSort` | used by the proofs below |
| `Sorting` | `sort.go`: less functions, sorts, filters | used by `Table` |
| `Table` | `navigation.go`, and `app.go` where it touches rows, order and filter | `MCTable`: `.cfg`, `_backspace` |
| `TableProofs` | theorems about `Sorting` and `Table` | |
| `Aggregate` | `aggregate`, `NodeGroupName` | through `CommandLine` |
| `AggregateProofs` | theorems about `Aggregate` | |
| `Report` | `report.go`, on the final states of `Aggregate` | through `CommandLine` |
| `CommandLine` | `cli.go`, `output.go`, `main.go` and `config.go` up to the terminal UI | `MCReport` |
| `ReportProofs` | theorems about `Report` and `CommandLine` | |

The pieces fit together as follows. A load in flight in `Session` is one run of
`Collector`, which answers with a snapshot or an error and always answers
(`Collector!Returns` is what `Session!Fairness` assumes of `ClusterMsg`). The
snapshot is what `Aggregate` reads; `Aggregate!Requests` is the result of
`PodRequests` for each pod. `Viewport` and `Table` are the table of one screen of
`Session`, whose rows change when a message of `Session` arrives: `Viewport` has
its lines, `Table` its rows. `CommandLine` is the composition for one run of the
command: its steps, with the steps of `Aggregate` between them.

Definitions named `Bug...` stand before the definition they deform and are used
by nothing: each is that definition with a plausible mistake, and with it in
place a property must fail (`mutants` in `PROJECT.json`).

### Session

A step is one call of `Update`. Commands in flight are counted per context
(`clusterMsgs`, `probeMsgs`) or in all (`contextsMsgs`, `ticks`); which of them
answers next, and how, is open. `ClusterLoaded` and `ClusterFailed` are the two
halves of the `clusterMsg` case, `ContextsLoaded` and `ContextsFailed` of
`contextsMsg`; `OpenContext`, `OpenNamespace`, `RefreshContexts`,
`RefreshCluster` and the `Back...` actions are the branches of `open`,
`refresh` and `back`; `Prompt` is `handleFilterKey`.

Abstracted: a row is named instead of being found by cursor and order; a filter
is empty or not; the error text is the context it is about; a probe has a result
or not; `tea.Quit` stops at once. Rows and their order belong to `Viewport` and
`Table`. Loads of one context are numbered in the order they were started,
and `older` says how many of those in flight for the context on display were
started before the one that brought its snapshot.

### Collector

Each goroutine of `collect` runs on its own: `PageOk` (one page), `Fail` (the
server, or the deadline), `Lock`, `Store`, `Unlock`, `Done`. The caller starts
them in order, each counted first (`Run`), and waits (`Return`). An `append` to
`metricsE` is modelled as reading the slice when the mutex is taken and writing
it in the critical section, so that without the mutex one would be lost.

`CollectPromise` has no goroutines: every query is answered once, `ok` or
`failed`, and the result is `Verdict(answers, failures)`. `failures` names the
metrics queries that failed, each once and in either order (`Listings`), since
`collect.go:136` joins the messages as they were appended: the order in which
the mutex was won. Nothing else of a result is left open. `Collector` implements
it with `answers <- answer` and `result` as it is; all other steps are stutters.

### Viewport

The state is what the tables keep between keys; what is drawn is computed from
it, as rendering clamps and scrolls once more without keeping the result
(`Highlighted`, `FirstDrawn`). `GroupSplit` is `clusterLayout`: the groups shown
and the lines reserved for them (`ReservedLines`), which `TableHeight` takes off
the body. `GroupLines` is what `renderNodeGroups` and the blank line below it
take when they are drawn, counted by other code. `BoxesFit` compares the two: the
boxes fill a body of three lines or more only if they agree.

### PodRequests

The loops of `PodRequests` on the left of each action, the start of the pod on
the right: `load` is what runs now, `peak` the most that ever ran. Init
containers start one after the other, sidecars stay (`resources.go:24-27`). The
pod is chosen container by container, which covers all pods up to the bound.

### Aggregate and Report

`ReadNode` and `ReadPod` are iterations of the two loops; any node or pod that
is left may be next, which covers all orders, and not all need to be read, which
covers snapshots that list fewer nodes than pods run on. `StableSort` is the sort
of the Go library: it keeps the order of equals, so that a comparison that leaves
ties open shows. Each pod carries whether its usage is known, and `FoldSummary`
merges that as `Summary.Add` does. Reports are operators on the final states. The names of pods,
namespaces and groups are numbers, in byte order.

### Sorting and Table

`Sorting` has the three less functions and filters of `sort.go`; a string is a
number, in byte order, and has a spelling for the filters. `Table` is one of the
three tables, chosen in `Init`. `DataArrives` is the answer of a load or of the
kubeconfig, in any order of rows; `SetProbe` the answer of a probe; `Opened` what
enter does to the table it leads to; `SortKey`, `CursorKey`, `StartFilter`,
`ClearFilter` and `FilterKey` are the branches of `handleKey` and
`handleFilterKey`. A character is narrow or wide: of a wide one backspace leaves
`Cut`, which no name has.

### CommandLine

`ConfigFails` is the end of `main` when `config.Load` fails, `Resolve` the check
of the flags, `CollectFails` and `Aggregating` are `Collect`, `Render` is `Build`
and `Write`, of which any number of lines may have reached stdout when it fails.
A value is tagged with its resource, since one number of `Aggregate` stands for
CPU and memory: a column under the wrong header shows. `Subjects` is what a
report has rows for, in their order; `Listed` is `sort.Strings` and `sort.Slice`
for elements of which no two are equal.

## Runs

| Run | Bounds | States | Shows |
| --- | --- | --- | --- |
| `session` | 2 contexts, 1 namespace, 2 loads per context, 2 timers, 1 list, 1 probe per context | 2.0 M | ten properties under every key |
| `session_live` | the same with 1 load per context, keys enter, esc, r | 55 k | liveness |
| `session_late`, `session_list`, `session_stale` | as `session` or smaller | | three things the code does not keep, see below |
| `collector` | lists of nodes and pods in two pages | 468 k | safety, the refinement, termination |
| `viewport` | 6 rows, 5 groups, bodies of 1 to 17 lines | 55 k | layout and scrolling |
| `viewport_up` | the same | | one thing the code does not keep |
| `pod_requests` | 4 containers, amounts of two kinds that pull apart | 31 k | the peak |
| `report` | 2 nodes, 2 pods, 2 namespaces, 2 group labels, all flags | 2.8 M | totals, tables, reports, both formats and exit codes |
| `table` | 3 rows, of 3 or 4 that may arrive; 2 statuses; a filter of 1 character | 261 k | order and highlight |
| `table_backspace` | the same, a filter of 2 characters | | one thing the code does not keep |

Why the bounds are enough. Two contexts are what it takes for the answer of one
to meet the screen of the other; two loads of one context are what it takes for
one to be stale; the second timer is the one that can be one too many. Two pages
make an incomplete list; the five queries are all there are. The heights of
`viewport` meet every case of `clusterLayout` with fewer, as many and more
groups than lines, and six rows are more and fewer than fit. Two nodes make a
group of two or two groups that tie; two pods share a node, a namespace, both or
neither. Three rows are what a sort that is no order needs to show, and the rows
of `MCTable` tie in every column. The bounds `MaxLoads`, `MaxLists`, `MaxProbes`, `MaxTicks`, `MaxRows`,
`MaxGroups`, `MaxFilter` and `MaxContainers` stand in guards or ranges and nowhere else; the
proofs hold for all of them. The contexts are symmetric in `session`, which
checks no liveness.

Fairness. `Session!Fairness` says that every command in flight comes back:
collections (30 s) and probes (8 s) run under deadlines, the kubeconfig is a
local file and a timer fires. It asks nothing of the user. `Collector!Fairness`
says that goroutines are scheduled, that the deadline passes and that a request
whose context is done fails; the API server owes no answer. `Viewport`,
`Table`,
`PodRequests`, `Aggregate` and `CommandLine` state no liveness. Quitting, and the end of a
computation, are the only states without a next step where deadlock is not
checked; `collector` and `table` check it.

### What the code does not keep

Five runs end in a counterexample, each against a line of the README of the
repository.

- `session_late`: the answer of a context that was left replaces snapshot and
  header of the one opened since (`app.go:206`). `HeaderMatchesSnapshot` still
  holds: all of the screen changes over. The same way a late error of the
  context left behind shows the context list to a user who is waiting for, or
  looking at, another one (`app.go:200`; the comment above it says "stay").
- `session_list`: `contextErr` is never cleared (`app.go:177`), so one failed
  reading of the kubeconfig hides every later list.
- `session_stale`: of two loads of one context the one that answers last stays on
  display, also if it was started first (`app.go:206`). With `--context` the
  first load runs without the loading flag, so `r` starts a second one.
- `viewport_up`: after a refresh with fewer rows up starts from a cursor below
  the last row and does not move the highlight (`app.go:399`).
- `table_backspace`: backspace drops a byte (`app.go:302`), so that half a
  character stays in the filter, which then matches nothing.

Two more were met while reading and need no run: the filter prompt ignores
`ctrl+c` (`app.go:292`), which the README says quits, and a long error may be cut
within a character (`app.go:416`).

## Proofs

All are by induction on steps, or about pure functions, with constants of any
size. Every invariant and every action property of a run that passes is stated
by a theorem. Assumptions are those named in the modules, and each states only
what a value of the program has by its type:

- `BoundsAssumption`, `PagesAssumption`, `MaxContainersAssumption`: bounds are
  numbers, and a list has at least one page;
- `NothingAssumption`, `NullAssumption`, `NoValueAssumption`: nil is none of the
  values in its place, and an absent number is no number;
- `LayoutAssumption`, `AmountsAssumption`, `TableAssumption`: heights, amounts
  and rows have the types of the code, and a page has at least one row;
- `NamesAssumption`: names are numbers, since the code only compares and orders
  them; `<none>` is neither a label nor a role; there are finitely many
  namespaces. Nodes and pods may be infinitely many, as only finitely many of
  them are read.

- `SessionProofs`. `Inv` is the type invariant with `ContextKnown` (a screen
  other than the list has a context) and the six invariants of the run. They
  need each other: that a load of `contextName` is under way (`LoadingIsReal`,
  `WaitingHasLoad`) survives the answer of another load only because that answer
  ends the loading and the waiting as well, and `PinnedStays` needs to know of
  every load in flight that it is of the pinned context. The action properties
  follow from `Inv` for one step.
- `CollectorProofs`. The central part of `Inv` is that what the snapshot holds
  is faithful to the answers of the goroutines that have stored them, that the
  counter of the wait group is the number of goroutines started and not done,
  and that the holder of the mutex is the only one in its critical section and
  has read `metricsE` as it is. `metricsE` names every failure that was stored
  once (`ReportedOnce`, kept by `AppendOnce`), so that at the end it is one of
  the promised `Listings` (`NamedOnce`). `OutcomeIsVerdict` then gives the
  refinement: at the return of `collect` its result is the verdict on the answers.
- `ViewportProofs`. The invariants follow from the types: `ScrollLemma` says
  what `scrollOffset` returns for any offset, `LayoutLemma` that the lines
  reserved for node groups are those drawn and leave the namespaces their five.
  `PagingTheorem` rests on `ScrollKeeps`, rendering does not scroll away from
  where a key has put the window, and on `ScrollPages`, a cursor that moves by a
  window moves the window by no more.
- `PodRequestsProofs`. `PeakReserved` speaks of the result only. `PeakKnown`
  makes it inductive: the peak is at every step the larger of the load and of
  `maxInit`, kind by kind. It needs amounts that are not negative: the peak of
  the init containers is forgotten when a sidecar overtakes it.
- `LibraryProofs`. What the other modules need of the libraries.
  - Sums over finite sets. `SumFunctionOnSet` of the community modules is a
    recursion over sets, and the induction rule of the proof library takes a
    predicate, which no prover here instantiates. `SubsetInduction` states the
    rule about a set of subsets instead, from which the recursion is shown to
    exist and `SumWithout`, `SumByClass` (the classes of a partition make up the
    whole) and `SumOfImage` (a set loses nothing when no two elements fall
    together) follow.
  - `StableSortSorts`: for a strict weak order the places (`Place`) are a
    bijection, so nothing is lost or doubled, and what ends up in front is
    smaller or, among equals, came first. `InFrontTotal` is why: position breaks
    the ties.
- `TableProofs`. `LessIsOrder`: each less function is a strict weak order, and
  leaves no two rows with different names undecided. Without the second half a
  refresh could reorder rows. `SortRowsSorts` applies `StableSortSorts`: the
  result is a permutation of the rows in a strict order.
  `Inv` is `TypeOK` with `OrderIsRight`. That names are unique is part of the
  types, since it settles the order; and `OrderIsRight` is about the rows as
  drawn, since the cached status is stale in general: `LessIgnoresStatus` says
  that it then does not matter. `StableTheorem` follows from the order before
  and after a step, `HighlightTheorem` from `SetProbe`.
- `AggregateProofs`. The sums of the run need each other and four more facts.
  `GroupsAreTheirNodes` is what lets a pod find the group of its node;
  `GroupsGetTheirPods` and `TotalsAddUp` hold together, since what a pod adds to
  the totals it adds to one group, or to what runs on nodes that are not listed.
  `PodsAreEntries` says that `cluster.Pods` has one entry for each pod that
  reserves something: were an entry equal to one that is there, a set would lose
  it, and the sums with it. `ReadSoFar` keeps the sums finite, and no pod is
  read before the last node. `OrderLists` (every group comes up once) makes
  `Before` total, so that `StableSortSorts` settles the order at the end
  (`Sorted`).
- `ReportProofs`. `CommandLineAggregates`: every step of the command is a step of
  `Aggregate` or leaves its state alone, so that the invariant above holds of the
  command as well. The four theorems about reports and exit codes rest on it.
  - `ScopesTheorem` and `GroupsMakeUpTheorem`: the rows of a report are the
    classes of the entries by group, by namespace, and by both (`SumByClass`),
    and entries stand one to one for pods (`SumOfImage`).
  - `FormatsTheorem`: `Listed` has each name or entry once (`ListedLists`), and
    header and cells of a CSV line say field by field (`Says`) what the row has,
    with a blank exactly for null. Two formats that each say the row say the same.
  - `ExitTheorem`: `ExitInv` adds that nothing is written and nothing asked
    before the end. A proper prefix of the lines never delivers the report
    (`PrefixDelivers`), so that exit code 0 is right only when the last line is
    out.

Only model-checked: liveness under fairness (`session_live`, and `Returns` in
`collector`), which the prover cannot express. Violations are shown by runs alone.
What `Collector` hands to `Aggregate` is neither: it is among the inputs of
`Aggregate`, which are all that a snapshot may hold.

## Not modelled

- Text: formatting, colours, column widths, the sort arrow, the logo, the help
  text, JSON and CSV syntax, the words of an error. No property is about them,
  and rendering keeps no state.
- Quantities: conversion of Kubernetes quantities, and overflow of 64-bit sums,
  which no cluster comes near.
- Which strings labels, roles and node names give: `Answers` has a name or none
  for each strategy.
- `client-go`, the metrics client, Bubble Tea, the kubelet: by what the code uses
  of them.
- The scale of units in reports (cores, GiB) and the rounding of floating point.
- Parsing of the configuration and of flags: only when it is an error.
- Two tables at once, and the row enter opens together with what arrives for it:
  `Session` and `Table` stay separate, as a product of their states is out of
  reach for TLC. What one needs of the other is in the inputs of each.

## Plan

1. Done: `Session`, `Collector` with `CollectPromise`, `Viewport`,
   `PodRequests`, `Aggregate`, `Report`, and their proofs.
2. Done: `StableSort`, `Sorting` and `Table` with proofs, the order of loads in
   `Session`, and `CommandLine` with the writers.
3. Done: the sums of `Aggregate` and `Report`, the formats and the exit codes as
   theorems.
4. Open: which columns `fitColumns` drops on a narrow terminal, as operators
   beside `Viewport`.
