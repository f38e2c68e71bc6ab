------------------------------- MODULE Session -------------------------------
(***************************************************************************)
(* The session of the terminal UI: internal/tui/app.go, the control part.  *)
(*                                                                         *)
(* Bubble Tea calls Update with one message at a time, so a step of this   *)
(* module is one call of Update.  The commands that Update returns run in  *)
(* goroutines of their own; each sends one message when it is done, in any *)
(* order.  A command in flight is counted in clusterMsgs, contextsMsgs,    *)
(* probeMsgs or ticks, and its result is chosen when its message arrives.  *)
(*                                                                         *)
(* A row of a table is named directly (the cursor and the order of the     *)
(* rows only decide which row "enter" takes: see Table), and a filter is   *)
(* abstracted to whether it is empty.  tea.Quit stops the program at once. *)
(* The loads of one context in flight are told apart by the order in which *)
(* they were started: load 1 is the oldest of them.                        *)
(***************************************************************************)
EXTENDS Integers, FiniteSets

CONSTANTS
  Names,       \* the contexts a kubeconfig may list
  Namespaces,  \* the namespaces a cluster may have
  Nothing,     \* no context, no namespace, no message, no cluster
  Keys,        \* the keys that are pressed in this instance
  MaxLoads,    \* bound: loads of one context in flight
  MaxLists,    \* bound: readings of the kubeconfig in flight
  MaxProbes,   \* bound: probes of one context in flight
  MaxTicks     \* bound: spinner timers running

ASSUME BoundsAssumption ==
  /\ MaxLoads \in Nat \ {0}
  /\ MaxLists \in Nat \ {0}
  /\ MaxProbes \in Nat \ {0}
  /\ MaxTicks \in Nat \ {0}

VARIABLES
  screen,       \* the screen shown
  pinned,       \* the context given with --context, or Nothing
  contexts,     \* the rows of the context list
  probes,       \* the contexts that have a status
  contextErr,   \* a reading of the kubeconfig failed
  cluster,      \* the snapshot on display, or Nothing
  contextName,  \* the context in the header
  namespace,    \* the namespace whose pods are shown, or Nothing
  loading,      \* the spinner is shown, and "r" is ignored
  errMsg,       \* the context whose failure is shown, or Nothing
  older,        \* history: loads of the context on display in flight that
                \* were started before the one that is on display
  filter,       \* for each screen: its table has a filter
  filtering,    \* keys go to the filter prompt
  showHelp,     \* the help text covers the screen
  quit,         \* tea.Quit was returned
  clusterMsgs,  \* for each context: loadClusterCmds in flight
  contextsMsgs, \* loadContextsCmds in flight
  probeMsgs,    \* for each context: probeContextCmds in flight
  ticks         \* spinner timers running

viewVars    == <<screen, namespace, filter, filtering, showHelp>>
listVars    == <<contexts, contextErr>>
dataVars    == <<cluster, contextName, loading, errMsg, older>>
messageVars == <<clusterMsgs, contextsMsgs, probeMsgs, ticks>>
vars == <<viewVars, listVars, dataVars, messageVars, probes, pinned, quit>>

Screens == {"contexts", "cluster", "pods"}

\* What a snapshot tells the session: whose it is, and what may be opened.
Snapshots == [context : Names, namespaces : SUBSET Namespaces]

ASSUME NothingAssumption == Nothing \notin Names \cup Namespaces \cup Snapshots

Maybe(S) == S \cup {Nothing}

TypeOK ==
  /\ screen \in Screens
  /\ pinned \in Maybe(Names)
  /\ contexts \subseteq Names
  /\ probes \subseteq Names
  /\ contextErr \in BOOLEAN
  /\ cluster \in Maybe(Snapshots)
  /\ contextName \in Maybe(Names)
  /\ namespace \in Maybe(Namespaces)
  /\ loading \in BOOLEAN
  /\ errMsg \in Maybe(Names)
  /\ older \in 0..MaxLoads
  /\ filter \in [Screens -> BOOLEAN]
  /\ filtering \in BOOLEAN
  /\ showHelp \in BOOLEAN
  /\ quit \in BOOLEAN
  /\ clusterMsgs \in [Names -> 0..MaxLoads]
  /\ contextsMsgs \in 0..MaxLists
  /\ probeMsgs \in [Names -> 0..MaxProbes]
  /\ ticks \in 0..MaxTicks

\* New and Init: with --context the first load starts with a spinner timer
\* but without loading, otherwise the kubeconfig is read.
Init ==
  /\ pinned \in Maybe(Names)
  /\ screen = IF pinned = Nothing THEN "contexts" ELSE "cluster"
  /\ contextName = pinned
  /\ clusterMsgs = [c \in Names |-> IF c = pinned THEN 1 ELSE 0]
  /\ ticks = IF pinned = Nothing THEN 0 ELSE 1
  /\ contextsMsgs = IF pinned = Nothing THEN 1 ELSE 0
  /\ contexts = {} /\ probes = {} /\ contextErr = FALSE
  /\ cluster = Nothing /\ namespace = Nothing
  /\ loading = FALSE /\ errMsg = Nothing /\ older = 0
  /\ filter = [s \in Screens |-> FALSE]
  /\ filtering = FALSE /\ showHelp = FALSE /\ quit = FALSE
  /\ probeMsgs = [c \in Names |-> 0]

-----------------------------------------------------------------------------
(* Commands and the messages they send.                                    *)
(* A definition named Bug... is the one after it with a plausible mistake; *)
(* a run with it in place must violate a property (see PROJECT.json).      *)

\* no second load while one is under way
BugStartLoad(c) ==
  /\ clusterMsgs[c] < MaxLoads
  /\ clusterMsgs' = IF loading THEN clusterMsgs ELSE [clusterMsgs EXCEPT ![c] = @ + 1]

\* loadClusterCmd returned for c.
StartLoad(c) ==
  /\ clusterMsgs[c] < MaxLoads
  /\ clusterMsgs' = [clusterMsgs EXCEPT ![c] = @ + 1]

\* spinnerTick returned.
StartTick ==
  /\ ticks < MaxTicks
  /\ ticks' = ticks + 1

\* two timers for one; none; always one
BugTwoTimers == IF loading THEN ticks + 1 ELSE ticks - 1
BugNoTimer == ticks - 1
BugTimerForever == ticks

\* The timers after one has fired: it is started again while loading.
TimersLeft == IF loading THEN ticks ELSE ticks - 1

\* only the first list is probed
BugProbed(items) == IF contexts = {} THEN items ELSE {}

\* The contexts probed when the kubeconfig lists items.
Probed(items) == items

Receive(c) ==
  /\ ~quit
  /\ clusterMsgs[c] > 0
  /\ clusterMsgs' = [clusterMsgs EXCEPT ![c] = @ - 1]

Shows(c) == cluster # Nothing /\ cluster.context = c

\* also without a list; also from the snapshot of c
BugLeavePinned(c) == IF ~Shows(c) THEN "contexts" ELSE screen
BugLeaveAlways(c) == IF pinned = Nothing THEN "contexts" ELSE screen

\* The screen once the load of c has failed: an error about another context
\* than the one on display leads back to the list, unless there is none.
ScreenAfterFailure(c) == IF ~Shows(c) /\ pinned = Nothing THEN "contexts" ELSE screen

\* only over a snapshot
BugErrorAfterFailure(c) == IF Shows(c) THEN c ELSE errMsg

\* The failure shown once the load of c has failed.
ErrorAfterFailure(c) == c

\* only for the context in the header
BugLoadingAfter(c) == IF c = contextName THEN FALSE ELSE loading

\* loading once the load of c is over.
LoadingAfter(c) == FALSE

\* the old one until the new one is there
BugSnapshotOnOpen == cluster

\* The snapshot on display when a context has been opened.
SnapshotOnOpen == Nothing

\* clusterMsg with a snapshot, the answer to the i-th of the loads of c.
ClusterLoaded(c, i, names) ==
  /\ Receive(c) /\ i <= clusterMsgs[c]
  /\ older' = i - 1
  /\ cluster' = [context |-> c, namespaces |-> names]
  /\ contextName' = c
  /\ loading' = LoadingAfter(c)
  /\ errMsg' = Nothing
  /\ probes' = probes \cup {c}
  /\ UNCHANGED <<viewVars, listVars, contextsMsgs, probeMsgs, ticks, pinned, quit>>

\* clusterMsg with an error, the answer to the i-th of the loads of c.
ClusterFailed(c, i) ==
  /\ Receive(c) /\ i <= clusterMsgs[c]
  /\ older' = IF Shows(c) /\ i <= older THEN older - 1 ELSE older
  /\ loading' = LoadingAfter(c)
  /\ errMsg' = ErrorAfterFailure(c)
  /\ probes' = probes \cup {c}
  /\ screen' = ScreenAfterFailure(c)
  /\ UNCHANGED <<namespace, filter, filtering, showHelp, listVars, cluster,
                 contextName, contextsMsgs, probeMsgs, ticks, pinned, quit>>

ClusterMsg(c) ==
  \E i \in 1..MaxLoads :
    \/ \E names \in SUBSET Namespaces : ClusterLoaded(c, i, names)
    \/ ClusterFailed(c, i)

\* contextsMsg with the contexts of the kubeconfig: a probe for each of them.
ContextsLoaded(items) ==
  /\ ~quit
  /\ contextsMsgs > 0
  /\ \A c \in Probed(items) : probeMsgs[c] < MaxProbes
  /\ contextsMsgs' = contextsMsgs - 1
  /\ contexts' = items
  /\ probeMsgs' = [c \in Names |-> probeMsgs[c] + IF c \in Probed(items) THEN 1 ELSE 0]
  /\ UNCHANGED <<viewVars, dataVars, contextErr, probes, clusterMsgs, ticks, pinned, quit>>

\* contextsMsg with an error.
ContextsFailed ==
  /\ ~quit
  /\ contextsMsgs > 0
  /\ contextsMsgs' = contextsMsgs - 1
  /\ contextErr' = TRUE
  /\ UNCHANGED <<viewVars, dataVars, contexts, probes, clusterMsgs, probeMsgs, ticks, pinned, quit>>

ContextsMsg == ContextsFailed \/ \E items \in SUBSET Names : ContextsLoaded(items)

\* probeMsg: reachable or not, the context has a status from now on.
ProbeMsg(c) ==
  /\ ~quit
  /\ probeMsgs[c] > 0
  /\ probeMsgs' = [probeMsgs EXCEPT ![c] = @ - 1]
  /\ probes' = probes \cup {c}
  /\ UNCHANGED <<viewVars, listVars, dataVars, clusterMsgs, contextsMsgs, ticks, pinned, quit>>

\* spinnerMsg: the timer is started again as long as something is loading.
SpinnerMsg ==
  /\ ~quit
  /\ ticks > 0
  /\ ticks' = TimersLeft
  /\ UNCHANGED <<viewVars, listVars, dataVars, probes, clusterMsgs, contextsMsgs, probeMsgs, pinned, quit>>

-----------------------------------------------------------------------------
(* Keys *)

Press(k) == k \in Keys /\ ~quit /\ ~filtering

KeyQuit ==
  /\ Press("q")
  /\ quit' = TRUE
  /\ UNCHANGED <<viewVars, listVars, dataVars, messageVars, probes, pinned>>

KeyHelp ==
  /\ Press("?")
  /\ showHelp' = ~showHelp
  /\ UNCHANGED <<screen, namespace, filter, filtering, listVars, dataVars, messageVars, probes, pinned, quit>>

BugCloseHelp == \* toggles the help text
  /\ Press("esc")
  /\ showHelp' = ~showHelp
  /\ UNCHANGED <<screen, namespace, filter, filtering, listVars, dataVars, messageVars, probes, pinned, quit>>

\* "esc", from the closest thing it can close to the farthest.
CloseHelp ==
  /\ Press("esc") /\ showHelp
  /\ showHelp' = FALSE
  /\ UNCHANGED <<screen, namespace, filter, filtering, listVars, dataVars, messageVars, probes, pinned, quit>>

ClearFilter ==
  /\ Press("esc") /\ ~showHelp /\ filter[screen]
  /\ filter' = [filter EXCEPT ![screen] = FALSE]
  /\ UNCHANGED <<screen, namespace, filtering, showHelp, listVars, dataVars, messageVars, probes, pinned, quit>>

PressBack == Press("esc") /\ ~showHelp /\ ~filter[screen]

BackToCluster ==
  /\ PressBack /\ screen = "pods"
  /\ screen' = "cluster"
  /\ namespace' = Nothing
  /\ filter' = [filter EXCEPT !["pods"] = FALSE]
  /\ UNCHANGED <<filtering, showHelp, listVars, dataVars, messageVars, probes, pinned, quit>>

BackToContexts ==
  /\ PressBack /\ screen = "cluster" /\ pinned = Nothing
  /\ screen' = "contexts"
  /\ errMsg' = Nothing
  /\ UNCHANGED <<namespace, filter, filtering, showHelp, listVars, cluster,
                 contextName, loading, older, messageVars, probes, pinned, quit>>

BackQuits ==
  /\ PressBack
  /\ screen = "contexts" \/ (screen = "cluster" /\ pinned # Nothing)
  /\ quit' = TRUE
  /\ UNCHANGED <<viewVars, listVars, dataVars, messageVars, probes, pinned>>

\* "esc" outside the filter prompt.
KeyEsc == CloseHelp \/ ClearFilter \/ BackToCluster \/ BackToContexts \/ BackQuits

\* "enter" on the row of context c.
OpenContext(c) ==
  /\ Press("enter") /\ screen = "contexts" /\ c \in contexts
  /\ contextName' = c
  /\ screen' = "cluster"
  /\ cluster' = SnapshotOnOpen
  /\ errMsg' = Nothing
  /\ loading' = TRUE
  /\ older' = 0
  /\ filter' = [filter EXCEPT !["cluster"] = FALSE]
  /\ StartLoad(c)
  /\ StartTick
  /\ UNCHANGED <<namespace, filtering, showHelp, listVars, contextsMsgs, probeMsgs, probes, pinned, quit>>

BugOpenNamespace(n) == \* keeps the filter of the pods
  /\ Press("enter") /\ screen = "cluster" /\ cluster # Nothing
  /\ n \in cluster.namespaces
  /\ namespace' = n
  /\ screen' = "pods"
  /\ UNCHANGED <<filter, filtering, showHelp, listVars, dataVars, messageVars, probes, pinned, quit>>

\* "enter" on the row of namespace n.
OpenNamespace(n) ==
  /\ Press("enter") /\ screen = "cluster" /\ cluster # Nothing
  /\ n \in cluster.namespaces
  /\ namespace' = n
  /\ screen' = "pods"
  /\ filter' = [filter EXCEPT !["pods"] = FALSE]
  /\ UNCHANGED <<filtering, showHelp, listVars, dataVars, messageVars, probes, pinned, quit>>

\* "r" on the context list.
RefreshContexts ==
  /\ Press("r") /\ screen = "contexts"
  /\ contextsMsgs < MaxLists
  /\ contextsMsgs' = contextsMsgs + 1
  /\ UNCHANGED <<viewVars, listVars, dataVars, clusterMsgs, probeMsgs, ticks, probes, pinned, quit>>

BugRefreshCluster == \* drops the snapshot to show the progress
  /\ Press("r") /\ screen # "contexts" /\ ~loading
  /\ loading' = TRUE
  /\ cluster' = Nothing /\ errMsg' = Nothing
  /\ StartLoad(contextName)
  /\ StartTick
  /\ UNCHANGED <<viewVars, listVars, contextName, older, contextsMsgs, probeMsgs, probes, pinned, quit>>

\* "r" on the screens of a cluster; ignored while something is loading.
RefreshCluster ==
  /\ Press("r") /\ screen # "contexts" /\ ~loading
  /\ loading' = TRUE
  /\ errMsg' = Nothing
  /\ StartLoad(contextName)
  /\ StartTick
  /\ UNCHANGED <<viewVars, listVars, cluster, contextName, older, contextsMsgs, probeMsgs, probes, pinned, quit>>

\* "/"
StartFilter ==
  /\ Press("/")
  /\ filtering' = TRUE
  /\ showHelp' = FALSE
  /\ UNCHANGED <<screen, namespace, filter, listVars, dataVars, messageVars, probes, pinned, quit>>

\* The filter prompt takes every key: typing and deleting change whether the
\* filter of the screen is empty, "esc" drops it, "enter" keeps it.
Prompt(on, more) ==
  /\ ~quit /\ filtering
  /\ filter' = [filter EXCEPT ![screen] = on]
  /\ filtering' = more
  /\ UNCHANGED <<screen, namespace, showHelp, listVars, dataVars, messageVars, probes, pinned, quit>>

FilterEdit  == \E on \in BOOLEAN : Prompt(on, TRUE)
FilterEsc   == Prompt(FALSE, FALSE)
FilterEnter == Prompt(filter[screen], FALSE)

-----------------------------------------------------------------------------
SystemNext ==
  \/ \E c \in Names : ClusterMsg(c) \/ ProbeMsg(c)
  \/ ContextsMsg
  \/ SpinnerMsg

UserNext ==
  \/ KeyQuit \/ KeyHelp \/ KeyEsc
  \/ \E c \in Names : OpenContext(c)
  \/ \E n \in Namespaces : OpenNamespace(n)
  \/ RefreshContexts \/ RefreshCluster
  \/ StartFilter \/ FilterEdit \/ FilterEsc \/ FilterEnter

Next == SystemNext \/ UserNext

Spec == Init /\ [][Next]_vars

\* Every command comes back: collections and probes have deadlines (30 s and
\* 8 s), the kubeconfig is a local file, a timer fires.  The user need not do
\* anything.
Fairness ==
  /\ \A c \in Names : WF_vars(ClusterMsg(c)) /\ WF_vars(ProbeMsg(c))
  /\ WF_vars(ContextsMsg)
  /\ WF_vars(SpinnerMsg)

FairSpec == Spec /\ Fairness
-----------------------------------------------------------------------------
(* Properties *)

(***************************************************************************)
(* The header names the context, the tables show the snapshot.  Answers of *)
(* several loads arrive in any order, and whichever is applied, the header *)
(* never names one context while the tables show another.                  *)
(***************************************************************************)
HeaderMatchesSnapshot == cluster # Nothing => cluster.context = contextName

(***************************************************************************)
(* The pods screen always has a snapshot and a namespace to show.          *)
(***************************************************************************)
PodsHaveSnapshot == screen = "pods" => cluster # Nothing /\ namespace # Nothing

(***************************************************************************)
(* A cluster screen without snapshot and without error is waiting for an   *)
(* answer that is really under way, even with the loads of contexts left   *)
(* behind answering in between: it never waits for nothing.                *)
(***************************************************************************)
Waiting == screen = "cluster" /\ cluster = Nothing /\ errMsg = Nothing
WaitingHasLoad == Waiting => clusterMsgs[contextName] > 0

(***************************************************************************)
(* While the spinner is shown (and "r" ignored) a load of the context in   *)
(* the header is under way and a timer turns the spinner.  One flag stands *)
(* for the loads of all contexts, started and answered in any order.       *)
(***************************************************************************)
LoadingIsReal == loading => clusterMsgs[contextName] > 0 /\ ticks > 0

(***************************************************************************)
(* Started with --context the session stays in that context: no failure,   *)
(* late answer or key shows the context list or another context.           *)
(***************************************************************************)
PinnedStays ==
  pinned # Nothing =>
    /\ screen # "contexts"
    /\ contextName = pinned
    /\ \A c \in Names : clusterMsgs[c] > 0 => c = pinned

(***************************************************************************)
(* No row of the context list says "checking..." without a probe under     *)
(* way, whatever the kubeconfig lists each time it is read.                *)
(***************************************************************************)
ListedIsProbed == \A c \in contexts : c \in probes \/ probeMsgs[c] > 0

(***************************************************************************)
(* A load that fails never takes the snapshot away, and when the snapshot  *)
(* is of the context that failed the user stays on the screen: a failed    *)
(* refresh costs nothing but the error message.                            *)
(***************************************************************************)
FailureKeepsSnapshot ==
  [][errMsg' # Nothing /\ clusterMsgs' # clusterMsgs =>
       /\ cluster' = cluster
       /\ Shows(errMsg') => screen' = screen]_vars

(***************************************************************************)
(* A screen opened with "enter" starts without a filter and with the       *)
(* prompt closed, also after an error threw the user out of a screen whose *)
(* filter was never cleared.                                               *)
(***************************************************************************)
Depth == [s \in Screens |-> CASE s = "contexts" -> 1 [] s = "cluster" -> 2 [] s = "pods" -> 3]

EnterStartsClean ==
  [][Depth[screen'] > Depth[screen] => ~filter'[screen'] /\ ~filtering']_vars

(***************************************************************************)
(* Every "esc" closes something: the prompt, the help text, a filter, a    *)
(* screen, at last the program.  What is open is counted by Rank, so no    *)
(* press is wasted and a bounded number of them always quits.              *)
(***************************************************************************)
Open(b) == IF b THEN 1 ELSE 0
Rank == Depth[screen] + Open(filter["contexts"]) + Open(showHelp) + Open(filtering)
        + Open(screen # "contexts" /\ filter["cluster"])
        + Open(screen = "pods" /\ filter["pods"])

EscCloses == [][KeyEsc \/ FilterEsc => quit' \/ Rank' < Rank]_vars

(***************************************************************************)
(* A cluster screen that waits is answered: by a snapshot, by an error, or *)
(* the user leaves.                                                        *)
(***************************************************************************)
WaitingEnds == Waiting ~> (~Waiting \/ quit)

(***************************************************************************)
(* Loading never stays on, so "r" always works again, even if contexts are *)
(* opened and left faster than their loads are answered.                   *)
(***************************************************************************)
LoadingEnds == []<>(~loading \/ quit)

(***************************************************************************)
(* Every context of the list eventually has a status.                      *)
(***************************************************************************)
ProbesEnd == \A c \in Names : c \in contexts ~> (c \in probes \/ c \notin contexts \/ quit)

(***************************************************************************)
(* When nothing is loaded any more all spinner timers run out for good,    *)
(* also those that several opens and refreshes started on top of each      *)
(* other.                                                                  *)
(***************************************************************************)
SpinnerStops == <>[]~loading => <>[](ticks = 0 \/ quit)

(***************************************************************************)
(* What the code does not keep.  README.md:142 gives the choice of the     *)
(* context to "enter"; the answer of a load left behind also makes it.     *)
(***************************************************************************)
OnlyEnterChangesContext ==
  [][screen # "contexts" /\ screen' # "contexts" => contextName' = contextName]_vars

(***************************************************************************)
(* README.md:144: "r" refreshes the current screen.  A list that is read   *)
(* after an earlier reading failed stays covered by the error of that one. *)
(***************************************************************************)
RefreshShowsList == [][contexts' # contexts => ~contextErr']_vars

(***************************************************************************)
(* README.md:144: "r" refreshes the current screen.  The answer of a load  *)
(* that was started earlier also replaces what a later one has brought.    *)
(***************************************************************************)
NeverOlder ==
  [][Shows(contextName) /\ Shows(contextName)' /\ contextName' = contextName /\ older' < older
       => errMsg' # Nothing]_vars
=============================================================================
