---------------------------- MODULE SessionProofs ----------------------------
(* Theorems about Session, for any number of contexts and any bounds. *)
EXTENDS Session, TLAPS

\* Away from the context list, and while loading, there is a context.
ContextKnown == screen # "contexts" \/ loading => contextName \in Names

(***************************************************************************)
(* The inductive invariant.  PodsHaveSnapshot is what lets "esc" go from   *)
(* the pods to the namespaces without waiting; ContextKnown what makes the *)
(* load that "r" starts a load of some context.                            *)
(***************************************************************************)
Inv ==
  /\ TypeOK
  /\ ContextKnown
  /\ HeaderMatchesSnapshot
  /\ PodsHaveSnapshot
  /\ WaitingHasLoad
  /\ LoadingIsReal
  /\ PinnedStays
  /\ ListedIsProbed

LEMMA InvInit == Init => Inv
<1> SUFFICES ASSUME Init PROVE Inv
  OBVIOUS
<1> USE NothingAssumption, BoundsAssumption DEF Init
<1>1. TypeOK
  <2>1. /\ screen \in Screens /\ filter \in [Screens -> BOOLEAN]
        /\ filtering \in BOOLEAN /\ showHelp \in BOOLEAN /\ quit \in BOOLEAN
        /\ loading \in BOOLEAN /\ contextErr \in BOOLEAN
    BY DEF Screens
  <2>2. /\ pinned \in Maybe(Names) /\ contextName \in Maybe(Names)
        /\ cluster \in Maybe(Snapshots) /\ namespace \in Maybe(Namespaces)
        /\ errMsg \in Maybe(Names) /\ contexts \subseteq Names /\ probes \subseteq Names
    BY DEF Maybe
  <2>3. clusterMsgs \in [Names -> 0..MaxLoads] /\ probeMsgs \in [Names -> 0..MaxProbes]
    OBVIOUS
  <2>4. contextsMsgs \in 0..MaxLists /\ ticks \in 0..MaxTicks /\ older \in 0..MaxLoads
    OBVIOUS
  <2> QED BY <2>1, <2>2, <2>3, <2>4 DEF TypeOK
<1>2. ContextKnown /\ HeaderMatchesSnapshot /\ PodsHaveSnapshot /\ LoadingIsReal /\ ListedIsProbed
  BY DEF ContextKnown, HeaderMatchesSnapshot, PodsHaveSnapshot, LoadingIsReal, ListedIsProbed, Maybe
<1>3. WaitingHasLoad /\ PinnedStays
  BY DEF WaitingHasLoad, Waiting, PinnedStays, Maybe
<1> QED BY <1>1, <1>2, <1>3 DEF Inv


LEMMA InvNext == Inv /\ [Next]_vars => Inv'
<1> SUFFICES ASSUME Inv, [Next]_vars PROVE Inv'
  OBVIOUS
<1> USE NothingAssumption, BoundsAssumption DEF Inv, viewVars, listVars, dataVars, messageVars
<1> USE DEF TypeOK, ContextKnown, HeaderMatchesSnapshot, PodsHaveSnapshot, Waiting, WaitingHasLoad,
            LoadingIsReal, PinnedStays, ListedIsProbed, Maybe, Snapshots, Screens
<1>1. ASSUME NEW c \in Names, NEW i \in 1..MaxLoads, NEW names \in SUBSET Namespaces,
            ClusterLoaded(c, i, names) PROVE Inv'
  <2> USE <1>1 DEF ClusterLoaded, Receive, LoadingAfter
  <2>1. cluster' \in Snapshots /\ cluster' # Nothing /\ cluster'.context = c
    OBVIOUS
  <2>2. clusterMsgs' \in [Names -> 0..MaxLoads]
    OBVIOUS
  <2>7. cluster' \in Maybe(Snapshots) /\ contextName' \in Maybe(Names) /\ probes' \subseteq Names
    OBVIOUS
  <2>9. older' \in 0..MaxLoads
    OBVIOUS
  <2>8. TypeOK'
    BY <2>2, <2>7, <2>9
  <2>3. pinned # Nothing => c = pinned
    OBVIOUS
  <2>4. PinnedStays'
    BY <2>3
  <2>5. ContextKnown' /\ HeaderMatchesSnapshot' /\ PodsHaveSnapshot' /\ WaitingHasLoad'
    BY <2>1
  <2>6. LoadingIsReal' /\ ListedIsProbed'
    OBVIOUS
  <2> QED BY <2>4, <2>5, <2>6, <2>8
<1>2. ASSUME NEW c \in Names, NEW i \in 1..MaxLoads, ClusterFailed(c, i) PROVE Inv'
  <2> USE <1>2 DEF ClusterFailed, Receive, LoadingAfter, Shows, ScreenAfterFailure, ErrorAfterFailure
  <2>5. clusterMsgs' \in [Names -> 0..MaxLoads]
    OBVIOUS
  <2>6. screen' \in Screens /\ errMsg' \in Maybe(Names) /\ probes' \subseteq Names
    OBVIOUS
  <2>7. older' \in 0..MaxLoads
    OBVIOUS
  <2>1. TypeOK'
    BY <2>5, <2>6, <2>7
  <2>2. PinnedStays'
    OBVIOUS
  <2>3. ContextKnown' /\ HeaderMatchesSnapshot' /\ PodsHaveSnapshot' /\ WaitingHasLoad'
    OBVIOUS
  <2>4. LoadingIsReal' /\ ListedIsProbed'
    OBVIOUS
  <2> QED BY <2>1, <2>2, <2>3, <2>4
<1>3. ASSUME NEW items \in SUBSET Names, ContextsLoaded(items) PROVE Inv'
  BY <1>3 DEF ContextsLoaded, Probed
<1>4. CASE ContextsFailed
  BY <1>4 DEF ContextsFailed
<1>5. ASSUME NEW c \in Names, ProbeMsg(c) PROVE Inv'
  BY <1>5 DEF ProbeMsg
<1>6. CASE SpinnerMsg
  BY <1>6 DEF SpinnerMsg, TimersLeft
<1>7. CASE KeyQuit \/ KeyHelp \/ StartFilter
  <2>1. CASE KeyQuit
    BY <2>1 DEF KeyQuit, Press
  <2>2. CASE KeyHelp
    BY <2>2 DEF KeyHelp, Press
  <2>3. CASE StartFilter
    BY <2>3 DEF StartFilter, Press
  <2> QED BY <1>7, <2>1, <2>2, <2>3
<1>8. CASE KeyEsc
  <2>1. CASE CloseHelp
    BY <2>1 DEF CloseHelp, Press
  <2>2. CASE ClearFilter
    BY <2>2 DEF ClearFilter, Press
  <2>3. CASE BackToCluster
    BY <2>3 DEF BackToCluster, PressBack, Press
  <2>4. CASE BackToContexts
    BY <2>4 DEF BackToContexts, PressBack, Press
  <2>5. CASE BackQuits
    BY <2>5 DEF BackQuits, PressBack, Press
  <2> QED BY <1>8, <2>1, <2>2, <2>3, <2>4, <2>5 DEF KeyEsc
<1>9. ASSUME NEW c \in Names, OpenContext(c) PROVE Inv'
  BY <1>9 DEF OpenContext, StartLoad, StartTick, SnapshotOnOpen, Press
<1>10. ASSUME NEW n \in Namespaces, OpenNamespace(n) PROVE Inv'
  BY <1>10 DEF OpenNamespace, Press
<1>11. CASE RefreshContexts
  BY <1>11 DEF RefreshContexts, Press
<1>12. CASE RefreshCluster
  BY <1>12 DEF RefreshCluster, StartLoad, StartTick, Press
<1>13. ASSUME NEW on \in BOOLEAN, NEW more \in BOOLEAN, Prompt(on, more) PROVE Inv'
  BY <1>13 DEF Prompt
<1>14. CASE UNCHANGED vars
  BY <1>14 DEF vars
<1> QED
  <2>1. CASE SystemNext
    BY <2>1, <1>1, <1>2, <1>3, <1>4, <1>5, <1>6 DEF SystemNext, ClusterMsg, ContextsMsg
  <2>2. CASE UserNext
    <3>1. CASE FilterEdit \/ FilterEsc \/ FilterEnter
      BY <3>1, <1>13 DEF FilterEdit, FilterEsc, FilterEnter
    <3> QED BY <2>2, <3>1, <1>7, <1>8, <1>9, <1>10, <1>11, <1>12 DEF UserNext
  <2> QED BY <2>1, <2>2, <1>14 DEF Next

(***************************************************************************)
(* The invariants of the session, whatever the order in which answers and  *)
(* keys arrive.                                                            *)
(***************************************************************************)
THEOREM Invariant == Spec => []Inv
  BY InvInit, InvNext, PTL DEF Spec

\* Every variable keeps to the values the code may give it.
THEOREM TypeCorrect == Spec => []TypeOK
  BY Invariant, PTL DEF Inv

\* The header and the tables never belong to different contexts (clusterMsg, open).
THEOREM HeaderTheorem == Spec => []HeaderMatchesSnapshot
  BY Invariant, PTL DEF Inv

\* The pods screen is never without a snapshot or a namespace (open, back, clusterMsg).
THEOREM PodsTheorem == Spec => []PodsHaveSnapshot
  BY Invariant, PTL DEF Inv

\* A screen that waits for a snapshot has a load under way (open, refresh, clusterMsg).
THEOREM WaitingTheorem == Spec => []WaitingHasLoad
  BY Invariant, PTL DEF Inv

\* loading stands for a load under way and a running timer (clusterMsg, spinnerMsg).
THEOREM LoadingTheorem == Spec => []LoadingIsReal
  BY Invariant, PTL DEF Inv

\* A session started with --context never leaves it (clusterMsg, back).
THEOREM PinnedTheorem == Spec => []PinnedStays
  BY Invariant, PTL DEF Inv

\* A context in the list has a status or a probe under way (contextsMsg, probeMsg).
THEOREM ProbedTheorem == Spec => []ListedIsProbed
  BY Invariant, PTL DEF Inv

-----------------------------------------------------------------------------
(* What a step may not do *)

\* Answers only: a failure leaves the snapshot, and the screen if it is of
\* the context that failed.
LEMMA FailureStep ==
  ASSUME Inv, [Next]_vars, errMsg' # Nothing, clusterMsgs' # clusterMsgs
  PROVE  cluster' = cluster /\ (Shows(errMsg') => screen' = screen)
<1> USE NothingAssumption DEF viewVars, listVars, dataVars, messageVars
<1>1. ASSUME NEW c \in Names, ClusterMsg(c)
      PROVE  cluster' = cluster /\ (Shows(errMsg') => screen' = screen)
  BY <1>1 DEF ClusterMsg, ClusterLoaded, ClusterFailed, ErrorAfterFailure, ScreenAfterFailure, Shows
<1>2. CASE SystemNext
  <2>1. ASSUME NEW c \in Names, ProbeMsg(c) PROVE FALSE
    BY <2>1 DEF ProbeMsg
  <2>2. CASE ContextsMsg \/ SpinnerMsg
    BY <2>2 DEF ContextsMsg, ContextsFailed, ContextsLoaded, SpinnerMsg
  <2> QED BY <1>1, <1>2, <2>1, <2>2 DEF SystemNext
<1>3. ASSUME NEW c \in Names, OpenContext(c) PROVE FALSE
  BY <1>3 DEF OpenContext
<1>4. CASE RefreshCluster
  BY <1>4 DEF RefreshCluster
<1>5. CASE UserNext
  <2>1. CASE KeyEsc
    BY <2>1 DEF KeyEsc, CloseHelp, ClearFilter, BackToCluster, BackToContexts, BackQuits
  <2>2. CASE KeyQuit \/ KeyHelp \/ StartFilter \/ RefreshContexts
    BY <2>2 DEF KeyQuit, KeyHelp, StartFilter, RefreshContexts
  <2>3. CASE FilterEdit \/ FilterEsc \/ FilterEnter
    BY <2>3 DEF FilterEdit, FilterEsc, FilterEnter, Prompt
  <2>4. ASSUME NEW n \in Namespaces, OpenNamespace(n) PROVE FALSE
    BY <2>4 DEF OpenNamespace
  <2> QED BY <1>3, <1>4, <1>5, <2>1, <2>2, <2>3, <2>4 DEF UserNext
<1> QED BY <1>2, <1>5 DEF Next, vars

(***************************************************************************)
(* A failed load never costs the snapshot on display.                      *)
(***************************************************************************)
THEOREM FailureTheorem == Spec => FailureKeepsSnapshot
<1>1. Inv /\ [Next]_vars =>
        [errMsg' # Nothing /\ clusterMsgs' # clusterMsgs =>
           /\ cluster' = cluster
           /\ Shows(errMsg') => screen' = screen]_vars
  BY FailureStep
<1> QED BY <1>1, Invariant, PTL DEF Spec, FailureKeepsSnapshot

\* "enter" is the only way to a deeper screen.
LEMMA EnterStep ==
  ASSUME Inv, [Next]_vars, Depth[screen'] > Depth[screen]
  PROVE  ~filter'[screen'] /\ ~filtering'
<1> USE DEF Inv, TypeOK, Screens, Depth, viewVars, listVars, dataVars, messageVars
<1>1. ASSUME NEW c \in Names, OpenContext(c) PROVE ~filter'[screen'] /\ ~filtering'
  BY <1>1 DEF OpenContext, Press
<1>2. ASSUME NEW n \in Namespaces, OpenNamespace(n) PROVE ~filter'[screen'] /\ ~filtering'
  BY <1>2 DEF OpenNamespace, Press
<1>3. CASE SystemNext
  <2>1. ASSUME NEW c \in Names, ClusterMsg(c) PROVE screen' \in {screen, "contexts"}
    BY <2>1 DEF ClusterMsg, ClusterLoaded, ClusterFailed, ScreenAfterFailure
  <2>2. screen' = screen \/ \E c \in Names : ClusterMsg(c)
    BY <1>3 DEF SystemNext, ProbeMsg, ContextsMsg, ContextsFailed, ContextsLoaded, SpinnerMsg
  <2>3. screen' \in {screen, "contexts"}
    BY <2>1, <2>2
  <2>4. Depth[screen'] <= Depth[screen]
    BY <2>3
  <2>5. Depth[screen] \in Nat /\ Depth[screen'] \in Nat
    BY <2>3
  <2> QED BY <2>4, <2>5
<1>4. CASE KeyEsc
  BY <1>4 DEF KeyEsc, CloseHelp, ClearFilter, BackToCluster, BackToContexts, BackQuits
<1>5. CASE KeyQuit \/ KeyHelp \/ StartFilter \/ RefreshContexts \/ RefreshCluster
  BY <1>5 DEF KeyQuit, KeyHelp, StartFilter, RefreshContexts, RefreshCluster
<1>6. CASE FilterEdit \/ FilterEsc \/ FilterEnter
  BY <1>6 DEF FilterEdit, FilterEsc, FilterEnter, Prompt
<1> QED BY <1>1, <1>2, <1>3, <1>4, <1>5, <1>6 DEF Next, UserNext, vars

(***************************************************************************)
(* No screen is entered with a filter left over or the prompt open.        *)
(***************************************************************************)
THEOREM EnterTheorem == Spec => EnterStartsClean
<1>1. Inv /\ [Next]_vars => [Depth[screen'] > Depth[screen] => ~filter'[screen'] /\ ~filtering']_vars
  BY EnterStep
<1> QED BY <1>1, Invariant, PTL DEF Spec, EnterStartsClean

\* One step per thing that "esc" can close.
LEMMA EscStep ==
  ASSUME Inv, KeyEsc \/ FilterEsc
  PROVE  quit' \/ Rank' < Rank
<1> USE DEF Inv, TypeOK, Screens, Depth, Rank, Open
<1>1. CASE CloseHelp
  BY <1>1 DEF CloseHelp
<1>2. CASE ClearFilter
  BY <1>2 DEF ClearFilter
<1>3. CASE BackToCluster
  BY <1>3 DEF BackToCluster, PressBack
<1>4. CASE BackToContexts
  BY <1>4 DEF BackToContexts, PressBack
<1>5. CASE BackQuits
  BY <1>5 DEF BackQuits
<1>6. CASE FilterEsc
  BY <1>6 DEF FilterEsc, Prompt
<1> QED BY <1>1, <1>2, <1>3, <1>4, <1>5, <1>6 DEF KeyEsc

(***************************************************************************)
(* "esc" always closes something; Rank bounds how often it must be pressed *)
(* to quit.                                                                *)
(***************************************************************************)
THEOREM EscTheorem == Spec => EscCloses
<1>1. Inv /\ [Next]_vars => [KeyEsc \/ FilterEsc => quit' \/ Rank' < Rank]_vars
  BY EscStep
<1> QED BY <1>1, Invariant, PTL DEF Spec, EscCloses
=============================================================================
