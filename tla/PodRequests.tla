----------------------------- MODULE PodRequests -----------------------------
(***************************************************************************)
(* PodRequests (internal/kube/resources.go): one pass over the containers  *)
(* of a pod that computes what the pod reserves on its node.  The pod is   *)
(* chosen container by container as the loops reach them.  Beside the loop *)
(* runs what it stands for: the start of the pod as resources.go:24-27     *)
(* describes it, one container after the other, with the load at each      *)
(* moment and the highest load so far.                                     *)
(***************************************************************************)
EXTENDS Naturals, Resources

CONSTANTS
  Amounts,       \* the amounts a container, or the overhead, may request
  MaxContainers  \* bound: containers of one pod

ASSUME AmountsAssumption == Amounts \subseteq [Kinds -> Nat]
ASSUME MaxContainersAssumption == MaxContainers \in Nat

VARIABLES
  loop,      \* "init" and "main": the loop that runs, then "done"
  sidecars,  \* requests of the restartable init containers so far
  maxInit,   \* the largest need of an ordinary init container so far
  running,   \* requests of sidecars and regular containers so far
  total,     \* what PodRequests returns
  overhead,  \* pod.Spec.Overhead
  started,   \* containers seen
  load,      \* what the containers running now request
  peak       \* the highest load since the pod started

vars == <<loop, sidecars, maxInit, running, total, overhead, started, load, peak>>

Init ==
  /\ loop = "init"
  /\ sidecars = None /\ maxInit = None /\ running = None /\ total = None
  /\ overhead = None
  /\ started = 0 /\ load = None /\ peak = None

\* A container is started; it runs on (stays), or ends before the next one.
Start(r, stays) ==
  /\ started < MaxContainers
  /\ started' = started + 1
  /\ peak' = [k \in Kinds |-> IF peak[k] < load[k] + r[k] THEN load[k] + r[k] ELSE peak[k]]
  /\ load' = [k \in Kinds |-> load[k] + IF stays THEN r[k] ELSE 0]

\* A restartable init container.
Sidecar(r) ==
  /\ loop = "init"
  /\ sidecars' = Add(sidecars, r)
  /\ Start(r, TRUE)
  /\ UNCHANGED <<loop, maxInit, running, total, overhead>>

BugOrdinaryInit(r) == \* without the sidecars started before it
  /\ loop = "init"
  /\ maxInit' = MaxResources(maxInit, r)
  /\ Start(r, FALSE)
  /\ UNCHANGED <<loop, sidecars, running, total, overhead>>

\* An ordinary init container: with the sidecars that are already running.
OrdinaryInit(r) ==
  /\ loop = "init"
  /\ maxInit' = MaxResources(maxInit, Add(sidecars, r))
  /\ Start(r, FALSE)
  /\ UNCHANGED <<loop, sidecars, running, total, overhead>>

\* running := sidecars
InitDone ==
  /\ loop = "init"
  /\ loop' = "main"
  /\ running' = sidecars
  /\ UNCHANGED <<sidecars, maxInit, total, overhead, started, load, peak>>

Container(r) ==
  /\ loop = "main"
  /\ running' = Add(running, r)
  /\ Start(r, TRUE)
  /\ UNCHANGED <<loop, sidecars, maxInit, total, overhead>>

\* The result, with the overhead of the pod (None without one).
MainDone(o) ==
  /\ loop = "main"
  /\ loop' = "done"
  /\ overhead' = o
  /\ total' = Add(MaxResources(running, maxInit), o)
  /\ UNCHANGED <<sidecars, maxInit, running, started, load, peak>>

Next ==
  \/ \E r \in Amounts : Sidecar(r) \/ OrdinaryInit(r) \/ Container(r)
  \/ InitDone
  \/ \E o \in Amounts \cup {None} : MainDone(o)

Spec == Init /\ [][Next]_vars

-----------------------------------------------------------------------------
(* Properties *)

TypeOK ==
  /\ loop \in {"init", "main", "done"}
  /\ {sidecars, maxInit, running, total, overhead, load, peak} \subseteq [Kinds -> Nat]
  /\ started \in 0..MaxContainers

(***************************************************************************)
(* The pod reserves what it needs at its busiest moment, kind by kind, and *)
(* its overhead: no less than any moment of its start takes, whatever the  *)
(* order of sidecars and init containers, and no more than one of them.    *)
(***************************************************************************)
PeakReserved == loop = "done" => total = [k \in Kinds |-> peak[k] + overhead[k]]
=============================================================================
