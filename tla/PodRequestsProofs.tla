-------------------------- MODULE PodRequestsProofs --------------------------
(***************************************************************************)
(* PodRequests reserves the peak of every pod: any number of containers,   *)
(* in any order, of any amounts of any kinds of resources.  PeakReserved   *)
(* speaks of the result only; that the loops' three sums determine the     *)
(* peak at every step (PeakKnown) makes it inductive.                      *)
(***************************************************************************)
EXTENDS PodRequests, TLAPS

Vectors == [Kinds -> Nat]

(***************************************************************************)
(* What the loops hold is enough to know the peak at every step: while the *)
(* init containers start it is that of the sidecars or of maxInit, later   *)
(* that of all running containers or of maxInit.                           *)
(***************************************************************************)
PeakKnown ==
  /\ load = IF loop = "init" THEN sidecars ELSE running
  /\ \A k \in Kinds : peak[k] = IF load[k] >= maxInit[k] THEN load[k] ELSE maxInit[k]

(***************************************************************************)
(* Sums and maxima of amounts are amounts (resource.go:18, 32).            *)
(***************************************************************************)
LEMMA ResourcesType ==
  ASSUME NEW a \in Vectors, NEW b \in Vectors
  PROVE  /\ Add(a, b) \in Vectors
         /\ MaxResources(a, b) \in Vectors
         /\ None \in Vectors
BY DEF Add, MaxResources, None, Vectors

Inv == TypeOK /\ PeakKnown /\ PeakReserved

LEMMA InitInv == Init => Inv
<1> SUFFICES ASSUME Init PROVE Inv
  OBVIOUS
<1>1. None \in Vectors /\ \A k \in Kinds : None[k] = 0
  BY DEF None, Vectors
<1>2. TypeOK
  BY <1>1, MaxContainersAssumption DEF Init, TypeOK, Vectors
<1>3. PeakKnown /\ PeakReserved
  BY <1>1 DEF Init, PeakKnown, PeakReserved
<1> QED
  BY <1>2, <1>3 DEF Inv

(***************************************************************************)
(* A container that starts: the load and the peak stay amounts.            *)
(***************************************************************************)
LEMMA StartType ==
  ASSUME TypeOK, NEW r \in Amounts, NEW stays \in BOOLEAN, Start(r, stays)
  PROVE  /\ started' \in 0..MaxContainers
         /\ load' \in Vectors /\ peak' \in Vectors
         /\ r \in Vectors
<1>1. r \in Vectors /\ load \in Vectors /\ peak \in Vectors
  BY AmountsAssumption DEF TypeOK, Vectors
<1>2. started' \in 0..MaxContainers
  BY MaxContainersAssumption DEF TypeOK, Start
<1>3. load' \in Vectors
  BY <1>1 DEF Start, Vectors
<1>4. peak' \in Vectors
  BY <1>1 DEF Start, Vectors
<1> QED
  BY <1>1, <1>2, <1>3, <1>4

LEMMA NextInv == Inv /\ [Next]_vars => Inv'
<1> SUFFICES ASSUME Inv, [Next]_vars PROVE Inv'
  OBVIOUS
<1> USE DEF Inv
<1>0. /\ sidecars \in Vectors /\ maxInit \in Vectors /\ running \in Vectors
      /\ total \in Vectors /\ overhead \in Vectors
      /\ load \in Vectors /\ peak \in Vectors
  BY DEF TypeOK, Vectors
<1>1. ASSUME NEW r \in Amounts, Sidecar(r) PROVE Inv'
  <2>1. Start(r, TRUE) /\ r \in Vectors
    BY <1>1, StartType DEF Sidecar
  <2>2. sidecars' \in Vectors
    BY <1>0, <1>1, <2>1, ResourcesType DEF Sidecar
  <2>3. TypeOK'
    BY <1>0, <1>1, <2>1, <2>2, StartType DEF Sidecar, TypeOK, Vectors
  <2>4. load' = sidecars'
    BY <1>0, <1>1, <2>1 DEF Sidecar, Start, Add, PeakKnown, Vectors
  <2>5. ASSUME NEW k \in Kinds
        PROVE  peak'[k] = IF load'[k] >= maxInit'[k] THEN load'[k] ELSE maxInit'[k]
    <3>1. load[k] \in Nat /\ maxInit[k] \in Nat /\ peak[k] \in Nat /\ r[k] \in Nat
      BY <1>0, <2>1 DEF Vectors
    <3>2. peak[k] = IF load[k] >= maxInit[k] THEN load[k] ELSE maxInit[k]
      BY DEF PeakKnown
    <3>3. /\ load'[k] = load[k] + r[k] /\ maxInit'[k] = maxInit[k]
          /\ peak'[k] = IF peak[k] < load[k] + r[k] THEN load[k] + r[k] ELSE peak[k]
      BY <1>1, <2>1 DEF Sidecar, Start
    <3> QED
      BY <3>1, <3>2, <3>3
  <2> QED
    BY <1>1, <2>3, <2>4, <2>5 DEF Sidecar, PeakKnown, PeakReserved
<1>2. ASSUME NEW r \in Amounts, OrdinaryInit(r) PROVE Inv'
  <2>1. Start(r, FALSE) /\ r \in Vectors /\ load = sidecars
    BY <1>2, StartType DEF OrdinaryInit, PeakKnown
  <2>2. maxInit' \in Vectors
    BY <1>0, <1>2, <2>1, ResourcesType DEF OrdinaryInit
  <2>3. TypeOK'
    BY <1>0, <1>2, <2>1, <2>2, StartType DEF OrdinaryInit, TypeOK, Vectors
  <2>4. load' = load
    BY <1>0, <2>1 DEF Start, Vectors
  <2>5. ASSUME NEW k \in Kinds
        PROVE  peak'[k] = IF load'[k] >= maxInit'[k] THEN load'[k] ELSE maxInit'[k]
    <3>1. load[k] \in Nat /\ maxInit[k] \in Nat /\ peak[k] \in Nat /\ r[k] \in Nat
      BY <1>0, <2>1 DEF Vectors
    <3>2. peak[k] = IF load[k] >= maxInit[k] THEN load[k] ELSE maxInit[k]
      BY DEF PeakKnown
    <3>3. /\ load'[k] = load[k]
          /\ maxInit'[k] = IF maxInit[k] >= load[k] + r[k] THEN maxInit[k] ELSE load[k] + r[k]
          /\ peak'[k] = IF peak[k] < load[k] + r[k] THEN load[k] + r[k] ELSE peak[k]
      BY <1>2, <2>1, <2>4 DEF OrdinaryInit, Start, Add, MaxResources
    <3> QED
      BY <3>1, <3>2, <3>3
  <2> QED
    BY <1>2, <2>1, <2>3, <2>4, <2>5 DEF OrdinaryInit, PeakKnown, PeakReserved
<1>3. ASSUME NEW r \in Amounts, Container(r) PROVE Inv'
  <2>1. Start(r, TRUE) /\ r \in Vectors /\ load = running
    BY <1>3, StartType DEF Container, PeakKnown
  <2>2. running' \in Vectors
    BY <1>0, <1>3, <2>1, ResourcesType DEF Container
  <2>3. TypeOK'
    BY <1>0, <1>3, <2>1, <2>2, StartType DEF Container, TypeOK, Vectors
  <2>4. load' = running'
    BY <1>0, <1>3, <2>1 DEF Container, Start, Add, Vectors
  <2>5. ASSUME NEW k \in Kinds
        PROVE  peak'[k] = IF load'[k] >= maxInit'[k] THEN load'[k] ELSE maxInit'[k]
    <3>1. load[k] \in Nat /\ maxInit[k] \in Nat /\ peak[k] \in Nat /\ r[k] \in Nat
      BY <1>0, <2>1 DEF Vectors
    <3>2. peak[k] = IF load[k] >= maxInit[k] THEN load[k] ELSE maxInit[k]
      BY DEF PeakKnown
    <3>3. /\ load'[k] = load[k] + r[k] /\ maxInit'[k] = maxInit[k]
          /\ peak'[k] = IF peak[k] < load[k] + r[k] THEN load[k] + r[k] ELSE peak[k]
      BY <1>3, <2>1 DEF Container, Start
    <3> QED
      BY <3>1, <3>2, <3>3
  <2> QED
    BY <1>3, <2>3, <2>4, <2>5 DEF Container, PeakKnown, PeakReserved
<1>4. CASE InitDone
  <2>1. TypeOK'
    BY <1>0, <1>4 DEF InitDone, TypeOK, Vectors
  <2>2. load' = running' /\ load' = load /\ peak' = peak /\ maxInit' = maxInit /\ loop' = "main"
    BY <1>4 DEF InitDone, PeakKnown
  <2> QED
    BY <2>1, <2>2 DEF PeakKnown, PeakReserved
<1>5. ASSUME NEW o \in Amounts \cup {None}, MainDone(o) PROVE Inv'
  <2>1. o \in Vectors
    BY <1>0, ResourcesType, AmountsAssumption DEF Vectors
  <2>2. /\ loop = "main" /\ loop' = "done" /\ overhead' = o
        /\ total' = Add(MaxResources(running, maxInit), o)
        /\ UNCHANGED <<sidecars, maxInit, running, started, load, peak>>
    BY <1>5 DEF MainDone
  <2>3. TypeOK'
    <3>1. total' \in Vectors
      BY <1>0, <2>1, <2>2, ResourcesType
    <3> QED
      BY <1>0, <2>1, <2>2, <3>1 DEF TypeOK, Vectors
  <2>4. PeakKnown'
    BY <2>2 DEF PeakKnown
  <2>5. total' = [k \in Kinds |-> peak'[k] + overhead'[k]]
    <3>1. ASSUME NEW k \in Kinds
          PROVE  MaxResources(running, maxInit)[k] = peak[k]
      BY <2>2 DEF PeakKnown, MaxResources
    <3> QED
      BY <2>2, <3>1 DEF Add
  <2> QED
    BY <2>3, <2>4, <2>5 DEF PeakReserved
<1>6. CASE UNCHANGED vars
  BY <1>6 DEF vars, TypeOK, PeakKnown, PeakReserved
<1> QED
  BY <1>1, <1>2, <1>3, <1>4, <1>5, <1>6 DEF Next

(***************************************************************************)
(* The result and the sums are amounts, never negative ones.               *)
(***************************************************************************)
THEOREM TypeCorrect == Spec => []TypeOK
<1>1. Inv => TypeOK
  BY DEF Inv
<1> QED
  BY <1>1, InitInv, NextInv, PTL DEF Spec

(***************************************************************************)
(* sidecars, maxInit and running determine the peak at every step.         *)
(***************************************************************************)
THEOREM PeakKnownTheorem == Spec => []PeakKnown
<1>1. Inv => PeakKnown
  BY DEF Inv
<1> QED
  BY <1>1, InitInv, NextInv, PTL DEF Spec

(***************************************************************************)
(* A pod reserves the load of its busiest moment, and its overhead.        *)
(***************************************************************************)
THEOREM PeakTheorem == Spec => []PeakReserved
<1>1. Inv => PeakReserved
  BY DEF Inv
<1> QED
  BY <1>1, InitInv, NextInv, PTL DEF Spec
=============================================================================
