--------------------------- MODULE CollectorProofs ---------------------------
(* Theorems about Collector, for lists of any number of pages. *)
EXTENDS Collector, TLAPS

\* A goroutine counts in the WaitGroup from Run to Done.
Counts(q) == IF pc[q] \in {"new", "done"} THEN 0 ELSE 1

Counted == wg = Counts("nodes") + Counts("pods") + Counts("nodeMetrics")
                + Counts("namespaces") + Counts("podMetrics")

\* The goroutines of a full collection stay unborn in an overview.
OnlyStarted == \A q \in Queries \ Started(detail) : pc[q] = "new"

\* An answer is known once the query is over, and is a whole list or none.
Answered ==
  \A q \in Queries :
    /\ pc[q] \in {"new", "query"} <=> answer[q] = "pending"
    /\ pc[q] = "new" => page[q] = 0
    /\ answer[q] = "pending" => page[q] < Pages[q]
    /\ answer[q] = "ok" => page[q] = Pages[q]
    /\ answer[q] = "failed" => page[q] = 0

\* The mutex guards the critical sections, and metricsE with them.
Guarded ==
  /\ \A q \in Queries : pc[q] \in {"locked", "stored"} <=> mu = q
  /\ \A q \in Queries : pc[q] = "locked" => read[q] = metricsE

Failed(q) == Stored(q) /\ answer[q] = "failed"

\* No failure is reported twice.
ReportedOnce == \A i, j \in 1..Len(metricsE) : metricsE[i] = metricsE[j] => i = j

\* What the snapshot holds is what the goroutines that stored have answered.
Faithful ==
  /\ \A q \in {"nodes", "pods"} : lists[q] = IF Stored(q) THEN page[q] ELSE 0
  /\ nodeErr <=> Failed("nodes")
  /\ podErr <=> Failed("pods")
  /\ known = {q \in Queries : Stored(q) /\ answer[q] = "ok"}
  /\ Errors = {q \in {"nodeMetrics", "podMetrics"} : Failed(q)}
  /\ ReportedOnce
  /\ warnings = {q \in {"namespaces"} : Failed(q)}

\* After the return nothing changes any more.
Final == result # Pending => result = Outcome /\ \A q \in Started(detail) : pc[q] = "done"

Inv == TypeOK /\ Counted /\ OnlyStarted /\ Answered /\ Guarded /\ Faithful /\ Final

LEMMA InvInit == Init => Inv
<1> SUFFICES ASSUME Init PROVE Inv
  OBVIOUS
<1> USE PagesAssumption DEF Init, Queries
<1>1. TypeOK
  <2>1. wg \in 0..5 /\ <<>> \in Seq(Queries)
    OBVIOUS
  <2> QED BY <2>1 DEF TypeOK, PCs
<1>2. Counted /\ OnlyStarted /\ Final
  BY DEF Counted, Counts, OnlyStarted, Started, Final
<1>5. Answered /\ Guarded
  BY DEF Answered, Guarded
<1>3. Errors = {}
  BY DEF Errors, Range
<1>6. ReportedOnce
  BY DEF ReportedOnce
<1>4. Faithful
  BY <1>3, <1>6 DEF Faithful, Failed, Stored
<1> QED BY <1>1, <1>2, <1>4, <1>5 DEF Inv

\* The range of a list that has grown by one.
LEMMA AppendRange ==
  ASSUME NEW s \in Seq(Queries), NEW q \in Queries
  PROVE  Range(Append(s, q)) = Range(s) \cup {q}
<1> DEFINE t == Append(s, q)
<1>1. DOMAIN t = 1..(Len(s) + 1) /\ DOMAIN s = 1..Len(s) /\ Len(s) \in Nat
  OBVIOUS
<1>2. (\A i \in 1..Len(s) : t[i] = s[i]) /\ t[Len(s) + 1] = q
  OBVIOUS
<1>3. \A e : (\E i \in 1..(Len(s) + 1) : e = t[i]) <=> (e = q \/ \E i \in 1..Len(s) : e = s[i])
  BY <1>1, <1>2
<1> QED BY <1>1, <1>3 DEF Range

\* What was not in a list before is named once by the list that ends in it.
LEMMA AppendOnce ==
  ASSUME NEW s \in Seq(Queries), NEW q \in Queries, q \notin Range(s),
         \A i, j \in 1..Len(s) : s[i] = s[j] => i = j
  PROVE  \A i, j \in 1..Len(Append(s, q)) : Append(s, q)[i] = Append(s, q)[j] => i = j
<1> DEFINE t == Append(s, q)
<1>1. Len(t) = Len(s) + 1 /\ Len(s) \in Nat /\ DOMAIN s = 1..Len(s)
  OBVIOUS
<1>2. (\A i \in 1..Len(s) : t[i] = s[i]) /\ t[Len(s) + 1] = q
  OBVIOUS
<1>3. \A i \in 1..Len(s) : s[i] # q
  BY <1>1 DEF Range
<1> HIDE DEF t
<1>4. \A i, j \in 1..Len(t) : t[i] = t[j] => i = j
  BY <1>1, <1>2, <1>3
<1> QED BY <1>4 DEF t

\* A step that stores nothing and leaves alone what stored goroutines answered.
StoresNothing ==
  /\ UNCHANGED snap
  /\ \A p \in Queries :
       /\ Stored(p)' <=> Stored(p)
       /\ Stored(p) => answer'[p] = answer[p] /\ page'[p] = page[p]

LEMMA FaithfulKept == Faithful /\ StoresNothing => Faithful'
<1> SUFFICES ASSUME Faithful, StoresNothing PROVE Faithful'
  OBVIOUS
<1> USE DEF StoresNothing
<1>1. Errors' = Errors
  BY DEF Errors, snap
<1>2. ASSUME NEW p \in Queries
      PROVE  /\ Failed(p)' <=> Failed(p)
             /\ (Stored(p) /\ answer[p] = "ok")' <=> Stored(p) /\ answer[p] = "ok"
             /\ (IF Stored(p) THEN page[p] ELSE 0)' = IF Stored(p) THEN page[p] ELSE 0
  BY DEF Failed, Stored
<1>3. known' = {q \in Queries : Stored(q) /\ answer[q] = "ok"}'
  BY <1>2 DEF Faithful, snap
<1>4. Errors' = {q \in {"nodeMetrics", "podMetrics"} : Failed(q)}'
  BY <1>1, <1>2 DEF Faithful, Queries
<1>5. warnings' = {q \in {"namespaces"} : Failed(q)}'
  BY <1>2 DEF Faithful, Queries, snap
<1>6. (nodeErr <=> Failed("nodes"))' /\ (podErr <=> Failed("pods"))'
  BY <1>2 DEF Faithful, Queries, snap
<1>7. (\A q \in {"nodes", "pods"} : lists[q] = IF Stored(q) THEN page[q] ELSE 0)'
  BY <1>2 DEF Faithful, Queries, snap
<1>8. ReportedOnce'
  BY DEF Faithful, ReportedOnce, snap
<1> QED BY <1>3, <1>4, <1>5, <1>6, <1>7, <1>8 DEF Faithful

\* A goroutine that moves counts as its place does, and no other one moves.
LEMMA CountedMoves ==
  ASSUME TypeOK, Counted, NEW q \in Queries, NEW to, pc' = [pc EXCEPT ![q] = to],
         wg' = wg - Counts(q) + (IF to \in {"new", "done"} THEN 0 ELSE 1)
  PROVE  Counted'
<1> DEFINE c == [p \in Queries |-> Counts(p)]
           d == [p \in Queries |-> Counts(p)']
           n == IF to \in {"new", "done"} THEN 0 ELSE 1
<1>1. /\ \A p \in Queries : c[p] \in 0..1
      /\ \A p \in Queries \ {q} : d[p] = c[p]
      /\ d[q] = n /\ n \in 0..1
  BY DEF Counts, TypeOK
<1>2. wg = c["nodes"] + c["pods"] + c["nodeMetrics"] + c["namespaces"] + c["podMetrics"]
  BY DEF Counted, Queries
<1>3. wg' = wg - c[q] + n
  OBVIOUS
<1> HIDE DEF c, d, n
<1>4. /\ d["nodes"] = (IF q = "nodes" THEN n ELSE c["nodes"]) /\ c["nodes"] \in 0..1
      /\ d["pods"] = (IF q = "pods" THEN n ELSE c["pods"]) /\ c["pods"] \in 0..1
      /\ d["nodeMetrics"] = (IF q = "nodeMetrics" THEN n ELSE c["nodeMetrics"]) /\ c["nodeMetrics"] \in 0..1
      /\ d["namespaces"] = (IF q = "namespaces" THEN n ELSE c["namespaces"]) /\ c["namespaces"] \in 0..1
      /\ d["podMetrics"] = (IF q = "podMetrics" THEN n ELSE c["podMetrics"]) /\ c["podMetrics"] \in 0..1
  BY <1>1 DEF Queries
<1>5. q \in {"nodes", "pods", "nodeMetrics", "namespaces", "podMetrics"} /\ n \in 0..1
  BY <1>1 DEF Queries
<1>6. wg' = d["nodes"] + d["pods"] + d["nodeMetrics"] + d["namespaces"] + d["podMetrics"]
  BY <1>2, <1>3, <1>4, <1>5
<1> QED BY <1>6 DEF Counted, Queries, d

LEMMA OutcomeKept == UNCHANGED snap => Outcome' = Outcome
  BY DEF Outcome, snap

LEMMA InvNext == Inv /\ [Next]_vars => Inv'
<1> SUFFICES ASSUME Inv, [Next]_vars PROVE Inv'
  OBVIOUS
<1> USE PagesAssumption DEF Inv, snap
<1>1. ASSUME NEW q \in Started(detail), Run(q) PROVE Inv'
  <2>0. /\ q \in Queries /\ result = Pending
        /\ pc[q] = "new" /\ pc' = [pc EXCEPT ![q] = "query"] /\ wg' = wg + 1
        /\ UNCHANGED <<detail, page, answer, read, mu, expired, snap, result>>
    BY <1>1 DEF Run, Goto, Add, Started, Queries, Final
  <2>1. Counted'
    <3>1. Counts(q) = 0 /\ pc' = [pc EXCEPT ![q] = "query"] /\ wg' = wg - 0 + 1
      BY <2>0 DEF Counts, TypeOK
    <3> QED BY <2>0, <3>1, CountedMoves
  <2>8. wg' \in 0..5
    BY <2>1 DEF Counted, Counts
  <2>2. TypeOK'
    BY <2>0, <2>8 DEF TypeOK, PCs
  <2>3. OnlyStarted'
    BY <2>0 DEF OnlyStarted, TypeOK
  <2>4. Answered'
    BY <2>0 DEF Answered, TypeOK
  <2>5. Guarded'
    BY <2>0 DEF Guarded, TypeOK, Queries
  <2>6. Faithful'
    <3>1. StoresNothing
      BY <2>0 DEF StoresNothing, Stored, TypeOK
    <3> QED BY <3>1, FaithfulKept
  <2>7. Final'
    BY <2>0 DEF Final
  <2> QED BY <2>1, <2>2, <2>3, <2>4, <2>5, <2>6, <2>7
<1>2. ASSUME NEW q \in Started(detail), PageOk(q) PROVE Inv'
  <2> USE <1>2 DEF PageOk, Goto, More
  <2>0. q \in Queries /\ result = Pending
    BY DEF Started, Queries, Final
  <2>1. Counted'
    <3>1. CASE More(q)
      BY <3>1 DEF Counted, Counts
    <3>2. CASE ~More(q)
      <4>1. Counts(q) = 1 /\ pc' = [pc EXCEPT ![q] = "answered"] /\ wg' = wg - 1 + 1
        BY <2>0, <3>2 DEF Counts, TypeOK
      <4> QED BY <2>0, <4>1, CountedMoves
    <3> QED BY <3>1, <3>2
  <2>8. wg' \in 0..5
    BY <2>1 DEF Counted, Counts
  <2>9. page' \in [Queries -> Nat]
    BY <2>0 DEF TypeOK
  <2>10. pc' \in [Queries -> PCs] /\ answer' \in [Queries -> {"pending", "ok", "failed"}]
    <3>1. CASE More(q)
      BY <3>1 DEF TypeOK
    <3>2. CASE ~More(q)
      BY <3>2, <2>0 DEF TypeOK, PCs
    <3> QED BY <3>1, <3>2
  <2>2. TypeOK'
    BY <2>8, <2>9, <2>10 DEF TypeOK
  <2>3. OnlyStarted'
    BY <2>0 DEF OnlyStarted, TypeOK
  <2>4. Answered'
    BY <2>0 DEF Answered, TypeOK
  <2>5. Guarded'
    BY <2>0 DEF Guarded, TypeOK, Queries
  <2>6. Faithful'
    <3>1. StoresNothing
      BY <2>0 DEF StoresNothing, Stored, TypeOK
    <3> QED BY <3>1, FaithfulKept
  <2>7. Final'
    BY <2>0 DEF Final
  <2> QED BY <2>1, <2>2, <2>3, <2>4, <2>5, <2>6, <2>7
<1>3. ASSUME NEW q \in Started(detail), Fail(q) PROVE Inv'
  <2> USE <1>3 DEF Fail, Goto
  <2>0. q \in Queries /\ result = Pending
    BY DEF Started, Queries, Final
  <2>1. Counted'
    <3>1. Counts(q) = 1 /\ pc' = [pc EXCEPT ![q] = "answered"] /\ wg' = wg - 1 + 1
      BY <2>0 DEF Counts, TypeOK
    <3> QED BY <2>0, <3>1, CountedMoves
  <2>8. wg' \in 0..5
    BY <2>1 DEF Counted, Counts
  <2>2. TypeOK'
    BY <2>0, <2>8 DEF TypeOK, PCs
  <2>3. OnlyStarted'
    BY <2>0 DEF OnlyStarted, TypeOK
  <2>4. Answered'
    BY <2>0 DEF Answered, TypeOK
  <2>5. Guarded'
    BY <2>0 DEF Guarded, TypeOK, Queries
  <2>6. Faithful'
    <3>1. StoresNothing
      BY <2>0 DEF StoresNothing, Stored, TypeOK
    <3> QED BY <3>1, FaithfulKept
  <2>7. Final'
    BY <2>0 DEF Final
  <2> QED BY <2>1, <2>2, <2>3, <2>4, <2>5, <2>6, <2>7
<1>4. ASSUME NEW q \in Started(detail), Lock(q) PROVE Inv'
  <2> USE <1>4 DEF Lock, Goto, Free
  <2>0. q \in Queries /\ result = Pending
    BY DEF Started, Queries, Final
  <2>1. Counted'
    <3>1. Counts(q) = 1 /\ pc' = [pc EXCEPT ![q] = "locked"] /\ wg' = wg - 1 + 1
      BY <2>0 DEF Counts, TypeOK
    <3> QED BY <2>0, <3>1, CountedMoves
  <2>8. wg' \in 0..5
    BY <2>1 DEF Counted, Counts
  <2>2. TypeOK'
    BY <2>0, <2>8 DEF TypeOK, PCs
  <2>3. OnlyStarted'
    BY <2>0 DEF OnlyStarted, TypeOK
  <2>4. Answered'
    BY <2>0 DEF Answered, TypeOK
  <2>5. Guarded'
    BY <2>0 DEF Guarded, TypeOK, Queries
  <2>6. Faithful'
    <3>1. StoresNothing
      BY <2>0 DEF StoresNothing, Stored, TypeOK
    <3> QED BY <3>1, FaithfulKept
  <2>7. Final'
    BY <2>0 DEF Final
  <2> QED BY <2>1, <2>2, <2>3, <2>4, <2>5, <2>6, <2>7
<1>5. ASSUME NEW q \in Started(detail), Store(q) PROVE Inv'
  <2>0. /\ q \in Queries /\ result = Pending
        /\ pc[q] = "locked" /\ pc' = [pc EXCEPT ![q] = "stored"]
        /\ known' = IF answer[q] = "ok" THEN known \cup {q} ELSE known
        /\ UNCHANGED <<detail, page, answer, read, mu, wg, expired, result>>
    BY <1>5 DEF Store, Goto, Started, Queries, Final
  <2>12. Counted' /\ wg' \in 0..5
    <3>1. Counts(q) = 1 /\ wg' = wg - 1 + 1 /\ wg' \in 0..5
      BY <2>0 DEF Counts, TypeOK
    <3> QED BY <2>0, <3>1, CountedMoves
  <2>13. OnlyStarted' /\ Answered'
    BY <2>0 DEF OnlyStarted, Answered, TypeOK
  <2>1. Counted' /\ OnlyStarted' /\ Answered' /\ wg' \in 0..5
    BY <2>12, <2>13
  <2>2. read[q] = metricsE
    BY <2>0 DEF Guarded
  <2>3. Guarded'
    BY <2>0 DEF Guarded, TypeOK, Queries
  <2>4. \A p \in Queries : Failed(p)' <=> Failed(p) \/ (p = q /\ answer[q] = "failed")
    BY <2>0 DEF Failed, Stored, TypeOK
  <2>5. known' = {p \in Queries : Stored(p) /\ answer[p] = "ok"}'
    BY <2>0 DEF Faithful, Stored, TypeOK
  <2>6. ~Stored(q) /\ ~Failed(q) /\ \A p \in Queries \ {q} : Stored(p)' <=> Stored(p)
    BY <2>0 DEF Stored, Failed, TypeOK
  <2>7. Stored(q)'
    BY <2>0 DEF Stored, TypeOK
  <2>8. CASE q = "nodes" /\ StoreNodes
    <3>1. Errors' = Errors
      BY <2>8 DEF StoreNodes, Errors
    <3>8. ReportedOnce'
      BY <2>8 DEF StoreNodes, Faithful, ReportedOnce
    <3>2. TypeOK'
      BY <2>8, <2>0, <2>1 DEF StoreNodes, TypeOK, PCs
    <3>4. (\A p \in {"nodes", "pods"} : lists[p] = IF Stored(p) THEN page[p] ELSE 0)'
      BY <2>8, <2>0 DEF StoreNodes, Faithful, Stored, Queries, TypeOK
    <3>5. (nodeErr <=> Failed("nodes"))' /\ (podErr <=> Failed("pods"))'
      BY <2>8, <2>0 DEF StoreNodes, Faithful, Failed, Stored, Queries, TypeOK
    <3>6. (Errors = {p \in {"nodeMetrics", "podMetrics"} : Failed(p)})'
      BY <2>8, <2>0, <3>1 DEF Faithful, Failed, Stored, Queries, TypeOK
    <3>7. (warnings = {p \in {"namespaces"} : Failed(p)})'
      BY <2>8, <2>0 DEF StoreNodes, Faithful, Failed, Stored, Queries, TypeOK
    <3>3. Faithful'
      BY <2>5, <3>4, <3>5, <3>6, <3>7, <3>8 DEF Faithful
    <3> QED BY <2>0, <2>1, <2>3, <3>2, <3>3 DEF Final
  <2>9. CASE q = "pods" /\ StorePods
    <3>1. Errors' = Errors
      BY <2>9 DEF StorePods, Errors
    <3>8. ReportedOnce'
      BY <2>9 DEF StorePods, Faithful, ReportedOnce
    <3>2. TypeOK'
      BY <2>9, <2>0, <2>1 DEF StorePods, TypeOK, PCs
    <3>4. (\A p \in {"nodes", "pods"} : lists[p] = IF Stored(p) THEN page[p] ELSE 0)'
      BY <2>9, <2>0 DEF StorePods, Faithful, Stored, Queries, TypeOK
    <3>5. (nodeErr <=> Failed("nodes"))' /\ (podErr <=> Failed("pods"))'
      BY <2>9, <2>0 DEF StorePods, Faithful, Failed, Stored, Queries, TypeOK
    <3>6. (Errors = {p \in {"nodeMetrics", "podMetrics"} : Failed(p)})'
      BY <2>9, <2>0, <3>1 DEF Faithful, Failed, Stored, Queries, TypeOK
    <3>7. (warnings = {p \in {"namespaces"} : Failed(p)})'
      BY <2>9, <2>0 DEF StorePods, Faithful, Failed, Stored, Queries, TypeOK
    <3>3. Faithful'
      BY <2>5, <3>4, <3>5, <3>6, <3>7, <3>8 DEF Faithful
    <3> QED BY <2>0, <2>1, <2>3, <3>2, <3>3 DEF Final
  <2>10. CASE q \in {"nodeMetrics", "podMetrics"} /\ StoreMetrics(q)
    <3>1. Errors' = IF answer[q] = "failed" THEN Errors \cup {q} ELSE Errors
      <4>1. CASE answer[q] = "failed"
        <5>1. metricsE' = Append(metricsE, q) /\ metricsE \in Seq(Queries)
          BY <2>10, <2>2, <4>1 DEF StoreMetrics, TypeOK
        <5> QED BY <5>1, <4>1, <2>0, AppendRange DEF Errors
      <4>2. CASE answer[q] # "failed"
        BY <2>10, <4>2 DEF StoreMetrics, Errors
      <4> QED BY <4>1, <4>2
    <3>2. metricsE' \in Seq(Queries)
      BY <2>10, <2>0, <2>2 DEF StoreMetrics, TypeOK
    <3>3. TypeOK'
      BY <2>10, <2>0, <2>1, <3>2 DEF StoreMetrics, TypeOK, PCs
    <3>4. Errors' = {p \in {"nodeMetrics", "podMetrics"} : Failed(p)}'
      BY <2>10, <2>0, <2>4, <2>6, <3>1 DEF Faithful, Queries
    <3>6. ReportedOnce'
      <4>1. q \notin Errors
        BY <2>6 DEF Faithful
      <4>2. CASE answer[q] = "failed"
        <5>1. metricsE' = Append(metricsE, q) /\ metricsE \in Seq(Queries)
          BY <2>10, <2>2, <4>2 DEF StoreMetrics, TypeOK
        <5> QED BY <5>1, <4>1, <2>0, AppendOnce DEF Errors, ReportedOnce, Faithful
      <4>3. CASE answer[q] # "failed"
        BY <2>10, <4>3 DEF StoreMetrics, Faithful, ReportedOnce
      <4> QED BY <4>2, <4>3
    <3>5. (\A p \in {"nodes", "pods"} : lists[p] = IF Stored(p) THEN page[p] ELSE 0)'
      <4>1. \A p \in {"nodes", "pods"} : p \in Queries \ {q} /\ lists'[p] = lists[p] /\ page'[p] = page[p]
        BY <2>10, <2>0 DEF StoreMetrics, Queries
      <4> QED BY <2>6, <4>1 DEF Faithful
    <3>7. (nodeErr <=> Failed("nodes"))' /\ (podErr <=> Failed("pods"))'
      <4>1. \A p \in {"nodes", "pods"} : Failed(p)' <=> Failed(p)
        BY <2>10, <2>4 DEF Queries
      <4> QED BY <2>10, <4>1 DEF StoreMetrics, Faithful
    <3>8. (warnings = {p \in {"namespaces"} : Failed(p)})'
      <4>1. Failed("namespaces")' <=> Failed("namespaces")
        BY <2>10, <2>4 DEF Queries
      <4> QED BY <2>10, <4>1 DEF StoreMetrics, Faithful
    <3>9. Faithful'
      BY <2>5, <3>4, <3>5, <3>6, <3>7, <3>8 DEF Faithful
    <3> QED BY <2>0, <2>1, <2>3, <3>3, <3>9 DEF Final
  <2>11. CASE q = "namespaces" /\ StoreNamespaces
    <3>1. Errors' = Errors
      BY <2>11 DEF StoreNamespaces, Errors
    <3>8. ReportedOnce'
      BY <2>11 DEF StoreNamespaces, Faithful, ReportedOnce
    <3>2. TypeOK'
      BY <2>11, <2>0, <2>1 DEF StoreNamespaces, TypeOK, PCs
    <3>4. (\A p \in {"nodes", "pods"} : lists[p] = IF Stored(p) THEN page[p] ELSE 0)'
      BY <2>11, <2>0 DEF StoreNamespaces, Faithful, Stored, Queries, TypeOK
    <3>5. (nodeErr <=> Failed("nodes"))' /\ (podErr <=> Failed("pods"))'
      BY <2>11, <2>0 DEF StoreNamespaces, Faithful, Failed, Stored, Queries, TypeOK
    <3>6. (Errors = {p \in {"nodeMetrics", "podMetrics"} : Failed(p)})'
      BY <2>11, <2>0, <3>1 DEF Faithful, Failed, Stored, Queries, TypeOK
    <3>7. (warnings = {p \in {"namespaces"} : Failed(p)})'
      BY <2>11, <2>0 DEF StoreNamespaces, Faithful, Failed, Stored, Queries, TypeOK
    <3>3. Faithful'
      BY <2>5, <3>4, <3>5, <3>6, <3>7, <3>8 DEF Faithful
    <3> QED BY <2>0, <2>1, <2>3, <3>2, <3>3 DEF Final
  <2> QED BY <1>5, <2>8, <2>9, <2>10, <2>11 DEF Store
<1>6. ASSUME NEW q \in Started(detail), Unlock(q) PROVE Inv'
  <2> USE <1>6 DEF Unlock, Goto, Released
  <2>0. q \in Queries /\ result = Pending
    BY DEF Started, Queries, Final
  <2>1. Counted'
    <3>1. Counts(q) = 1 /\ pc' = [pc EXCEPT ![q] = "unlocked"] /\ wg' = wg - 1 + 1
      BY <2>0 DEF Counts, TypeOK
    <3> QED BY <2>0, <3>1, CountedMoves
  <2>8. wg' \in 0..5
    BY <2>1 DEF Counted, Counts
  <2>2. TypeOK'
    BY <2>0, <2>8 DEF TypeOK, PCs
  <2>3. OnlyStarted'
    BY <2>0 DEF OnlyStarted, TypeOK
  <2>4. Answered'
    BY <2>0 DEF Answered, TypeOK
  <2>5. Guarded'
    BY <2>0 DEF Guarded, TypeOK, Queries
  <2>6. Faithful'
    <3>1. StoresNothing
      BY <2>0 DEF StoresNothing, Stored, TypeOK
    <3> QED BY <3>1, FaithfulKept
  <2>7. Final'
    BY <2>0 DEF Final
  <2> QED BY <2>1, <2>2, <2>3, <2>4, <2>5, <2>6, <2>7
<1>7. ASSUME NEW q \in Started(detail), Done(q) PROVE Inv'
  <2> USE <1>7 DEF Done, Goto
  <2>0. q \in Queries /\ result = Pending
    BY DEF Started, Queries, Final
  <2>1. Counted'
    <3>1. Counts(q) = 1 /\ pc' = [pc EXCEPT ![q] = "done"] /\ wg' = wg - 1 + 0
      BY <2>0 DEF Counts, TypeOK
    <3> QED BY <2>0, <3>1, CountedMoves
  <2>8. wg' \in 0..5
    BY <2>1 DEF Counted, Counts
  <2>2. TypeOK'
    BY <2>0, <2>8 DEF TypeOK, PCs
  <2>3. OnlyStarted'
    BY <2>0 DEF OnlyStarted, TypeOK
  <2>4. Answered'
    BY <2>0 DEF Answered, TypeOK
  <2>5. Guarded'
    BY <2>0 DEF Guarded, TypeOK, Queries
  <2>6. Faithful'
    <3>1. StoresNothing
      BY <2>0 DEF StoresNothing, Stored, TypeOK
    <3> QED BY <3>1, FaithfulKept
  <2>7. Final'
    BY <2>0 DEF Final
  <2> QED BY <2>1, <2>2, <2>3, <2>4, <2>5, <2>6, <2>7
<1>8. CASE Expire
  <2> USE <1>8 DEF Expire
  <2>1. TypeOK' /\ Counted' /\ OnlyStarted'
    BY DEF TypeOK, Counted, Counts, OnlyStarted
  <2>2. Answered' /\ Guarded'
    BY DEF Answered, Guarded
  <2>3. Faithful'
    <3>1. StoresNothing
      BY DEF StoresNothing, Stored
    <3> QED BY <3>1, FaithfulKept
  <2>4. Final'
    BY OutcomeKept DEF Final
  <2> QED BY <2>1, <2>2, <2>3, <2>4
<1>9. CASE Return
  <2> USE <1>9 DEF Return
  <2>1. TypeOK' /\ Counted' /\ OnlyStarted'
    BY DEF TypeOK, Counted, Counts, OnlyStarted
  <2>2. Answered' /\ Guarded'
    BY DEF Answered, Guarded
  <2>3. Faithful'
    <3>1. StoresNothing
      BY DEF StoresNothing, Stored
    <3> QED BY <3>1, FaithfulKept
  <2>4. \A q \in Started(detail) : pc[q] = "done"
    <3>1. \A q \in Queries : Counts(q) \in 0..1
      BY DEF Counts
    <3>2. \A q \in Queries : Counts(q) = 0
      <4> HIDE DEF Inv
      <4>1. 0 = Counts("nodes") + Counts("pods") + Counts("nodeMetrics")
                  + Counts("namespaces") + Counts("podMetrics")
        BY DEF Counted, Inv
      <4> QED BY <3>1, <4>1 DEF Queries
    <3>3. Started(detail) \in SUBSET Queries
      BY DEF Started, Queries
    <3> QED BY <3>2, <3>3 DEF Counts
  <2>5. Final'
    BY <2>4, OutcomeKept DEF Final
  <2> QED BY <2>1, <2>2, <2>3, <2>5
<1>10. CASE UNCHANGED vars
  <2> USE <1>10 DEF vars
  <2>1. TypeOK' /\ Counted' /\ OnlyStarted'
    BY DEF TypeOK, Counted, Counts, OnlyStarted
  <2>2. Answered' /\ Guarded'
    BY DEF Answered, Guarded
  <2>3. Faithful'
    <3>1. StoresNothing
      BY DEF StoresNothing, Stored
    <3> QED BY <3>1, FaithfulKept
  <2>4. Final'
    BY OutcomeKept DEF Final
  <2> QED BY <2>1, <2>2, <2>3, <2>4
<1> QED BY <1>1, <1>2, <1>3, <1>4, <1>5, <1>6, <1>7, <1>8, <1>9, <1>10 DEF Next, Finished

(***************************************************************************)
(* The state of the WaitGroup, the mutex and the snapshot, in every        *)
(* interleaving of the goroutines.                                         *)
(***************************************************************************)
THEOREM Invariant == Spec => []Inv
  BY InvInit, InvNext, PTL DEF Spec

\* Every variable keeps to its type; the WaitGroup never goes below zero.
THEOREM TypeCorrect == Spec => []TypeOK
  BY Invariant, PTL DEF Inv

(***************************************************************************)
(* wg.Wait lets collect return only when all its goroutines are done.      *)
(***************************************************************************)
THEOREM QuietTheorem == Spec => []QuietAfterReturn
<1>1. Inv => QuietAfterReturn
  BY DEF Inv, Final, QuietAfterReturn
<1> QED BY <1>1, Invariant, PTL

(***************************************************************************)
(* append to metricsE under the mutex loses no failure (collect).          *)
(***************************************************************************)
THEOREM NoFailureLostTheorem == Spec => []NoFailureLost
<1>1. Inv => NoFailureLost
  BY DEF Inv, Faithful, Failed, NoFailureLost
<1> QED BY <1>1, Invariant, PTL

-----------------------------------------------------------------------------
(* The promise *)

\* A list that names each of some metrics queries once is one of their listings.
LEMMA NamedOnce ==
  ASSUME NEW s \in Seq(Queries), \A i, j \in 1..Len(s) : s[i] = s[j] => i = j,
         Range(s) \subseteq Promise!Metrics
  PROVE  s \in Promise!Listings(Range(s))
<1> DEFINE S == Range(s)
<1>1. Len(s) \in Nat /\ DOMAIN s = 1..Len(s)
  OBVIOUS
<1>2. S = {s[i] : i \in 1..Len(s)}
  BY <1>1 DEF Range
<1>3. s \in [1..Len(s) -> S]
  BY <1>1, <1>2
<1>4. Len(s) \in 0..2
  <2> SUFFICES ASSUME Len(s) > 2 PROVE FALSE
    BY <1>1
  <2>1. 1 \in 1..Len(s) /\ 2 \in 1..Len(s) /\ 3 \in 1..Len(s)
    BY <1>1
  <2>2. \A i \in 1..Len(s) : s[i] \in {"nodeMetrics", "podMetrics"}
    BY <1>2 DEF Promise!Metrics
  <2>3. s[1] # s[2] /\ s[2] # s[3] /\ s[1] # s[3]
    BY <2>1
  <2> QED BY <2>1, <2>2, <2>3
<1> HIDE DEF S
<1>5. s \in UNION {[1..n -> S] : n \in 0..2}
  BY <1>3, <1>4
<1>6. \A q \in S : \E i \in DOMAIN s : s[i] = q
  BY <1>1, <1>2
<1>7. \A i, j \in DOMAIN s : s[i] = s[j] => i = j
  BY <1>1
<1>8. s \in Promise!Listings(S)
  BY <1>5, <1>6, <1>7 DEF Promise!Listings
<1> QED BY <1>8 DEF S

\* The failures that the metrics queries have answered.
MetricsFailures == {q \in Promise!Metrics : answer[q] = "failed"}

\* With every goroutine done, what collect returns is a verdict.
LEMMA OutcomeIsVerdict ==
  ASSUME Inv, \A q \in Started(detail) : pc[q] = "done"
  PROVE  Outcome = Promise!Verdict(answer, metricsE) /\ metricsE \in Promise!Listings(MetricsFailures)
<1>1. \A q \in Queries : answer[q] \in {"ok", "failed"} => Stored(q)
  BY DEF Inv, OnlyStarted, Answered, Stored
<1>2. \A q \in {"nodes", "pods"} : Stored(q)
  BY DEF Started, Stored, Queries
<1>3. known = {q \in Queries : answer[q] = "ok"}
  BY <1>1 DEF Inv, Faithful
<1>4. Errors = {q \in {"nodeMetrics", "podMetrics"} : answer[q] = "failed"}
  BY <1>1 DEF Inv, Faithful, Failed, Queries
<1>5. warnings = {q \in {"namespaces"} : answer[q] = "failed"}
  BY <1>1 DEF Inv, Faithful, Failed, Queries
<1>6. (nodeErr <=> answer["nodes"] = "failed") /\ (podErr <=> answer["pods"] = "failed")
  BY <1>1, <1>2 DEF Inv, Faithful, Failed, Queries
<1>7. ASSUME NEW q \in {"nodes", "pods"}, answer[q] # "failed" PROVE lists[q] = Pages[q]
  <2>1. answer[q] = "ok"
    BY <1>2, <1>7 DEF Inv, TypeOK, Answered, Stored, Queries
  <2> QED BY <2>1, <1>2 DEF Inv, Answered, Faithful, Queries
<1>8. Outcome = Promise!Verdict(answer, metricsE)
  BY <1>3, <1>5, <1>6, <1>7 DEF Outcome, Promise!Verdict, Promise!Failure, Promise!Queries, Queries
<1>9. Errors = MetricsFailures
  BY <1>4 DEF MetricsFailures, Promise!Metrics
<1>10. metricsE \in Promise!Listings(Errors)
  BY <1>9, NamedOnce DEF Inv, TypeOK, Faithful, ReportedOnce, Errors, MetricsFailures
<1> QED BY <1>8, <1>9, <1>10

(***************************************************************************)
(* A returned snapshot holds every page of the nodes and the pods.         *)
(***************************************************************************)
THEOREM WholeListsTheorem == Spec => []WholeLists
<1>1. Inv => WholeLists
  <2> SUFFICES ASSUME Inv, result.kind = "snapshot"
      PROVE result.nodes = Pages["nodes"] /\ result.pods = Pages["pods"]
    BY DEF WholeLists
  <2>1. result # Pending
    BY DEF Pending
  <2>2. result = Promise!Verdict(answer, metricsE)
    BY <2>1, OutcomeIsVerdict DEF Inv, Final
  <2>3. answer["nodes"] # "failed" /\ answer["pods"] # "failed"
    BY <2>2 DEF Promise!Verdict, Promise!Failure
  <2> QED BY <2>2, <2>3 DEF Promise!Verdict
<1> QED BY <1>1, Invariant, PTL

LEMMA PromiseInit == Init => Promise!Init
  BY DEF Init, Promise!Init, Promise!Queries, Promise!Pending, Queries, Pending

\* A step of collect is the answer to a query, the return, or nothing.
LEMMA PromiseNext == Inv /\ [Next]_vars => [Promise!Next]_Promise!vars
<1> SUFFICES ASSUME Inv, [Next]_vars PROVE [Promise!Next]_Promise!vars
  OBVIOUS
<1> USE DEF Promise!vars, Promise!Next, Promise!Asked, Promise!Queries, Queries, Started
<1>1. ASSUME NEW q \in Started(detail), PageOk(q) PROVE [Promise!Next]_Promise!vars
  <2>1. CASE More(q)
    BY <1>1, <2>1 DEF PageOk
  <2>2. CASE ~More(q)
    <3>1. Promise!Answer(q)
      BY <1>1, <2>2 DEF PageOk, Promise!Answer, Inv, Answered
    <3> QED BY <3>1
  <2> QED BY <2>1, <2>2
<1>2. ASSUME NEW q \in Started(detail), Fail(q) PROVE [Promise!Next]_Promise!vars
  <2>1. Promise!Answer(q)
    BY <1>2 DEF Fail, Goto, Promise!Answer, Inv, Answered
  <2> QED BY <2>1
<1>3. CASE Return
  <2>1. \A q \in Started(detail) : pc[q] = "done"
    BY <1>3 DEF Return, Inv, Counted, Counts, TypeOK
  <2>2. \E failures \in Promise!Listings({q \in Promise!Metrics : answer[q] = "failed"}) :
          result' = Promise!Verdict(answer, failures)
    BY <1>3, <2>1, OutcomeIsVerdict DEF Return, MetricsFailures
  <2>3. \A q \in Started(detail) : answer[q] # "pending"
    BY <2>1 DEF Inv, Answered
  <2>4. Promise!Return
    BY <1>3, <2>2, <2>3 DEF Return, Promise!Return, Promise!Pending, Pending
  <2> QED BY <2>4
<1>4. ASSUME NEW q \in Started(detail),
             Run(q) \/ Lock(q) \/ Store(q) \/ Unlock(q) \/ Done(q)
      PROVE  UNCHANGED Promise!vars
  BY <1>4 DEF Run, Lock, Store, Unlock, Done
<1>5. CASE Expire \/ UNCHANGED vars
  BY <1>5 DEF Expire, vars
<1> QED BY <1>1, <1>2, <1>3, <1>4, <1>5 DEF Next, Finished

(***************************************************************************)
(* The collector implements its promise: goroutines, pages, mutex, and     *)
(* deadline decide when there is a result, and of what it says nothing but *)
(* which of two failed metrics queries MetricsError names first.           *)
(***************************************************************************)
THEOREM PromiseTheorem == Spec => PromiseKept
  BY PromiseInit, PromiseNext, Invariant, PTL DEF Spec, PromiseKept, Promise!Spec
=============================================================================
