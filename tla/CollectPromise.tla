--------------------------- MODULE CollectPromise ---------------------------
(***************************************************************************)
(* What kube.Collector promises its callers, without goroutines, pages,    *)
(* mutex or deadline: every query is answered once, and the verdict is     *)
(* about the answers alone.  Only the order in which the message about the *)
(* metrics names two failures is left open.                                *)
(***************************************************************************)
EXTENDS Naturals

CONSTANT Pages  \* for each query: the pages its complete answer has

Queries == {"nodes", "pods", "nodeMetrics", "namespaces", "podMetrics"}
Metrics == {"nodeMetrics", "podMetrics"}

\* The queries of a full collection, and of the overview.
Asked(detail) == IF detail THEN Queries ELSE {"nodes", "pods", "nodeMetrics"}

VARIABLES
  detail,   \* Collect or CollectOverview
  answers,  \* for each query: "pending", "ok" or "failed"
  result    \* what the caller gets

vars == <<detail, answers, result>>

Pending == [kind |-> "pending"]
Failure(q) == [kind |-> "error", query |-> q]

\* The ways to name each of some metrics queries once.
Listings(S) ==
  {s \in UNION {[1..n -> S] : n \in 0..2} :
     /\ \A q \in S : \E i \in DOMAIN s : s[i] = q
     /\ \A i, j \in DOMAIN s : s[i] = s[j] => i = j}

\* Whole lists of nodes and pods or an error; everything else is optional,
\* and what is missing is named, that of the metrics in the order given.
Verdict(ans, failures) ==
  IF ans["nodes"] = "failed" THEN Failure("nodes")
  ELSE IF ans["pods"] = "failed" THEN Failure("pods")
  ELSE [kind         |-> "snapshot",
        nodes        |-> Pages["nodes"],
        pods         |-> Pages["pods"],
        known        |-> {q \in Queries : ans[q] = "ok"},
        metricsError |-> failures,
        warnings     |-> {q \in {"namespaces"} : ans[q] = "failed"}]

Init ==
  /\ detail \in BOOLEAN
  /\ answers = [q \in Queries |-> "pending"]
  /\ result = Pending

Answer(q) ==
  /\ answers[q] = "pending"
  /\ \E a \in {"ok", "failed"} : answers' = [answers EXCEPT ![q] = a]
  /\ UNCHANGED <<detail, result>>

Return ==
  /\ result = Pending
  /\ \A q \in Asked(detail) : answers[q] # "pending"
  /\ \E failures \in Listings({q \in Metrics : answers[q] = "failed"}) :
       result' = Verdict(answers, failures)
  /\ UNCHANGED <<detail, answers>>

Next == Return \/ \E q \in Asked(detail) : Answer(q)

Spec == Init /\ [][Next]_vars
=============================================================================
