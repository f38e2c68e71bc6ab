------------------------------ MODULE Collector ------------------------------
(***************************************************************************)
(* Collector.collect of internal/kube/collect.go: one goroutine per query, *)
(* a mutex around the snapshot they fill, a WaitGroup the caller waits on  *)
(* and a deadline they share.  A list comes in pages, the API server may   *)
(* fail a request or never answer it.  The content of a page is abstracted *)
(* to having it; the messages collected in metricsE and Warnings to the    *)
(* query they name.                                                        *)
(***************************************************************************)
EXTENDS Integers, FiniteSets, Sequences, Functions

CONSTANT Pages  \* for each query: the pages of its complete answer

Queries == {"nodes", "pods", "nodeMetrics", "namespaces", "podMetrics"}

ASSUME PagesAssumption == Pages \in [Queries -> Nat \ {0}]

VARIABLES
  detail,    \* Collect (TRUE) or CollectOverview
  pc,        \* where each goroutine is
  page,      \* for each goroutine: the pages it has received
  answer,    \* for each goroutine: the outcome of its query
  read,      \* for each goroutine: metricsE as it last saw it
  mu,        \* the goroutine that holds the mutex, or "free"
  wg,        \* the counter of the WaitGroup
  expired,   \* the deadline has passed
  lists,     \* snap: for each list, the pages it holds
  known,     \* snap: the queries whose good answer is stored (NodeMetricsOK...)
  nodeErr, podErr,
  metricsE,  \* the metrics queries reported as failed, in order
  warnings,  \* snap.Warnings
  result     \* what collect returns

snap == <<lists, known, nodeErr, podErr, metricsE, warnings>>
vars == <<detail, pc, page, answer, read, mu, wg, expired, snap, result>>

\* The goroutines in the order collect starts them.
Order == <<"nodes", "pods", "nodeMetrics", "namespaces", "podMetrics">>
Started(d) == IF d THEN Queries ELSE {"nodes", "pods", "nodeMetrics"}

Pending == [kind |-> "pending"]

Init ==
  /\ detail \in BOOLEAN
  /\ pc = [q \in Queries |-> "new"]
  /\ page = [q \in Queries |-> 0]
  /\ answer = [q \in Queries |-> "pending"]
  /\ read = [q \in Queries |-> <<>>]
  /\ mu = "free" /\ wg = 0 /\ expired = FALSE
  /\ lists = [q \in Queries |-> 0]
  /\ known = {}
  /\ nodeErr = FALSE /\ podErr = FALSE
  /\ metricsE = <<>> /\ warnings = {}
  /\ result = Pending

Goto(q, from, to) == pc[q] = from /\ pc' = [pc EXCEPT ![q] = to]

-----------------------------------------------------------------------------
(* The caller.  Definitions named Bug... are plausible mistakes in the one *)
(* that follows them; a run with one in place must violate a property.     *)

\* the goroutine does not count
BugAdd == wg

\* wg.Add(1)
Add == wg + 1

\* run(func): count the goroutine, then start it; they start in order.
Run(q) ==
  /\ \A i \in 1..5 : Order[i] = q => \A j \in 1..(i - 1) : pc[Order[j]] # "new"
  /\ Goto(q, "new", "query")
  /\ wg' = Add
  /\ UNCHANGED <<detail, page, answer, read, mu, expired, snap, result>>

\* context.WithTimeout: the deadline passes before cancel is called.
Expire ==
  /\ ~expired /\ result = Pending
  /\ expired' = TRUE
  /\ UNCHANGED <<detail, pc, page, answer, read, mu, wg, snap, result>>

\* What collect makes of the snapshot.  MetricsError joins metricsE as it is.
Outcome ==
  IF nodeErr THEN [kind |-> "error", query |-> "nodes"]
  ELSE IF podErr THEN [kind |-> "error", query |-> "pods"]
  ELSE [kind |-> "snapshot", nodes |-> lists["nodes"], pods |-> lists["pods"],
        known |-> known, metricsError |-> metricsE, warnings |-> warnings]

\* wg.Wait() returns, and collect with it.
Return ==
  /\ result = Pending
  /\ \A q \in Started(detail) : pc[q] # "new"
  /\ wg = 0
  /\ result' = Outcome
  /\ UNCHANGED <<detail, pc, page, answer, read, mu, wg, expired, snap>>

-----------------------------------------------------------------------------
(* A goroutine *)

\* only the first page is read
BugMore(q) == FALSE

\* The page that arrives has a continue token.
More(q) == page[q] + 1 < Pages[q]

\* A page arrives.  The last one completes the answer.
PageOk(q) ==
  /\ pc[q] = "query"
  /\ page' = [page EXCEPT ![q] = @ + 1]
  /\ IF More(q)
     THEN UNCHANGED <<pc, answer>>
     ELSE /\ pc' = [pc EXCEPT ![q] = "answered"]
          /\ answer' = [answer EXCEPT ![q] = "ok"]
  /\ UNCHANGED <<detail, read, mu, wg, expired, snap, result>>

\* A request fails: the server says so, or the deadline has passed.  The pages
\* received so far are dropped.
Fail(q) ==
  /\ Goto(q, "query", "answered")
  /\ page' = [page EXCEPT ![q] = 0]
  /\ answer' = [answer EXCEPT ![q] = "failed"]
  /\ UNCHANGED <<detail, read, mu, wg, expired, snap, result>>

Cancelled(q) == expired /\ Fail(q)

\* no mutex
BugFree(q) == TRUE

\* The mutex lets q in.
Free(q) == mu = "free"

\* mu.Lock().  What append builds on is read once the mutex is held.
Lock(q) ==
  /\ Goto(q, "answered", "locked")
  /\ Free(q)
  /\ mu' = q
  /\ read' = [read EXCEPT ![q] = metricsE]
  /\ UNCHANGED <<detail, page, answer, wg, expired, snap, result>>

\* snap.Nodes, nodeErr = nodes, err; and the same for the pods.
StoreNodes ==
  /\ lists' = [lists EXCEPT !["nodes"] = page["nodes"]]
  /\ nodeErr' = (answer["nodes"] = "failed")
  /\ UNCHANGED <<podErr, metricsE, warnings>>

BugStorePods == \* one err for both lists: the later one overwrites it
  /\ lists' = [lists EXCEPT !["pods"] = page["pods"]]
  /\ podErr' = (answer["pods"] = "failed")
  /\ nodeErr' = FALSE
  /\ UNCHANGED <<metricsE, warnings>>

StorePods ==
  /\ lists' = [lists EXCEPT !["pods"] = page["pods"]]
  /\ podErr' = (answer["pods"] = "failed")
  /\ UNCHANGED <<nodeErr, metricsE, warnings>>

\* Metrics and namespaces: a failure is reported, it is no error.
StoreMetrics(q) ==
  /\ metricsE' = IF answer[q] = "failed" THEN Append(read[q], q) ELSE metricsE
  /\ UNCHANGED <<lists, nodeErr, podErr, warnings>>

StoreNamespaces ==
  /\ warnings' = IF answer["namespaces"] = "failed" THEN warnings \cup {"namespaces"} ELSE warnings
  /\ UNCHANGED <<lists, nodeErr, podErr, metricsE>>

\* The critical section, up to the deferred mu.Unlock().
Store(q) ==
  /\ Goto(q, "locked", "stored")
  /\ \/ q = "nodes" /\ StoreNodes
     \/ q = "pods" /\ StorePods
     \/ q \in {"nodeMetrics", "podMetrics"} /\ StoreMetrics(q)
     \/ q = "namespaces" /\ StoreNamespaces
  /\ known' = IF answer[q] = "ok" THEN known \cup {q} ELSE known
  /\ UNCHANGED <<detail, page, answer, read, mu, wg, expired, result>>

\* the early return of a failure skips the unlock
BugReleased(q) == IF answer[q] = "failed" THEN mu ELSE "free"

\* The mutex after mu.Unlock().
Released(q) == "free"

Unlock(q) ==
  /\ Goto(q, "stored", "unlocked")
  /\ mu' = Released(q)
  /\ UNCHANGED <<detail, page, answer, read, wg, expired, snap, result>>

\* The deferred wg.Done().
Done(q) ==
  /\ Goto(q, "unlocked", "done")
  /\ wg' = wg - 1
  /\ UNCHANGED <<detail, page, answer, read, mu, expired, snap, result>>

\* What the goroutine does without the server.
Step(q) == Cancelled(q) \/ Lock(q) \/ Store(q) \/ Unlock(q) \/ Done(q)

-----------------------------------------------------------------------------
Finished == result # Pending /\ UNCHANGED vars

Next ==
  \/ \E q \in Started(detail) : Run(q) \/ PageOk(q) \/ Fail(q) \/ Lock(q) \/ Store(q) \/ Unlock(q) \/ Done(q)
  \/ Expire \/ Return \/ Finished

Spec == Init /\ [][Next]_vars

\* Goroutines are scheduled, the deadline passes, and a request whose context
\* is done fails.  The API server owes nobody an answer.
Fairness ==
  /\ \A q \in Queries : WF_vars(q \in Started(detail) /\ (Run(q) \/ Step(q)))
  /\ WF_vars(Expire) /\ WF_vars(Return)

FairSpec == Spec /\ Fairness

-----------------------------------------------------------------------------
(* Properties *)

PCs == {"new", "query", "answered", "locked", "stored", "unlocked", "done"}

TypeOK ==
  /\ detail \in BOOLEAN
  /\ pc \in [Queries -> PCs]
  /\ page \in [Queries -> Nat]
  /\ answer \in [Queries -> {"pending", "ok", "failed"}]
  /\ read \in [Queries -> Seq(Queries)]
  /\ mu \in Queries \cup {"free"}
  /\ wg \in 0..5
  /\ expired \in BOOLEAN
  /\ lists \in [Queries -> Nat]
  /\ known \subseteq Queries
  /\ nodeErr \in BOOLEAN /\ podErr \in BOOLEAN
  /\ metricsE \in Seq(Queries)
  /\ warnings \subseteq {"namespaces"}

(***************************************************************************)
(* Once collect has returned no goroutine of it is left: none can touch    *)
(* the snapshot the caller aggregates, and none leaks.                     *)
(***************************************************************************)
QuietAfterReturn == result # Pending => \A q \in Started(detail) : pc[q] = "done"

(***************************************************************************)
(* A snapshot holds the whole list of nodes and pods, never some of its    *)
(* pages: totals over half a cluster would look like real ones.            *)
(***************************************************************************)
WholeLists == result.kind = "snapshot" => result.nodes = Pages["nodes"] /\ result.pods = Pages["pods"]

(***************************************************************************)
(* No failure of the metrics API is lost to the other goroutine appending  *)
(* to metricsE at the same time, so missing usage is always explained.     *)
(***************************************************************************)
Errors == Range(metricsE)
Stored(q) == pc[q] \in {"stored", "unlocked", "done"}
NoFailureLost ==
  \A q \in {"nodeMetrics", "podMetrics"} : Stored(q) /\ answer[q] = "failed" => q \in Errors

(***************************************************************************)
(* collect keeps the promise of CollectPromise: the result is a verdict on *)
(* the answers.  The order in which the goroutines took the mutex shows in *)
(* the order of two failures in MetricsError (collect.go:136) and nowhere  *)
(* else.  An answer counts from the moment the goroutine has it.           *)
(***************************************************************************)
Promise == INSTANCE CollectPromise WITH answers <- answer
PromiseKept == Promise!Spec

(***************************************************************************)
(* collect returns, though the API server may never answer (DefaultTimeout *)
(* bounds a full collection).                                              *)
(***************************************************************************)
Returns == <>(result # Pending)
=============================================================================
