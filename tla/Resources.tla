------------------------------ MODULE Resources ------------------------------
(***************************************************************************)
(* model.Resources (internal/model/resource.go): an amount of each kind of *)
(* resource, CPU and memory, added and compared kind by kind.              *)
(***************************************************************************)
LOCAL INSTANCE Integers

CONSTANT Kinds  \* the kinds of resources

None == [k \in Kinds |-> 0]

Add(r, o) == [k \in Kinds |-> r[k] + o[k]]

MaxResources(a, b) == [k \in Kinds |-> IF a[k] >= b[k] THEN a[k] ELSE b[k]]
=============================================================================
