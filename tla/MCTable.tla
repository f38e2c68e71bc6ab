------------------------------- MODULE MCTable -------------------------------
(* Instances of Table for TLC.  The strings 1 to 4 are spelled with a      *)
(* narrow and a wide character; 1 to 3 are names, 2 and 4 name clusters    *)
(* and nodes as well.  Every table has ties in every column.               *)
EXTENDS Table

MCChars == {"k", "oe"}
MCWide == {"oe"}
MCSpelling == << <<"k">>, <<"k", "oe">>, <<"oe", "oe">>, <<"oe">> >>

Context(name, cluster, current) == [name |-> name, cluster |-> cluster, current |-> current, status |-> 0]
Namespace(name, pods, cpu) ==
  [name |-> name, podCount |-> pods, reqCPU |-> cpu, usedCPU |-> 1, reqMem |-> 1, usedMem |-> cpu]
Pod(name, node, cpu) ==
  [name |-> name, node |-> node, reqCPU |-> cpu, usedCPU |-> 1, reqMem |-> 1, usedMem |-> cpu]

MCItems ==
  [contexts   |-> {Context(1, 4, FALSE), Context(2, 2, TRUE), Context(3, 2, FALSE)},
   namespaces |-> {Namespace(1, 1, 0), Namespace(1, 2, 1), Namespace(2, 1, 1), Namespace(3, 1, 1)},
   pods       |-> {Pod(1, 4, 0), Pod(1, 2, 1), Pod(2, 2, 1)}]

\* "" < "Error: ..." < "Ready"
MCStatuses == {1, 2}
=============================================================================
