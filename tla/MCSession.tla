------------------------------ MODULE MCSession ------------------------------
(* Instances of Session for TLC. *)
EXTENDS Session, TLC

CONSTANTS a, b, ns

MCNames == {a, b}
MCOneName == {a}
MCNamespaces == {ns}
Symmetry == Permutations(MCNames)

\* Moving between contexts and screens, without filters and help.
Moves == {"enter", "esc", "r"}
\* Filters, help and leaving, without refreshing.
Overlays == {"enter", "esc", "/", "?", "q"}
AllKeys == Moves \cup Overlays
=============================================================================
