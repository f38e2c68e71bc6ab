------------------------------ MODULE Viewport ------------------------------
(***************************************************************************)
(* One table of the terminal UI: which of its rows are drawn and which one *)
(* is highlighted (setCursor and tableHeight of app.go and view.go,        *)
(* clusterLayout of namespaces.go, scrollOffset of table.go).  The state   *)
(* kept is a cursor and an offset; the number of rows changes under them   *)
(* when data arrives, and the number of lines when the terminal is resized *)
(* or the header grows.  A cluster that is not loaded yet has no rows and  *)
(* no groups; its layout then decides nothing.                             *)
(***************************************************************************)
EXTENDS Integers

CONSTANTS
  Heights,   \* the heights the terminal may have
  Headers,   \* the lines the header may take
  MaxRows,   \* bound: rows of the table
  MaxGroups  \* bound: node groups of the cluster

ASSUME LayoutAssumption ==
  /\ Heights \subseteq Nat
  /\ Headers \subseteq Nat
  /\ MaxRows \in Nat
  /\ MaxGroups \in Nat

VARIABLES
  screen,      \* "list": contexts or pods, "cluster": groups and namespaces
  height,      \* m.height
  header,      \* len(m.headerBlock())
  groups,      \* len(m.cluster.NodeGroups)
  showGroups,  \* m.showGroups
  rows,        \* m.rowCount()
  cursor,
  offset

layout == <<height, header, groups, showGroups>>
vars == <<screen, layout, rows, cursor, offset>>

AtLeast(lo, v) == IF v < lo THEN lo ELSE v

\* the upper bound is tested first: no rows put the cursor at -1
BugClamp(v, lo, hi) == IF v >= hi THEN hi ELSE v

Clamp(v, lo, hi) == IF v < lo THEN lo ELSE IF v > hi THEN hi ELSE v

\* the row below the window is taken for visible
BugScrollOffset(off, cur, visible, total) ==
  IF visible <= 0 \/ total = 0 THEN 0
  ELSE LET up   == IF cur < off THEN cur ELSE off
           down == IF cur > up + visible THEN cur - visible + 1 ELSE up
       IN  AtLeast(0, IF down > total - visible THEN total - visible ELSE down)

\* the window is not pulled back when the rows get fewer
BugNoPullBack(off, cur, visible, total) ==
  IF visible <= 0 \/ total = 0 THEN 0
  ELSE LET up == IF cur < off THEN cur ELSE off
       IN  IF cur >= up + visible THEN cur - visible + 1 ELSE up

\* scrollOffset: move the window no further than it takes to show the cursor.
ScrollOffset(off, cur, visible, total) ==
  IF visible <= 0 \/ total = 0 THEN 0
  ELSE LET up   == IF cur < off THEN cur ELSE off
           down == IF cur >= up + visible THEN cur - visible + 1 ELSE up
       IN  AtLeast(0, IF down > total - visible THEN total - visible ELSE down)

\* bodyHeight: the refresh line and the status line are no part of it.
BodyHeight == AtLeast(1, height - header - 2)

-----------------------------------------------------------------------------
(* clusterLayout *)

\* the blank line under the groups is forgotten
BugAvailable == BodyHeight - 5 - 3

\* Lines left for node groups: without the namespace block (border, header,
\* two rows) and the border, header and blank line of the group box.
Available == BodyHeight - 5 - 4

NoGroups == [rows |-> 0, lines |-> 0]

\* the note below the groups is forgotten
BugGroupSplit ==
  IF ~showGroups \/ groups = 0 \/ screen # "cluster" THEN NoGroups
  ELSE IF Available >= groups THEN [rows |-> groups, lines |-> groups + 4]
  ELSE IF Available >= 2 THEN [rows |-> Available - 1, lines |-> Available + 3]
  ELSE NoGroups

\* groupRows and groupLines: the groups that are shown, and what is reserved
\* for them: all groups, or those that fit above the note on the others.
GroupSplit ==
  IF ~showGroups \/ groups = 0 \/ screen # "cluster" THEN NoGroups
  ELSE IF Available >= groups THEN [rows |-> groups, lines |-> groups + 4]
  ELSE IF Available >= 2 THEN [rows |-> Available - 1, lines |-> Available + 4]
  ELSE NoGroups

GroupRows == GroupSplit.rows
ReservedLines == GroupSplit.lines

\* tableHeight: lines for the table inside its border, header included.
TableHeight ==
  IF screen = "cluster" THEN AtLeast(1, BodyHeight - ReservedLines - 2)
  ELSE AtLeast(2, BodyHeight - 2)

Visible == TableHeight - 1

\* more than is visible
BugPageSize == AtLeast(1, TableHeight)

PageSize == AtLeast(1, TableHeight - 1)

-----------------------------------------------------------------------------
Init ==
  /\ screen \in {"list", "cluster"}
  /\ height \in Heights /\ header \in Headers
  /\ groups = 0 /\ showGroups = TRUE
  /\ rows = 0 /\ cursor = 0 /\ offset = 0

\* The cursor that setCursor makes of an index.
CursorAt(idx) == Clamp(idx, 0, AtLeast(0, rows - 1))

\* setCursor
SetCursor(idx) ==
  /\ cursor' = CursorAt(idx)
  /\ offset' = ScrollOffset(offset, cursor', Visible, rows)
  /\ UNCHANGED <<screen, layout, rows>>

KeyUp    == SetCursor(cursor - 1)
KeyDown  == SetCursor(cursor + 1)
PageUp   == SetCursor(cursor - PageSize)
PageDown == SetCursor(cursor + PageSize)
KeyHome  == SetCursor(0)
KeyEnd   == SetCursor(rows - 1)

\* Sorting, typing a filter, opening another item: back to the top, with any
\* number of rows.
Restart ==
  /\ rows' \in 0..MaxRows
  /\ cursor' = 0 /\ offset' = 0
  /\ UNCHANGED <<screen, layout>>

\* A snapshot, or a list of contexts: the rows change, cursor and offset stay.
DataArrives ==
  /\ rows' \in 0..MaxRows /\ groups' \in 0..MaxGroups /\ header' \in Headers
  /\ UNCHANGED <<screen, height, showGroups, cursor, offset>>

\* WindowSizeMsg; the header is laid out anew.
Resize ==
  /\ height' \in Heights /\ header' \in Headers
  /\ UNCHANGED <<screen, groups, showGroups, rows, cursor, offset>>

\* "n"
ToggleGroups ==
  /\ showGroups' = ~showGroups
  /\ UNCHANGED <<screen, height, header, groups, rows, cursor, offset>>

Next ==
  \/ KeyUp \/ KeyDown \/ PageUp \/ PageDown \/ KeyHome \/ KeyEnd
  \/ Restart \/ DataArrives \/ Resize \/ ToggleGroups

Spec == Init /\ [][Next]_vars

-----------------------------------------------------------------------------
(* What is drawn: renderContexts, renderCluster and renderPods clamp the   *)
(* cursor and scroll once more, without keeping the result.                *)

Highlighted == Clamp(cursor, 0, rows - 1)
FirstDrawn == ScrollOffset(offset, Highlighted, Visible, rows)

\* renderNodeGroups: a box with a header and the rows, and a note if there are
\* more groups.
NodeGroupsHeight == GroupRows + 3 + (IF GroupRows < groups THEN 1 ELSE 0)

\* The lines above the namespaces: the box, if it is drawn, and a blank line.
GroupLines == IF GroupRows > 0 THEN NodeGroupsHeight + 1 ELSE 0

\* The line of the body that row r is drawn on, below groups, border, header.
LineOf(r) == GroupLines + 2 + (r - FirstDrawn)

\* The box of the table: its border, or all of the body.
BoxHeight == IF screen = "cluster" THEN TableHeight + 2 ELSE BodyHeight

-----------------------------------------------------------------------------
(* Properties *)

TypeOK ==
  /\ screen \in {"list", "cluster"}
  /\ height \in Heights /\ header \in Headers
  /\ groups \in 0..MaxGroups /\ showGroups \in BOOLEAN
  /\ rows \in 0..MaxRows
  /\ cursor \in 0..AtLeast(0, MaxRows - 1)
  /\ offset \in 0..MaxRows

(***************************************************************************)
(* The highlighted row is on the screen, inside the box of its table, in   *)
(* every body of four lines or more: whatever rows, groups and lines came  *)
(* and went since the cursor was last moved.                               *)
(***************************************************************************)
HighlightOnScreen ==
  rows > 0 /\ BodyHeight >= 4 =>
    /\ FirstDrawn <= Highlighted
    /\ LineOf(Highlighted) < GroupLines + BoxHeight - 1
    /\ LineOf(Highlighted) < BodyHeight

(***************************************************************************)
(* No line of the table stays blank while there are rows to show on it.    *)
(***************************************************************************)
WindowFull == rows > 0 /\ Visible > 0 => FirstDrawn = 0 \/ FirstDrawn + Visible <= rows

(***************************************************************************)
(* The boxes of a cluster fill the body and no more: what renderNodeGroups *)
(* draws takes the lines that clusterLayout has reserved for it, so that   *)
(* View neither cuts off the lower border nor leaves a line over.  And the *)
(* groups leave the namespaces a header and two rows (namespaces.go:33).   *)
(***************************************************************************)
BoxesFit ==
  BodyHeight >= 3 =>
    /\ GroupLines + BoxHeight = BodyHeight
    /\ GroupLines > 0 => TableHeight >= 3

(***************************************************************************)
(* Paging skips no row: the next window begins at the latest right below   *)
(* the last one, and the previous one ends right above.                    *)
(***************************************************************************)
PagingSkipsNothing ==
  [][Visible > 0 =>
       /\ PageDown => FirstDrawn' <= FirstDrawn + Visible
       /\ PageUp => FirstDrawn' >= FirstDrawn - Visible]_vars

(***************************************************************************)
(* README.md:134: up moves the highlight up.  After data with fewer rows   *)
(* the cursor is past the last row, and up only brings it back there.      *)
(***************************************************************************)
UpMoves == Highlighted > 0 => CursorAt(cursor - 1) < Highlighted
=============================================================================
