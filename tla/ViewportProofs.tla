--------------------------- MODULE ViewportProofs ---------------------------
(***************************************************************************)
(* What Viewport promises for terminals, headers, tables and clusters of   *)
(* every size.  scrollOffset and clusterLayout are functions of integers:  *)
(* two lemmas say what they return, and the invariants follow from them    *)
(* and from the types alone, since what is drawn is clamped anew.          *)
(***************************************************************************)
EXTENDS Viewport, TLAPS

(***************************************************************************)
(* scrollOffset (table.go:229), of any offset and of a cursor on a row:    *)
(* the cursor is in the window, and the window is full or starts at 0.     *)
(***************************************************************************)
LEMMA ScrollLemma ==
  ASSUME NEW off \in Int, NEW total \in Nat, NEW cur \in 0..(total - 1),
         NEW visible \in Int, visible > 0
  PROVE  LET first == ScrollOffset(off, cur, visible, total)
         IN  /\ first \in 0..cur
             /\ cur < first + visible
             /\ first = 0 \/ first + visible <= total
BY DEF ScrollOffset, AtLeast

(***************************************************************************)
(* A cursor that moves by a window at most moves the window by no more.    *)
(***************************************************************************)
LEMMA ScrollPages ==
  ASSUME NEW off \in Int, NEW total \in Nat, NEW visible \in Int, visible > 0,
         NEW from \in 0..(total - 1), NEW to \in 0..(total - 1)
  PROVE  /\ to <= from + visible =>
              ScrollOffset(off, to, visible, total) <= ScrollOffset(off, from, visible, total) + visible
         /\ to >= from - visible =>
              ScrollOffset(off, to, visible, total) >= ScrollOffset(off, from, visible, total) - visible
BY DEF ScrollOffset, AtLeast

(***************************************************************************)
(* A window that shows the cursor and is full, or starts at 0, is left     *)
(* where it is: rendering scrolls no further than setCursor did.           *)
(***************************************************************************)
LEMMA ScrollKeeps ==
  ASSUME NEW off \in Int, NEW total \in Nat, NEW cur \in 0..(total - 1),
         NEW visible \in Int, visible > 0,
         off \in 0..cur, cur < off + visible,
         off = 0 \/ off + visible <= total
  PROVE  ScrollOffset(off, cur, visible, total) = off
BY DEF ScrollOffset, AtLeast

(***************************************************************************)
(* scrollOffset of any numbers: the window starts at a row, or at 0.       *)
(***************************************************************************)
LEMMA ScrollType ==
  ASSUME NEW off \in Int, NEW cur \in Int, NEW visible \in Int, NEW total \in Nat
  PROVE  ScrollOffset(off, cur, visible, total) \in 0..total
BY DEF ScrollOffset, AtLeast

(***************************************************************************)
(* clusterLayout (namespaces.go:22) reserves for the groups the lines that *)
(* renderNodeGroups draws, and none of the five of the namespace box.      *)
(***************************************************************************)
LEMMA LayoutLemma ==
  ASSUME TypeOK
  PROVE  /\ BodyHeight \in Nat \ {0}
         /\ GroupRows \in Nat
         /\ GroupLines \in Nat
         /\ ReservedLines = GroupLines
         /\ screen # "cluster" => GroupLines = 0
         /\ GroupLines > 0 => GroupLines <= BodyHeight - 5
         /\ TableHeight \in Nat \ {0}
<1>1. height \in Nat /\ header \in Nat /\ groups \in Nat
  BY LayoutAssumption DEF TypeOK
<1>2. BodyHeight \in Nat \ {0}
  BY <1>1 DEF BodyHeight, AtLeast
<1>3. Available \in Int /\ Available = BodyHeight - 9
  BY <1>2 DEF Available
<1>4. /\ GroupRows \in Nat /\ GroupLines \in Nat
      /\ ReservedLines = GroupLines
      /\ screen # "cluster" => GroupLines = 0
      /\ GroupLines > 0 => GroupLines <= BodyHeight - 5
  BY <1>1, <1>2, <1>3 DEF GroupRows, ReservedLines, GroupSplit, NoGroups, GroupLines, NodeGroupsHeight
<1>5. TableHeight \in Nat \ {0}
  BY <1>2, <1>4 DEF TableHeight, AtLeast
<1> QED
  BY <1>2, <1>4, <1>5

-----------------------------------------------------------------------------
(***************************************************************************)
(* Cursor and offset stay within the bounds of the table, whatever key,    *)
(* snapshot or resizing comes next.                                        *)
(***************************************************************************)
THEOREM TypeCorrect == Spec => []TypeOK
<1>1. Init => TypeOK
  BY LayoutAssumption DEF Init, TypeOK, AtLeast
<1>2. TypeOK /\ [Next]_vars => TypeOK'
  <2> SUFFICES ASSUME TypeOK, [Next]_vars PROVE TypeOK'
    OBVIOUS
  <2>1. ASSUME NEW idx \in Int, SetCursor(idx) PROVE TypeOK'
    <3>1. rows \in 0..MaxRows /\ rows \in Nat /\ offset \in Int /\ MaxRows \in Nat
      BY LayoutAssumption DEF TypeOK
    <3>2. cursor' \in 0..AtLeast(0, MaxRows - 1) /\ cursor' \in Int
      BY <2>1, <3>1 DEF SetCursor, CursorAt, Clamp, AtLeast
    <3>3. Visible \in Int
      BY LayoutLemma DEF Visible
    <3>4. offset' \in 0..rows
      BY <2>1, <3>1, <3>2, <3>3, ScrollType DEF SetCursor
    <3> QED
      BY <2>1, <3>1, <3>2, <3>4 DEF SetCursor, layout, TypeOK
  <2>2. cursor \in Int /\ rows \in Int /\ PageSize \in Int
    BY LayoutLemma, LayoutAssumption DEF TypeOK, PageSize, AtLeast
  <2>3. CASE KeyUp
    BY <2>1, <2>2, <2>3 DEF KeyUp
  <2>4. CASE KeyDown
    BY <2>1, <2>2, <2>4 DEF KeyDown
  <2>5. CASE PageUp
    BY <2>1, <2>2, <2>5 DEF PageUp
  <2>6. CASE PageDown
    BY <2>1, <2>2, <2>6 DEF PageDown
  <2>7. CASE KeyHome
    BY <2>1, <2>7 DEF KeyHome
  <2>8. CASE KeyEnd
    BY <2>1, <2>2, <2>8 DEF KeyEnd
  <2>9. CASE Restart
    BY <2>9, LayoutAssumption DEF Restart, layout, TypeOK, AtLeast
  <2>10. CASE DataArrives
    BY <2>10 DEF DataArrives, TypeOK
  <2>11. CASE Resize
    BY <2>11 DEF Resize, TypeOK
  <2>12. CASE ToggleGroups
    BY <2>12 DEF ToggleGroups, TypeOK
  <2>13. CASE UNCHANGED vars
    BY <2>13 DEF vars, layout, TypeOK
  <2> QED
    BY <2>3, <2>4, <2>5, <2>6, <2>7, <2>8, <2>9, <2>10, <2>11, <2>12, <2>13 DEF Next
<1> QED
  BY <1>1, <1>2, PTL DEF Spec

(***************************************************************************)
(* What is drawn, in a table of at least one visible row.                  *)
(***************************************************************************)
LEMMA DrawnLemma ==
  ASSUME TypeOK, rows > 0, Visible > 0
  PROVE  /\ Highlighted \in 0..(rows - 1)
         /\ FirstDrawn \in 0..Highlighted
         /\ Highlighted < FirstDrawn + Visible
         /\ FirstDrawn = 0 \/ FirstDrawn + Visible <= rows
<1>1. rows \in Nat /\ cursor \in Int /\ offset \in Int
  BY LayoutAssumption DEF TypeOK
<1>2. Visible \in Int
  BY LayoutLemma DEF Visible
<1>3. Highlighted \in 0..(rows - 1)
  BY <1>1 DEF Highlighted, Clamp
<1> QED
  BY <1>1, <1>2, <1>3, ScrollLemma DEF FirstDrawn

(***************************************************************************)
(* The highlighted row is drawn, on a line inside the box of its table.    *)
(***************************************************************************)
THEOREM HighlightTheorem == Spec => []HighlightOnScreen
<1>1. TypeOK => HighlightOnScreen
  <2> SUFFICES ASSUME TypeOK, rows > 0, BodyHeight >= 4
               PROVE  /\ FirstDrawn <= Highlighted
                      /\ LineOf(Highlighted) < GroupLines + BoxHeight - 1
                      /\ LineOf(Highlighted) < BodyHeight
    BY DEF HighlightOnScreen
  <2>1. /\ BodyHeight \in Nat /\ GroupLines \in Nat /\ ReservedLines = GroupLines /\ TableHeight \in Nat
        /\ screen # "cluster" => GroupLines = 0
        /\ GroupLines > 0 => GroupLines <= BodyHeight - 5
    BY LayoutLemma
  <2>2. /\ TableHeight >= 2
        /\ GroupLines + TableHeight + 2 = BodyHeight
        /\ GroupLines + BoxHeight = BodyHeight
        /\ BoxHeight \in Nat
    BY <2>1 DEF TableHeight, BoxHeight, AtLeast
  <2>3. Visible > 0 /\ Visible = TableHeight - 1
    BY <2>1, <2>2 DEF Visible
  <2>4. /\ rows \in Nat /\ Highlighted \in 0..(rows - 1)
        /\ FirstDrawn \in 0..Highlighted
        /\ Highlighted < FirstDrawn + Visible
    BY <2>3, DrawnLemma, LayoutAssumption DEF TypeOK
  <2>5. LineOf(Highlighted) <= BodyHeight - 2
    <3>1. Highlighted - FirstDrawn <= TableHeight - 2
      BY <2>1, <2>3, <2>4
    <3> QED
      BY <2>1, <2>2, <2>4, <3>1 DEF LineOf
  <2>6. LineOf(Highlighted) \in Int
    BY <2>1, <2>4 DEF LineOf
  <2> QED
    BY <2>1, <2>2, <2>4, <2>5, <2>6
<1> QED
  BY <1>1, TypeCorrect, PTL

(***************************************************************************)
(* The window of a table is full, or starts at its first row.              *)
(***************************************************************************)
THEOREM WindowTheorem == Spec => []WindowFull
<1>1. TypeOK => WindowFull
  BY DrawnLemma DEF WindowFull
<1> QED
  BY <1>1, TypeCorrect, PTL

(***************************************************************************)
(* The boxes of groups and namespaces fill the body exactly: the lines     *)
(* reserved in clusterLayout are those drawn by renderNodeGroups.          *)
(***************************************************************************)
THEOREM BoxesTheorem == Spec => []BoxesFit
<1>1. TypeOK => BoxesFit
  <2> SUFFICES ASSUME TypeOK, BodyHeight >= 3
               PROVE  /\ GroupLines + BoxHeight = BodyHeight
                      /\ GroupLines > 0 => TableHeight >= 3
    BY DEF BoxesFit
  <2>1. /\ BodyHeight \in Nat /\ GroupLines \in Nat /\ ReservedLines = GroupLines
        /\ screen # "cluster" => GroupLines = 0
        /\ GroupLines > 0 => GroupLines <= BodyHeight - 5
    BY LayoutLemma
  <2> QED
    BY <2>1 DEF TableHeight, BoxHeight, AtLeast
<1> QED
  BY <1>1, TypeCorrect, PTL

(***************************************************************************)
(* Paging, from any cursor and offset, steps over no row.                  *)
(***************************************************************************)
THEOREM PagingTheorem == Spec => PagingSkipsNothing
<1> DEFINE Fine == Visible > 0 =>
                     /\ PageDown => FirstDrawn' <= FirstDrawn + Visible
                     /\ PageUp => FirstDrawn' >= FirstDrawn - Visible
<1>1. TypeOK => Fine
  <2> SUFFICES ASSUME TypeOK, Visible > 0, PageDown \/ PageUp
               PROVE  /\ PageDown => FirstDrawn' <= FirstDrawn + Visible
                      /\ PageUp => FirstDrawn' >= FirstDrawn - Visible
    OBVIOUS
  <2>1. rows \in Nat /\ cursor \in Int /\ offset \in Int /\ rows' = rows
    BY LayoutAssumption DEF TypeOK, PageDown, PageUp, SetCursor
  <2>2. Visible \in Int /\ Visible' = Visible /\ PageSize = Visible
    <3>1. TableHeight' = TableHeight
      BY DEF PageDown, PageUp, SetCursor, layout, TableHeight, ReservedLines, GroupSplit, NoGroups,
             Available, BodyHeight
    <3> QED
      BY <3>1, LayoutLemma DEF Visible, PageSize, AtLeast
  <2>3. CASE rows = 0
    BY <2>1, <2>2, <2>3 DEF FirstDrawn, ScrollOffset
  <2>4. CASE rows > 0
    <3>1. Highlighted \in 0..(rows - 1)
      BY <2>4, DrawnLemma
    <3>2. cursor' \in 0..(rows - 1) /\ Highlighted' = cursor'
      BY <2>1, <2>2, <2>4 DEF PageDown, PageUp, SetCursor, CursorAt, Clamp, AtLeast, Highlighted
    <3>3. offset' = ScrollOffset(offset, cursor', Visible, rows)
      BY DEF PageDown, PageUp, SetCursor
    <3>4. FirstDrawn' = offset'
      <4>1. /\ offset' \in 0..cursor' /\ offset' \in Int
            /\ cursor' < offset' + Visible
            /\ offset' = 0 \/ offset' + Visible <= rows
        BY <2>1, <2>2, <2>4, <3>2, <3>3, ScrollLemma
      <4>2. FirstDrawn' = ScrollOffset(offset', cursor', Visible, rows)
        BY <2>1, <2>2, <3>2 DEF FirstDrawn
      <4> QED
        BY <2>1, <2>2, <2>4, <3>2, <4>1, <4>2, ScrollKeeps
    <3>5. ASSUME PageDown PROVE FirstDrawn' <= FirstDrawn + Visible
      <4>1. cursor' <= Highlighted + Visible
        BY <2>1, <2>2, <2>4, <3>5 DEF PageDown, SetCursor, CursorAt, Clamp, AtLeast, Highlighted, TypeOK
      <4> QED BY <2>1, <2>2, <3>1, <3>2, <3>3, <3>4, <4>1, ScrollPages DEF FirstDrawn
    <3>6. ASSUME PageUp PROVE FirstDrawn' >= FirstDrawn - Visible
      <4>1. cursor' >= Highlighted - Visible
        BY <2>1, <2>2, <2>4, <3>6 DEF PageUp, SetCursor, CursorAt, Clamp, AtLeast, Highlighted, TypeOK
      <4> QED BY <2>1, <2>2, <3>1, <3>2, <3>3, <3>4, <4>1, ScrollPages DEF FirstDrawn
    <3> QED
      BY <3>5, <3>6
  <2> QED
    BY <2>1, <2>3, <2>4
<1>2. TypeOK /\ [Next]_vars => [Fine]_vars
  BY <1>1
<1> QED
  BY <1>2, TypeCorrect, PTL DEF Spec, PagingSkipsNothing
=============================================================================
