----------------------------- MODULE MCViewport -----------------------------
(* An instance of Viewport for TLC.  With a header of one line the bodies  *)
(* have 1, 3, 4, 5, 10, 11, 13 and 17 lines, which meet every case of      *)
(* clusterLayout; a header of five lines makes them shorter.               *)
EXTENDS Viewport

MCHeights == {1, 6, 7, 8, 13, 14, 16, 20}
MCHeaders == {1, 5}
=============================================================================
