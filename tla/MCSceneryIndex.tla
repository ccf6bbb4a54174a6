--------------------------- MODULE MCSceneryIndex ---------------------------
(* SceneryIndex for TLC: two squares side by side, one south of them across *)
(* the equator, and the sea around.                                        *)
(* At zoom 16 an atlas is 4 wide, at zoom 17 it is 2; a square is 7 wide,  *)
(* so atlases lie across its edges.                                        *)
EXTENDS SceneryIndex, TLC

MCWidth == (16 :> 4) @@ (17 :> 2)

Grid(z, xs, ys) == {[zoom |-> z, x |-> c[1], y |-> c[2]] : c \in xs \X ys}

\* In the west a base with a patch, and the other scenery set; in the east a
\* stripped folder and the other set; in the south a base.
MCFolders ==
    (<<18, <<0, 0>>>> :> Grid(16, 0..1, 0..1) \union Grid(17, 2..3, 1..1)) @@
    (<<16, <<0, 0>>>> :> Grid(17, 0..3, 0..3)) @@
    (<<18, <<1, 0>>>> :> {}) @@
    (<<16, <<1, 0>>>> :> Grid(16, 1..3, 0..1) \union Grid(17, 4..6, 0..0)) @@
    (<<18, <<0, -1>>>> :> Grid(16, 0..1, -2..-1))

\* Flying east over the edge; and in from the sea, headed south of the equator,
\* where the edges of the grids meet and the ring ends.
MCRoutes == { << <<5, 3>>, <<9, 3>> >>, << <<15, 8>>, <<3, -6>> >> }
=============================================================================
