---------------------------- MODULE SceneryIndex ----------------------------
(***************************************************************************)
(* The keep set of the ortho agent: keepset.py, with the index of the      *)
(* scenery folders it asks (atlas_index.py) and the tile arithmetic both   *)
(* use (tilemath.py).                                                      *)
(*                                                                         *)
(* The engine's thread draws a ring of atlases around the aircraft and one *)
(* around the place it will be at, and collects what the scenery folders   *)
(* of the squares under each ring hold there.  A folder is looked at once  *)
(* and its index cached.  The drive may go and come back between any two   *)
(* looks.                                                                  *)
(*                                                                         *)
(* The earth is a plane of integer coordinates <<x, y>>, cut into squares  *)
(* of Side (the degrees) and, at each zoom, into atlases of Width[zoom];   *)
(* the two grids do not line up.  A folder is <<label, square>>, an atlas  *)
(* [zoom, x, y] its zoom and its place in the grid of that zoom.           *)
(***************************************************************************)
EXTENDS Integers, FiniteSets

CONSTANTS
    Side,     \* the width of a square
    Width,    \* the width of an atlas at each zoom
    Folders,  \* the folders there are: <<label, square>> -> their atlases
    Routes,   \* where the aircraft may be, and where it is headed
    Rings,    \* n_rings
    MaxEvents \* bound on losses of the drive and changes of active_zoom

ASSUME IndexConstants ==
    /\ Side \in Nat \ {0} /\ Rings \in Nat /\ MaxEvents \in Nat
    /\ \A z \in DOMAIN Width : Width[z] \in Nat \ {0}
    /\ \A f \in DOMAIN Folders : \A a \in Folders[f] : a.zoom \in DOMAIN Width
    /\ Routes \subseteq (Int \X Int) \X (Int \X Int)

VARIABLES
    drive,  \* is the scenery drive there?
    zoom,   \* active_zoom: the label to try first
    cache,  \* _cache: the folders looked at
    pc,     \* where the lookup is: "ask", "list", "root"; or "done"
    route,  \* the position and the projected one
    ring,   \* which of the two rings is being collected
    box,    \* its bounds, once its centre is looked up
    square, \* the square being looked up ...
    label,  \* ... and under which label
    left,   \* the squares of the ring still to look up
    keep,   \* what is collected
    calm,   \* history: the drive has stayed since the keep set was begun
    raced,  \* history: folders not found just as the drive came back
    events

walk == <<route, ring, box, left, keep>>
indexVars == <<drive, zoom, cache, pc, walk, square, label, calm, raced, events>>

-----------------------------------------------------------------------------
(* The tile arithmetic.                                                    *)

\* atlas_origin, dsf_folder_name: the cell of the grid of width w at p.
Cell(p, w) == <<p[1] \div w, p[2] \div w>>

\* Bounds: <<from, to>> corners, the second exclusive.
\* ring_bounds: the block of atlases around the one at c.
RingBounds(c, w) ==
    << <<(c[1] - Rings) * w, (c[2] - Rings) * w>>,
       <<(c[1] + Rings + 1) * w, (c[2] + Rings + 1) * w>> >>

\* A ring that ends on the edge of a square ends on an edge of the atlases of
\* every zoom: degrees and tiles meet at the equator and at multiples of 45
\* degrees of longitude only.
ASSUME EdgesMeet ==
    \A r \in Routes, z, y \in DOMAIN Width : \A i, j \in {1, 2} :
      LET b == RingBounds(Cell(r[i], Width[z]), Width[z]) IN
      b[2][j] % Side = 0 => b[2][j] % Width[y] = 0

\* dsf_squares_in_bounds: a bound on the edge of a square reaches the next.
SquaresIn(b) ==
    (b[1][1] \div Side .. b[2][1] \div Side) \X (b[1][2] \div Side .. b[2][2] \div Side)

\* The bounds clipped to a square.
Higher(i, j) == IF i < j THEN j ELSE i
Lower(i, j) == IF i < j THEN i ELSE j
Clip(b, s) ==
    << <<Higher(b[1][1], s[1] * Side), Higher(b[1][2], s[2] * Side)>>,
       <<Lower(b[2][1], (s[1] + 1) * Side), Lower(b[2][2], (s[2] + 1) * Side)>> >>

\* Mutant of AtlasesIn: the atlases that begin inside the bounds.
OriginsIn(b, w) ==
    ((b[1][1] + w - 1) \div w .. (b[2][1] - 1) \div w)
      \X ((b[1][2] + w - 1) \div w .. (b[2][2] - 1) \div w)

\* atlases_in_bounds: the corners drawn in by a hair.
AtlasesIn(b, w) ==
    (b[1][1] \div w .. (b[2][1] - 1) \div w) \X (b[1][2] \div w .. (b[2][2] - 1) \div w)

-----------------------------------------------------------------------------
(* The index.                                                              *)

Water == {}

\* The zooms that most atlases of an index have; Counter.most_common takes
\* the first of them in the order of the listing.
BaseZooms(index) ==
    LET count(z) == Cardinality({a \in index : a.zoom = z}) IN
    {z \in {a.zoom : a \in index} : \A y \in DOMAIN Width : count(y) <= count(z)}

Folder == <<label, square>>

Other(l) == IF l = 18 THEN 16 ELSE 18

\* A lookup begins with the label of active_zoom.
LookUp(s) == square' = s /\ label' = zoom /\ pc' = "ask"

\* What is collected of a square: the atlases of its folder in the box.
Collected(index) ==
    {<<Folder, a>> : a \in {a \in index : <<a.x, a.y>> \in AtlasesIn(Clip(box, square), Width[a.zoom])}}

\* dsf_squares_in_bounds lists them row by row.
First(squares) ==
    CHOOSE s \in squares : \A t \in squares : s[2] < t[2] \/ (s[2] = t[2] /\ s[1] <= t[1])

Step(squares) == left' = squares \ {First(squares)} /\ LookUp(First(squares))

\* On to the next square, the next ring, or the end.
Onward(more) ==
    \/ /\ more # {} /\ Step(more) /\ UNCHANGED <<ring, box>>
    \/ /\ more = {} /\ ring = 1 /\ ring' = 2 /\ box' = <<>> /\ left' = {}
       /\ LookUp(Cell(route[2], Side))
    \/ /\ more = {} /\ ring = 2 /\ pc' = "done" /\ left' = {}
       /\ UNCHANGED <<ring, box, square, label>>

\* folder_for_square has an index of the folder, or none ({}).  A folder with
\* no atlases counts as absent.  The first square of a ring is its centre.
Answer(index) ==
    /\ UNCHANGED route
    /\ \/ /\ index # {} /\ box = <<>>
          /\ \E z \in BaseZooms(index) :
               box' = RingBounds(Cell(route[ring], Width[z]), Width[z])
          /\ Step(SquaresIn(box'))
          /\ UNCHANGED <<ring, keep>>
       \/ /\ index # {} /\ box # <<>>
          /\ keep' = keep \union Collected(index) /\ Onward(left)
       \/ /\ index = {} /\ label = zoom
          /\ label' = Other(zoom) /\ pc' = "ask"
          /\ UNCHANGED <<square, ring, box, left, keep>>
       \/ /\ index = {} /\ label # zoom /\ UNCHANGED keep
          /\ Onward(IF box = <<>> THEN {} ELSE left)

Remember(index) == cache' = [f \in DOMAIN cache \union {Folder} |->
                               IF f = Folder THEN index ELSE cache[f]]

There(f) == drive /\ f \in DOMAIN Folders

\* _index_for: the cache, or is_dir().
Ask ==
    /\ pc = "ask"
    /\ \/ /\ Folder \in DOMAIN cache
          /\ Answer(cache[Folder]) /\ UNCHANGED raced
       \/ /\ Folder \notin DOMAIN cache
          /\ pc' = IF There(Folder) THEN "list" ELSE "root"
          /\ raced' = IF Folder \in DOMAIN Folders /\ ~drive THEN raced \union {Folder}
                                                             ELSE raced
          /\ UNCHANGED <<walk, square, label>>
    /\ UNCHANGED <<drive, zoom, cache, calm, events>>

\* load_atlas_index: the listing, or an OSError that is not cached.
List ==
    /\ pc = "list"
    /\ IF drive THEN Remember(Folders[Folder]) /\ Answer(Folders[Folder])
                ELSE UNCHANGED cache /\ Answer({})
    /\ UNCHANGED <<drive, zoom, calm, raced, events>>

\* Mutant of AskRoot: remembers without asking.
CacheAnyMiss ==
    /\ pc = "root" /\ Remember(Water) /\ Answer({})
    /\ raced' = IF drive THEN raced ELSE raced \ {Folder}
    /\ UNCHANGED <<drive, zoom, calm, events>>

\* No such folder: that is remembered if the root is there.
AskRoot ==
    /\ pc = "root" /\ Answer({})
    /\ IF drive THEN Remember(Water) /\ UNCHANGED raced
                ELSE UNCHANGED cache /\ raced' = raced \ {Folder}
    /\ UNCHANGED <<drive, zoom, calm, events>>

-----------------------------------------------------------------------------
(* The engine's thread, and the drive.                                     *)

\* compute_keep_set for a sample.
Begin(r) ==
    /\ pc \in {"idle", "done"}
    /\ route' = r /\ ring' = 1 /\ box' = <<>> /\ left' = {} /\ keep' = {}
    /\ LookUp(Cell(r[1], Side)) /\ calm' = drive
    /\ UNCHANGED <<drive, zoom, cache, raced, events>>

\* _reload_config between two ticks: another active_zoom clears the cache.
Reload ==
    /\ pc \in {"idle", "done"} /\ pc' = "idle"
    /\ events < MaxEvents /\ events' = events + 1
    /\ zoom' = Other(zoom) /\ cache' = [f \in {} |-> Water] /\ raced' = {}
    /\ UNCHANGED <<drive, walk, square, label, calm>>

\* The drive goes, or comes back; the engine's ticks, which wait for it,
\* have passed that gate already.
Drive ==
    /\ drive => events < MaxEvents
    /\ events' = IF drive THEN events + 1 ELSE events
    /\ drive' = ~drive /\ calm' = FALSE
    /\ UNCHANGED <<zoom, cache, pc, walk, square, label, raced>>

IndexInit ==
    /\ drive = TRUE /\ zoom = 18 /\ cache = [f \in {} |-> Water]
    /\ pc = "idle" /\ route \in Routes /\ ring = 1 /\ box = <<>>
    /\ square = <<0, 0>> /\ label = 18 /\ left = {} /\ keep = {}
    /\ calm = TRUE /\ raced = {} /\ events = 0

IndexNext == Ask \/ List \/ AskRoot \/ Reload \/ Drive \/ \E r \in Routes : Begin(r)

IndexSpec == IndexInit /\ [][IndexNext]_indexVars

-----------------------------------------------------------------------------
(* Properties.                                                             *)

\* What a folder holds, if it is there.
Holds(f) == IF f \in DOMAIN Folders THEN Folders[f] ELSE {}

\* The atlases of a square under active_zoom v: of that label's folder, or of
\* the other's.
Covering(v, s) ==
    LET f == IF Holds(<<v, s>>) # {} THEN <<v, s>> ELSE <<Other(v), s>> IN
    {<<f, a>> : a \in Holds(f)}

\* The points within n atlases of width w around p.
Around(p, w) ==
    LET c == Cell(p, w)
        Reach(i) == (c[i] - Rings) * w .. (c[i] + Rings) * w + w - 1 IN
    Reach(1) \X Reach(2)

\* A ring by its points: each atlas that covers a point of the ring and is in
\* the folder of the point's square.
RingOf(v, p, z) ==
    UNION {{fa \in Covering(v, Cell(q, Side)) :
              Cell(q, Width[fa[2].zoom]) = <<fa[2].x, fa[2].y>>} : q \in Around(p, Width[z])}

\* What a ring around p may be: one for each base zoom; none over water.
RingsOf(v, p) ==
    LET atlases == {fa[2] : fa \in Covering(v, Cell(p, Side))} IN
    IF atlases = {} THEN {{}} ELSE {RingOf(v, p, z) : z \in BaseZooms(atlases)}

\* A keep set that was collected while the drive was there is the union of
\* the two rings, atlas by atlas, whatever outage came before it, unless a
\* folder was taken for water ("raced").
KeepRight ==
    pc = "done" /\ calm /\ raced = {} =>
      \E here \in RingsOf(zoom, route[1]), ahead \in RingsOf(zoom, route[2]) :
        keep = here \union ahead

\* atlas_index.py:147-149: "Only cache 'no such folder' while the mount itself
\* is up — otherwise a mount outage would permanently mark real folders as
\* water."
NoRealFolderIsWater ==
    \A f \in DOMAIN cache \intersect DOMAIN Folders : cache[f] = Folders[f]

\* That happens only if the drive comes back between the look for the folder
\* and the look for the root; an outage alone leaves nothing behind.
WaterNeedsRace ==
    \A f \in DOMAIN cache \intersect DOMAIN Folders : cache[f] = Folders[f] \/ f \in raced
=============================================================================
