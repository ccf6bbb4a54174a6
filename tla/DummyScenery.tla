---------------------------- MODULE DummyScenery ----------------------------
(***************************************************************************)
(* make_dummy_scenery.py: it mirrors the ortho tile folders of the real    *)
(* scenery into a folder of dummies, in which each texture is replaced by  *)
(* one small DDS.  A run plans which folders to build (those without a     *)
(* completion marker; with --verify also those whose marker counts other   *)
(* files than the source has), builds them in a pool of threads, and with  *)
(* --prune removes marked folders whose tile is gone.  A run may be killed *)
(* and a file may fail anywhere; the scenery is rebuilt, and its share     *)
(* comes and goes, also while a run is under way.  One run at a time.      *)
(*                                                                         *)
(* A tile folder is a function from its files to their sizes, or None.  In *)
(* a dummy, "part" stands for the size of a file cut short.                *)
(***************************************************************************)
EXTENDS Naturals, FiniteSets

CONSTANTS
    Tile,       \* the tile folders
    File,       \* the files of a tile folder that X-Plane reads ...
    Texture,    \* ... and which of them are textures (.dds)
    Size,       \* the sizes of the others
    Workers,    \* --workers
    MaxChanges, \* bound on changes of the source
    MaxFaults,  \* bound on killed runs and failed files
    None        \* no folder; no readable marker

ASSUME DummyConstants ==
    /\ IsFiniteSet(Tile) /\ IsFiniteSet(File) /\ Texture \subseteq File
    /\ Workers \in Nat \ {0} /\ MaxChanges \in Nat /\ MaxFaults \in Nat
    \* "part" is no size a source has, and None is no folder.
    /\ "part" \notin Size
    /\ None \notin UNION {[fs -> Size \union {"big", "dds", "part"}] : fs \in SUBSET File}

VARIABLES
    source,  \* the real tile folders
    mounted, \* is the share they are on there?
    dummy,   \* the dummy folders
    marker,  \* their completion markers: the files counted, or None
    phase,   \* the run: "idle", "build" or "prune"
    options, \* its --only and --prune, and the tiles it found
    todo,    \* the tiles it has still to build
    job,     \* those its threads build: the files listed, and those left
    orphans, \* the folders it is removing
    spoiled, \* history: folders left marked when work on them broke off
    seen,    \* history: the tiles there was to see since the run began
    changes, \* changes of the source so far
    faults   \* faults so far

disk == <<source, mounted, changes, seen>>
vars == <<disk, dummy, marker, phase, options, todo, job, orphans, spoiled, faults>>

Building == DOMAIN job

NoJob == [t \in {} |-> 0]

Fault == faults < MaxFaults /\ faults' = faults + 1

-----------------------------------------------------------------------------
(* The source.                                                             *)

Contents ==
    {c \in UNION {[fs -> Size \union {"big"}] : fs \in SUBSET File} :
       \A f \in DOMAIN c : c[f] = "big" <=> f \in Texture}

\* Ortho4XP builds, rebuilds or drops a tile.
Rebuild(t, c) ==
    /\ changes < MaxChanges /\ changes' = changes + 1
    /\ c # source[t] /\ source' = [source EXCEPT ![t] = c]
    /\ seen' = IF c = None THEN seen \ {t} ELSE seen
    /\ UNCHANGED <<mounted, dummy, marker, phase, options, todo, job, orphans, spoiled,
                   faults>>

\* The share goes, or comes back.
Outage ==
    /\ mounted => changes < MaxChanges
    /\ changes' = IF mounted THEN changes + 1 ELSE changes
    /\ mounted' = ~mounted /\ seen' = {}
    /\ UNCHANGED <<source, dummy, marker, phase, options, todo, job, orphans, spoiled,
                   faults>>

\* scan_tile_folders(source).  Of a share that is gone an empty mount point
\* is left.
Tiles == {t \in Tile : mounted /\ source[t] # None}

\* list_sources: a folder that is not there has no files.
Listing(t) == IF t \in Tiles THEN DOMAIN source[t] ELSE {}

-----------------------------------------------------------------------------
(* Planning.                                                               *)

\* What the marker's counts tell apart.
Counts(files) == <<Cardinality(files \intersect Texture), Cardinality(files \ Texture)>>

\* Mutant of NeedsBuild: goes by the folder.
NeedsBuildIfMissing(t, verify) ==
    dummy[t] = None \/ (verify /\ marker[t] # None /\ Counts(marker[t]) # Counts(Listing(t)))

NeedsBuild(t, verify) ==
    marker[t] = None \/ (verify /\ Counts(marker[t]) # Counts(Listing(t)))

\* main up to the plan; no tiles at all is an error.  only is None or the
\* tiles that --only matches.
Start(only, verify, prune) ==
    LET names == IF only = None THEN Tiles ELSE Tiles \intersect only IN
    /\ phase = "idle" /\ Tiles # {}
    /\ phase' = "build"
    /\ options' = [only |-> only, prune |-> prune, names |-> names]
    /\ todo' = {t \in names : NeedsBuild(t, verify)}
    /\ seen' = Tiles
    /\ UNCHANGED <<source, mounted, changes, dummy, marker, job, orphans, spoiled, faults>>

-----------------------------------------------------------------------------
(* Building.                                                               *)

\* A thread of the pool takes a folder: it lists the source and makes the
\* directories.
TakeFolder(t) ==
    /\ t \in todo /\ Cardinality(Building) < Workers
    /\ todo' = todo \ {t}
    /\ job' = [u \in Building \union {t} |->
                 IF u = t THEN [listed |-> Listing(t), left |-> Listing(t)] ELSE job[u]]
    /\ dummy' = IF dummy[t] = None THEN [dummy EXCEPT ![t] = [f \in {} |-> "part"]] ELSE dummy
    /\ UNCHANGED <<disk, marker, phase, options, orphans, spoiled, faults>>

\* The thread is done with t, well or badly.
Drop(t) == job' = [u \in Building \ {t} |-> job[u]]

\* Mutant of Same: what is there is taken for copied.
SameName(t, f) == f \in DOMAIN dummy[t]

\* Is a file of the right size there already?
Same(t, f) ==
    /\ f \in DOMAIN dummy[t]
    /\ \/ f \in Texture /\ dummy[t][f] = "dds"
       \/ f \in Listing(t) \ Texture /\ dummy[t][f] = source[t][f]

Written(t, f, size) ==
    dummy' = [dummy EXCEPT ![t] =
                [g \in DOMAIN @ \union {f} |-> IF g = f THEN size ELSE @[g]]]

\* build_folder, one file: the textures come last.  A copy opens its source
\* before it cuts the dummy short; an error of either leaves a partial file
\* or none, and the folder is given up with whatever marker it has.
CopyFile(t, f) ==
    /\ t \in Building /\ f \in job[t].left
    /\ f \in Texture => job[t].left \subseteq Texture
    /\ \/ /\ Same(t, f) /\ job' = [job EXCEPT ![t].left = @ \ {f}]
          /\ UNCHANGED <<dummy, spoiled, faults>>
       \/ /\ ~Same(t, f) /\ f \in Texture \union Listing(t)
          /\ job' = [job EXCEPT ![t].left = @ \ {f}]
          /\ Written(t, f, IF f \in Texture THEN "dds" ELSE source[t][f])
          /\ UNCHANGED <<spoiled, faults>>
       \/ /\ ~Same(t, f) /\ Drop(t)
          /\ \/ Fault /\ (Written(t, f, "part") \/ UNCHANGED dummy)
             \/ f \notin Texture \union Listing(t) /\ UNCHANGED <<dummy, faults>>
          /\ spoiled' = IF marker[t] = None THEN spoiled ELSE spoiled \union {t}
    /\ UNCHANGED <<disk, marker, phase, options, todo, orphans>>

\* The marker, last.  Cut short, it is not read.
Mark(t) ==
    /\ t \in Building /\ job[t].left = {} /\ Drop(t)
    /\ \/ marker' = [marker EXCEPT ![t] = job[t].listed] /\ UNCHANGED faults
       \/ marker' = [marker EXCEPT ![t] = None] /\ Fault
    /\ spoiled' = spoiled \ {t}
    /\ UNCHANGED <<disk, dummy, phase, options, todo, orphans>>

-----------------------------------------------------------------------------
(* Pruning, and the end of a run.                                          *)

\* Mutant of Found: --only narrows what is there.
FoundByOnly == options.names

\* The names prune compares with: those of the plan, or with --only those of
\* a new scan.
Found == IF options.only = None THEN options.names ELSE Tiles

\* All threads are done.  prune picks marked folders only.
Built ==
    /\ phase = "build" /\ todo = {} /\ Building = {}
    /\ orphans' = IF options.prune THEN {t \in Tile \ Found : marker[t] # None} ELSE {}
    /\ phase' = IF orphans' = {} THEN "idle" ELSE "prune"
    /\ UNCHANGED <<disk, dummy, marker, options, todo, job, spoiled, faults>>

\* shutil.rmtree, one entry, in no particular order; then the folder.
Remove(t) ==
    /\ t \in orphans
    /\ \/ /\ \E f \in DOMAIN dummy[t] :
               dummy' = [dummy EXCEPT ![t] = [g \in DOMAIN @ \ {f} |-> @[g]]]
          /\ UNCHANGED <<marker, phase, orphans, spoiled>>
       \/ /\ marker[t] # None /\ marker' = [marker EXCEPT ![t] = None]
          /\ spoiled' = spoiled \ {t} /\ UNCHANGED <<dummy, phase, orphans>>
       \/ /\ marker[t] = None /\ DOMAIN dummy[t] = {}
          /\ dummy' = [dummy EXCEPT ![t] = None]
          /\ orphans' = orphans \ {t}
          /\ phase' = IF orphans' = {} THEN "idle" ELSE "prune"
          /\ UNCHANGED <<marker, spoiled>>
    /\ UNCHANGED <<disk, options, todo, job, faults>>

\* The run is killed, or an error of rmtree ends it: the files its threads
\* were writing are cut short.
Killed ==
    /\ phase # "idle" /\ Fault /\ phase' = "idle"
    /\ \E cut \in [Building -> SUBSET File] :
         /\ \A t \in Building : cut[t] \subseteq job[t].left /\ Cardinality(cut[t]) <= 1
         /\ dummy' = [t \in Tile |->
                        IF t \in Building
                        THEN [f \in DOMAIN dummy[t] \union cut[t] |->
                                IF f \in cut[t] THEN "part" ELSE dummy[t][f]]
                        ELSE dummy[t]]
    /\ spoiled' = spoiled \union {t \in Building \union orphans : marker[t] # None}
    /\ todo' = {} /\ job' = NoJob /\ orphans' = {}
    /\ UNCHANGED <<disk, marker, options>>

-----------------------------------------------------------------------------
Init ==
    /\ source \in [Tile -> {c \in Contents : DOMAIN c = File}] /\ mounted = TRUE
    /\ dummy = [t \in Tile |-> None] /\ marker = [t \in Tile |-> None]
    /\ phase = "idle" /\ todo = {} /\ job = NoJob /\ orphans = {}
    /\ options = [only |-> None, prune |-> FALSE, names |-> {}]
    /\ spoiled = {} /\ seen = {} /\ changes = 0 /\ faults = 0

Starts == {None} \union {{t} : t \in Tile}

Build(t) == TakeFolder(t) \/ Mark(t) \/ \E f \in File : CopyFile(t, f)

Next ==
    \/ \E t \in Tile, c \in Contents \union {None} : Rebuild(t, c)
    \/ Outage
    \/ \E only \in Starts, verify, prune \in BOOLEAN : Start(only, verify, prune)
    \/ \E t \in Tile : Build(t) \/ Remove(t)
    \/ Built \/ Killed

\* A run goes on to its end.  Nobody has to start one, or to mount the share.
Fairness == WF_vars((\E t \in Tile : Build(t) \/ Remove(t)) \/ Built)

Spec == Init /\ [][Next]_vars /\ Fairness

-----------------------------------------------------------------------------
(* Properties.                                                             *)

\* A marked folder is complete: every file its marker counted is there, none
\* of them cut short by an earlier run, unless it is being rebuilt or removed
\* now, or that broke off ("spoiled", see README).
MarkedMirrors ==
    \A t \in Tile \ (spoiled \union Building \union orphans) :
      marker[t] # None =>
        \A f \in marker[t] : f \in DOMAIN dummy[t] /\ dummy[t][f] # "part"

\* Pruning never touches the dummy of a tile that was in sight all through
\* the run, however the run was narrowed by --only.
PruneOnlyGone ==
    [][\A t \in seen :
         marker[t] # None /\ dummy[t] # None =>
           /\ dummy'[t] # None
           /\ \A f \in DOMAIN dummy[t] : f \in DOMAIN dummy'[t]]_vars

PlainStart == \E verify, prune \in BOOLEAN : Start(None, verify, prune)

\* A folder that failed, or that a killed run left behind, is built in the
\* end if somebody keeps running the script and the tile stays in sight.
RetriedUntilDone ==
    \A t \in Tile :
      <>[](t \in Tiles) /\ []<><<PlainStart>>_vars => <>[](marker[t] # None)

\* The module's docstring, line 35: "A folder that crashed mid-build has
\* no marker and is rebuilt in full."
CrashedHasNoMarker ==
    [][\A t \in Building : phase = "build" /\ phase' = "idle" => marker'[t] = None]_vars
=============================================================================
