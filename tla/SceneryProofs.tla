---------------------------- MODULE SceneryProofs ----------------------------
(***************************************************************************)
(* The dummy scenery, for any tiles and files, any number of worker        *)
(* threads, changes of the source, outages, failed files and kills.  Then  *)
(* the index of the scenery folders and the keep set made from it, for any *)
(* folders, grids and routes.  The two share nothing.                      *)
(***************************************************************************)
EXTENDS DummyScenery, SceneryIndex, WellFoundedInduction, TLAPS

-----------------------------------------------------------------------------
(* The dummy scenery: types, and which phase does what.                    *)

Values == Size \cup {"big", "dds", "part"}

\* A tile folder, real or dummy.
TileFolder == UNION {[fs -> Values] : fs \in SUBSET File}

Job == [listed : SUBSET File, left : SUBSET File]

DummyTypeOK ==
    /\ source \in [Tile -> TileFolder \cup {None}]
    /\ \A t \in Tile : source[t] # None =>
         \A f \in DOMAIN source[t] : source[t][f] # "part"
    /\ dummy \in [Tile -> TileFolder \cup {None}]
    /\ marker \in [Tile -> (SUBSET File) \cup {None}]
    /\ todo \subseteq Tile /\ orphans \subseteq Tile /\ Building \subseteq Tile
    /\ \A t \in Building : job[t] \in Job /\ dummy[t] # None
    /\ \A t \in Tile : marker[t] # None \/ t \in orphans => dummy[t] # None

\* Threads build in the one phase, and the folders being removed are those
\* of the other.
Phases ==
    /\ phase \in {"idle", "build", "prune"}
    /\ phase # "build" => todo = {} /\ Building = {}
    /\ phase # "prune" => orphans = {}

DummyInv == DummyTypeOK /\ Phases

LEMMA FolderOf ==
    ASSUME NEW c \in TileFolder
    PROVE  /\ DOMAIN c \in SUBSET File /\ c = [f \in DOMAIN c |-> c[f]]
           /\ \A f \in DOMAIN c : c[f] \in Values
           /\ c # None
  BY DummyConstants DEF TileFolder, DummyConstants, Values

LEMMA DummyInit == Init => DummyInv
  <1> SUFFICES ASSUME Init PROVE DummyInv
    OBVIOUS
  <1>1. \A c \in Contents : c \in TileFolder /\ \A f \in DOMAIN c : c[f] # "part"
    BY DummyConstants DEF Contents, TileFolder, Values, DummyConstants
  <1>2. Building = {}
    BY DEF Init, Building, NoJob
  <1>3. source \in [Tile -> Contents]
    BY DEF Init
  <1>4. source \in [Tile -> TileFolder \cup {None}]
    BY <1>1, <1>3
  <1>5. \A t \in Tile : source[t] # None => \A f \in DOMAIN source[t] : source[t][f] # "part"
    BY <1>1, <1>3
  <1>6. DummyTypeOK
    <2>1. /\ dummy = [t \in Tile |-> None] /\ marker = [t \in Tile |-> None]
          /\ todo = {} /\ orphans = {}
      BY DEF Init
    <2>2. dummy \in [Tile -> TileFolder \cup {None}]
      BY <2>1
    <2>3. marker \in [Tile -> (SUBSET File) \cup {None}]
      BY <2>1
    <2> QED
      BY <1>2, <1>4, <1>5, <2>1, <2>2, <2>3 DEF DummyTypeOK
  <1> QED
    BY <1>2, <1>6 DEF Init, DummyInv, Phases

\* One file is written into a dummy folder.
LEMMA WrittenFile ==
    ASSUME NEW t \in Tile, NEW f \in File, NEW v \in Values, DummyInv,
           dummy[t] # None,
           dummy' = [dummy EXCEPT ![t] =
                       [g \in DOMAIN dummy[t] \cup {f} |-> IF g = f THEN v ELSE dummy[t][g]]]
    PROVE  /\ dummy' \in [Tile -> TileFolder \cup {None}]
           /\ \A u \in Tile : dummy[u] # None => dummy'[u] # None
           /\ \A u \in Tile \ {t} : dummy'[u] = dummy[u]
           /\ DOMAIN dummy'[t] = DOMAIN dummy[t] \cup {f}
           /\ \A g \in DOMAIN dummy[t] \cup {f} :
                dummy'[t][g] = IF g = f THEN v ELSE dummy[t][g]
  <1> DEFINE new == [g \in DOMAIN dummy[t] \cup {f} |-> IF g = f THEN v ELSE dummy[t][g]]
  <1>1. dummy[t] \in TileFolder
    BY DEF DummyInv, DummyTypeOK
  <1>2. DOMAIN dummy[t] \in SUBSET File /\ \A g \in DOMAIN dummy[t] : dummy[t][g] \in Values
    BY <1>1, FolderOf
  <1>3. new \in [DOMAIN dummy[t] \cup {f} -> Values]
    BY <1>2
  <1>4. new \in TileFolder
    BY <1>2, <1>3 DEF TileFolder
  <1>5. new # None
    BY <1>4, FolderOf
  <1>6. dummy' = [dummy EXCEPT ![t] = new] /\ dummy \in [Tile -> TileFolder \cup {None}]
    BY DEF DummyInv, DummyTypeOK
  <1>7. dummy'[t] = new /\ \A u \in Tile \ {t} : dummy'[u] = dummy[u]
    BY <1>6
  <1>8. dummy' \in [Tile -> TileFolder \cup {None}]
    BY <1>4, <1>6
  <1>9. \A u \in Tile : dummy[u] # None => dummy'[u] # None
    BY <1>5, <1>7
  <1> QED
    BY <1>7, <1>8, <1>9

\* What a copy writes, and what it finds in place, is no partial file.
LEMMA CopyIsWhole ==
    ASSUME NEW t \in Tile, NEW f \in File, DummyInv, f \in Texture \cup Listing(t)
    PROVE  /\ (IF f \in Texture THEN "dds" ELSE source[t][f]) \in Values
           /\ (IF f \in Texture THEN "dds" ELSE source[t][f]) # "part"
  <1>1. CASE f \in Texture
    BY <1>1 DEF Values
  <1>2. CASE f \notin Texture
    <2>1. source[t] # None /\ f \in DOMAIN source[t]
      BY <1>2 DEF Listing, Tiles
    <2>2. source[t] \in TileFolder /\ source[t][f] # "part"
      BY <2>1 DEF DummyInv, DummyTypeOK
    <2> QED
      BY <1>2, <2>1, <2>2, FolderOf
  <1> QED
    BY <1>1, <1>2

\* The steps that build and remove nothing.
LEMMA SourceKeeps ==
    ASSUME DummyInv, Outage \/ \E t \in Tile, c \in Contents \cup {None} : Rebuild(t, c)
    PROVE  DummyInv' /\ UNCHANGED <<dummy, marker, phase, options, todo, job, orphans, spoiled>>
  <1>1. CASE Outage
    BY <1>1 DEF Outage, DummyInv, DummyTypeOK, Phases, Building
  <1>2. ASSUME NEW t \in Tile, NEW c \in Contents \cup {None}, Rebuild(t, c)
        PROVE  DummyInv' /\ UNCHANGED <<dummy, marker, phase, options, todo, job, orphans, spoiled>>
    <2>1. c # None => c \in TileFolder /\ \A f \in DOMAIN c : c[f] # "part"
      BY DummyConstants DEF Contents, TileFolder, Values, DummyConstants
    <2>2. source' = [source EXCEPT ![t] = c]
          /\ UNCHANGED <<dummy, marker, phase, options, todo, job, orphans, spoiled>>
      BY <1>2 DEF Rebuild
    <2>3. source' \in [Tile -> TileFolder \cup {None}]
      BY <2>1, <2>2 DEF DummyInv, DummyTypeOK
    <2>4. \A u \in Tile : source'[u] # None => \A f \in DOMAIN source'[u] : source'[u][f] # "part"
      BY <2>1, <2>2 DEF DummyInv, DummyTypeOK
    <2> QED
      BY <2>2, <2>3, <2>4 DEF DummyInv, DummyTypeOK, Phases, Building
  <1> QED
    BY <1>1, <1>2

LEMMA StartKeeps ==
    ASSUME NEW only, NEW verify, NEW prune, DummyInv, Start(only, verify, prune)
    PROVE  DummyInv' /\ UNCHANGED <<dummy, marker, job, orphans, spoiled>>
  BY DEF Start, DummyInv, DummyTypeOK, Phases, Building, Tiles

LEMMA TakeKeeps ==
    ASSUME NEW t \in Tile, DummyInv, TakeFolder(t)
    PROVE  /\ DummyInv'
           /\ Building' = Building \cup {t}
           /\ job'[t].listed = job'[t].left
           /\ \A u \in Building \ {t} : job'[u] = job[u]
           /\ \A u \in Tile \ {t} : dummy'[u] = dummy[u]
           /\ \A u \in Tile : dummy[u] # None => dummy'[u] = dummy[u]
           /\ UNCHANGED <<source, mounted, marker, phase, options, orphans, spoiled, seen>>
  <1> DEFINE new == [f \in {} |-> "part"]
             j == [listed |-> Listing(t), left |-> Listing(t)]
  <1>1. new \in TileFolder
    <2>1. {} \in SUBSET File /\ new \in [{} -> Values]
      OBVIOUS
    <2> QED
      BY <2>1 DEF TileFolder
  <1>2. new # None
    BY <1>1, FolderOf
  <1>3. Listing(t) \in SUBSET File
    BY FolderOf DEF Listing, Tiles, DummyInv, DummyTypeOK
  <1>4. /\ t \in todo /\ todo' = todo \ {t} /\ phase = "build" /\ orphans = {}
        /\ UNCHANGED <<source, mounted, marker, phase, options, orphans, spoiled, seen>>
    BY DEF TakeFolder, disk, DummyInv, Phases
  <1>5. dummy' = IF dummy[t] = None THEN [dummy EXCEPT ![t] = new] ELSE dummy
    BY DEF TakeFolder
  <1> HIDE DEF new
  <1>6. /\ dummy' \in [Tile -> TileFolder \cup {None}] /\ dummy'[t] # None
        /\ \A u \in Tile \ {t} : dummy'[u] = dummy[u]
        /\ \A u \in Tile : dummy[u] # None => dummy'[u] = dummy[u]
    BY <1>1, <1>2, <1>5 DEF DummyInv, DummyTypeOK
  <1>7. job' = [u \in Building \cup {t} |-> IF u = t THEN j ELSE job[u]]
    BY DEF TakeFolder
  <1>8. Building' = Building \cup {t} /\ job'[t] = j
    BY <1>7 DEF Building
  <1>9. \A u \in Building \ {t} : job'[u] = job[u]
    BY <1>7
  <1>10. j \in Job /\ j.listed = j.left
    BY <1>3 DEF Job
  <1>11. \A u \in Building' : job'[u] \in Job /\ dummy'[u] # None
    <2> TAKE u \in Building'
    <2>1. CASE u = t
      BY <1>6, <1>8, <1>10, <2>1
    <2>2. CASE u # t
      <3>1. u \in Building /\ u \in Tile
        BY <1>8, <2>2 DEF DummyInv, DummyTypeOK
      <3> QED
        BY <1>6, <1>9, <2>2, <3>1 DEF DummyInv, DummyTypeOK
    <2> QED
      BY <2>1, <2>2
  <1>12. DummyTypeOK'
    BY <1>4, <1>6, <1>8, <1>11 DEF DummyInv, DummyTypeOK
  <1>13. Phases'
    BY <1>4 DEF DummyInv, Phases
  <1> QED
    BY <1>4, <1>6, <1>8, <1>9, <1>10, <1>12, <1>13 DEF DummyInv

\* A thread that is done with t, well or badly.
LEMMA DropKeeps ==
    ASSUME NEW t \in Building, DummyInv, Drop(t), dummy' \in [Tile -> TileFolder \cup {None}],
           \A u \in Tile : dummy[u] # None => dummy'[u] # None,
           marker' \in [Tile -> (SUBSET File) \cup {None}],
           \A u \in Tile \ {t} : marker'[u] = marker[u],
           UNCHANGED <<source, phase, todo, orphans>>
    PROVE  DummyInv' /\ Building' = Building \ {t} /\ \A u \in Building \ {t} : job'[u] = job[u]
  <1>1. job' = [u \in Building \ {t} |-> job[u]]
    BY DEF Drop
  <1>2. Building' = Building \ {t} /\ \A u \in Building \ {t} : job'[u] = job[u]
    BY <1>1 DEF Building
  <1>3. DummyTypeOK'
    BY <1>2 DEF DummyInv, DummyTypeOK
  <1>4. Phases'
    BY <1>2 DEF DummyInv, Phases
  <1> QED
    BY <1>2, <1>3, <1>4 DEF DummyInv

\* A copy: the file is in place, is written, or the folder is given up.
LEMMA CopyKeeps ==
    ASSUME NEW t \in Tile, NEW f \in File, DummyInv, CopyFile(t, f)
    PROVE  /\ DummyInv' /\ t \in Building
           /\ \A u \in Tile \ {t} : dummy'[u] = dummy[u]
           /\ DOMAIN dummy[t] \subseteq DOMAIN dummy'[t]
           /\ dummy[t] # None => dummy'[t] # None
           /\ UNCHANGED <<source, mounted, seen, marker, phase, options, todo, orphans>>
           /\ \/ /\ Building' = Building /\ UNCHANGED spoiled
                 /\ job' = [job EXCEPT ![t].left = @ \ {f}]
                 /\ f \in DOMAIN dummy'[t] /\ dummy'[t][f] # "part"
                 /\ \A g \in DOMAIN dummy[t] \ {f} : dummy'[t][g] = dummy[t][g]
              \/ /\ Building' = Building \ {t} /\ \A u \in Building \ {t} : job'[u] = job[u]
                 /\ spoiled' = IF marker[t] = None THEN spoiled ELSE spoiled \cup {t}
  <1> DEFINE whole == IF f \in Texture THEN "dds" ELSE source[t][f]
             goes == [job EXCEPT ![t].left = @ \ {f}]
             Put(v) == [dummy EXCEPT ![t] =
                          [g \in DOMAIN dummy[t] \cup {f} |-> IF g = f THEN v ELSE dummy[t][g]]]
  <1>1. /\ t \in Building /\ dummy[t] # None /\ job[t] \in Job /\ f \in job[t].left
        /\ UNCHANGED <<source, mounted, seen, marker, phase, options, todo, orphans>>
    BY DEF CopyFile, disk, DummyInv, DummyTypeOK
  <1>2. \A v : Written(t, f, v) <=> dummy' = Put(v)
    BY DEF Written
  <1>3. ASSUME job' = goes
        PROVE  /\ Building' = Building /\ \A u \in Building : job'[u] \in Job
    BY <1>1, <1>3 DEF Building, Job, DummyInv, DummyTypeOK
  <1>4. CASE Same(t, f) /\ job' = goes /\ UNCHANGED <<dummy, spoiled>>
    <2>1. f \in DOMAIN dummy[t] /\ dummy[t][f] # "part"
      BY <1>4, CopyIsWhole DEF Same
    <2>2. DummyInv'
      BY <1>1, <1>3, <1>4 DEF DummyInv, DummyTypeOK, Phases
    <2> QED
      BY <1>1, <1>3, <1>4, <2>1, <2>2
  <1>5. CASE f \in Texture \cup Listing(t) /\ job' = goes /\ Written(t, f, whole)
             /\ UNCHANGED spoiled
    <2>1. whole \in Values /\ whole # "part"
      BY <1>5, CopyIsWhole
    <2> HIDE DEF whole
    <2>2. dummy' = Put(whole)
      BY <1>2, <1>5
    <2>3. /\ dummy' \in [Tile -> TileFolder \cup {None}]
          /\ \A u \in Tile : dummy[u] # None => dummy'[u] # None
          /\ \A u \in Tile \ {t} : dummy'[u] = dummy[u]
          /\ DOMAIN dummy'[t] = DOMAIN dummy[t] \cup {f}
          /\ \A g \in DOMAIN dummy[t] \cup {f} :
               dummy'[t][g] = IF g = f THEN whole ELSE dummy[t][g]
      BY <1>1, <2>1, <2>2, WrittenFile
    <2>4. DummyInv'
      BY <1>1, <1>3, <1>5, <2>3 DEF DummyInv, DummyTypeOK, Phases
    <2> QED
      BY <1>1, <1>3, <1>5, <2>1, <2>3, <2>4
  <1>6. CASE Drop(t) /\ (Written(t, f, "part") \/ UNCHANGED dummy)
             /\ spoiled' = IF marker[t] = None THEN spoiled ELSE spoiled \cup {t}
    <2>1. /\ dummy' \in [Tile -> TileFolder \cup {None}]
          /\ \A u \in Tile : dummy[u] # None => dummy'[u] # None
          /\ \A u \in Tile \ {t} : dummy'[u] = dummy[u]
          /\ DOMAIN dummy[t] \subseteq DOMAIN dummy'[t]
      <3>1. CASE UNCHANGED dummy
        BY <3>1 DEF DummyInv, DummyTypeOK
      <3>2. ASSUME NEW v \in Values, Written(t, f, v)
            PROVE  /\ dummy' \in [Tile -> TileFolder \cup {None}]
                   /\ \A u \in Tile : dummy[u] # None => dummy'[u] # None
                   /\ \A u \in Tile \ {t} : dummy'[u] = dummy[u]
                   /\ DOMAIN dummy[t] \subseteq DOMAIN dummy'[t]
        <4>1. dummy' = Put(v)
          BY <1>2, <3>2
        <4>2. /\ dummy' \in [Tile -> TileFolder \cup {None}]
              /\ \A u \in Tile : dummy[u] # None => dummy'[u] # None
              /\ \A u \in Tile \ {t} : dummy'[u] = dummy[u]
              /\ DOMAIN dummy'[t] = DOMAIN dummy[t] \cup {f}
              /\ \A g \in DOMAIN dummy[t] \cup {f} :
                   dummy'[t][g] = IF g = f THEN v ELSE dummy[t][g]
          BY <1>1, <3>2, <4>1, WrittenFile
        <4> QED
          BY <4>2
      <3>3. "part" \in Values
        BY DEF Values
      <3> QED
        BY <1>6, <3>1, <3>2, <3>3
    <2>2. marker' \in [Tile -> (SUBSET File) \cup {None}]
          /\ \A u \in Tile \ {t} : marker'[u] = marker[u]
      BY <1>1 DEF DummyInv, DummyTypeOK
    <2>3. DummyInv' /\ Building' = Building \ {t} /\ \A u \in Building \ {t} : job'[u] = job[u]
      BY <1>1, <1>6, <2>1, <2>2, DropKeeps
    <2> QED
      BY <1>1, <1>6, <2>1, <2>3
  <1> QED
    BY <1>4, <1>5, <1>6 DEF CopyFile

LEMMA MarkKeeps ==
    ASSUME NEW t \in Tile, DummyInv, Mark(t)
    PROVE  /\ DummyInv' /\ t \in Building /\ job[t].left = {}
           /\ Building' = Building \ {t} /\ \A u \in Building \ {t} : job'[u] = job[u]
           /\ marker'[t] = job[t].listed \/ marker'[t] = None
           /\ \A u \in Tile \ {t} : marker'[u] = marker[u]
           /\ spoiled' = spoiled \ {t}
           /\ UNCHANGED <<source, mounted, seen, dummy, phase, options, todo, orphans>>
  <1>1. /\ t \in Building /\ job[t].left = {} /\ Drop(t) /\ spoiled' = spoiled \ {t}
        /\ UNCHANGED <<source, mounted, seen, dummy, phase, options, todo, orphans>>
    BY DEF Mark, disk
  <1>2. job[t].listed \in SUBSET File
    BY <1>1 DEF DummyInv, DummyTypeOK, Job
  <1>3. \/ marker' = [marker EXCEPT ![t] = job[t].listed]
        \/ marker' = [marker EXCEPT ![t] = None]
    BY DEF Mark
  <1>4. /\ marker' \in [Tile -> (SUBSET File) \cup {None}]
        /\ marker'[t] = job[t].listed \/ marker'[t] = None
        /\ \A u \in Tile \ {t} : marker'[u] = marker[u]
    BY <1>2, <1>3 DEF DummyInv, DummyTypeOK
  <1>5. dummy' \in [Tile -> TileFolder \cup {None}]
        /\ \A u \in Tile : dummy[u] # None => dummy'[u] # None
    BY <1>1 DEF DummyInv, DummyTypeOK
  <1>6. DummyInv' /\ Building' = Building \ {t} /\ \A u \in Building \ {t} : job'[u] = job[u]
    BY <1>1, <1>4, <1>5, DropKeeps
  <1> QED
    BY <1>1, <1>4, <1>6

LEMMA BuiltKeeps ==
    ASSUME DummyInv, Built
    PROVE  DummyInv' /\ UNCHANGED <<source, mounted, seen, dummy, marker, job, spoiled>>
           /\ orphans = {} /\ orphans' \subseteq {t \in Tile \ Found : marker[t] # None}
           /\ phase = "build" /\ phase' # "build"
  BY DEF Built, DummyInv, DummyTypeOK, Phases, Building, disk

LEMMA RemoveKeeps ==
    ASSUME NEW t \in Tile, DummyInv, Remove(t)
    PROVE  /\ DummyInv' /\ t \in orphans /\ phase' # "build"
           /\ orphans' = orphans \/ (orphans' = orphans \ {t} /\ marker'[t] = None)
           /\ \A u \in Tile \ {t} : dummy'[u] = dummy[u] /\ marker'[u] = marker[u]
           /\ \/ UNCHANGED <<spoiled, marker>>
              \/ spoiled' = spoiled \ {t} /\ marker'[t] = None /\ UNCHANGED orphans
           /\ UNCHANGED <<source, mounted, seen, job>>
  <1>1. /\ t \in orphans /\ phase = "prune" /\ Building = {} /\ todo = {}
        /\ UNCHANGED <<source, mounted, seen, job, todo>>
    BY DEF Remove, disk, DummyInv, Phases
  <1>2. Building' = {}
    BY <1>1 DEF Building
  <1>3. CASE /\ \E f \in DOMAIN dummy[t] :
                  dummy' = [dummy EXCEPT ![t] = [g \in DOMAIN dummy[t] \ {f} |-> dummy[t][g]]]
             /\ UNCHANGED <<marker, phase, orphans, spoiled>>
    <2>1. PICK f \in DOMAIN dummy[t] :
            dummy' = [dummy EXCEPT ![t] = [g \in DOMAIN dummy[t] \ {f} |-> dummy[t][g]]]
      BY <1>3
    <2> DEFINE new == [g \in DOMAIN dummy[t] \ {f} |-> dummy[t][g]]
    <2>2. dummy[t] \in TileFolder
      BY <1>1 DEF DummyInv, DummyTypeOK
    <2>3. DOMAIN dummy[t] \in SUBSET File /\ \A g \in DOMAIN dummy[t] : dummy[t][g] \in Values
      BY <2>2, FolderOf
    <2>4. new \in [DOMAIN dummy[t] \ {f} -> Values] /\ DOMAIN dummy[t] \ {f} \in SUBSET File
      BY <2>3
    <2>5. new \in TileFolder
      BY <2>4 DEF TileFolder
    <2>6. new # None
      BY <2>5, FolderOf
    <2>7. dummy' = [dummy EXCEPT ![t] = new]
      BY <2>1
    <2> HIDE DEF new
    <2>8. /\ dummy' \in [Tile -> TileFolder \cup {None}] /\ dummy'[t] # None
          /\ \A u \in Tile \ {t} : dummy'[u] = dummy[u]
      BY <2>5, <2>6, <2>7 DEF DummyInv, DummyTypeOK
    <2>9. DummyInv'
      BY <1>1, <1>2, <1>3, <2>8 DEF DummyInv, DummyTypeOK, Phases
    <2> QED
      BY <1>1, <1>3, <2>8, <2>9
  <1>4. CASE marker' = [marker EXCEPT ![t] = None] /\ spoiled' = spoiled \ {t}
             /\ UNCHANGED <<dummy, phase, orphans>>
    <2>1. marker' \in [Tile -> (SUBSET File) \cup {None}] /\ marker'[t] = None
          /\ \A u \in Tile \ {t} : marker'[u] = marker[u]
      BY <1>4 DEF DummyInv, DummyTypeOK
    <2>2. DummyInv'
      BY <1>1, <1>2, <1>4, <2>1 DEF DummyInv, DummyTypeOK, Phases
    <2> QED
      BY <1>1, <1>4, <2>1, <2>2
  <1>5. CASE /\ marker[t] = None /\ dummy' = [dummy EXCEPT ![t] = None]
             /\ orphans' = orphans \ {t} /\ UNCHANGED <<marker, spoiled>>
             /\ phase' = IF orphans' = {} THEN "idle" ELSE "prune"
    <2>1. dummy' \in [Tile -> TileFolder \cup {None}] /\ \A u \in Tile \ {t} : dummy'[u] = dummy[u]
      BY <1>5 DEF DummyInv, DummyTypeOK
    <2>2. DummyInv'
      BY <1>1, <1>2, <1>5, <2>1 DEF DummyInv, DummyTypeOK, Phases
    <2> QED
      BY <1>1, <1>5, <2>1, <2>2
  <1>6. \/ /\ \E f \in DOMAIN dummy[t] :
                dummy' = [dummy EXCEPT ![t] = [g \in DOMAIN dummy[t] \ {f} |-> dummy[t][g]]]
           /\ UNCHANGED <<marker, phase, orphans, spoiled>>
        \/ /\ marker' = [marker EXCEPT ![t] = None] /\ spoiled' = spoiled \ {t}
           /\ UNCHANGED <<dummy, phase, orphans>>
        \/ /\ marker[t] = None /\ dummy' = [dummy EXCEPT ![t] = None]
           /\ orphans' = orphans \ {t} /\ UNCHANGED <<marker, spoiled>>
           /\ phase' = IF orphans' = {} THEN "idle" ELSE "prune"
    BY DEF Remove
  <1> QED
    BY <1>3, <1>4, <1>5, <1>6

\* A killed run leaves files cut short in the folders its threads had taken.
LEMMA KilledKeeps ==
    ASSUME DummyInv, Killed
    PROVE  /\ DummyInv' /\ Building' = {} /\ orphans' = {} /\ phase' = "idle"
           /\ \A u \in Tile \ Building : dummy'[u] = dummy[u]
           /\ \A u \in Tile : dummy[u] # None => DOMAIN dummy[u] \subseteq DOMAIN dummy'[u]
                                               /\ dummy'[u] # None
           /\ spoiled' = spoiled \cup {t \in Building \cup orphans : marker[t] # None}
           /\ UNCHANGED <<source, mounted, seen, marker>>
  <1>1. PICK cut \in [Building -> SUBSET File] :
          dummy' = [t \in Tile |->
                      IF t \in Building
                      THEN [f \in DOMAIN dummy[t] \cup cut[t] |->
                              IF f \in cut[t] THEN "part" ELSE dummy[t][f]]
                      ELSE dummy[t]]
    BY DEF Killed
  <1>2. /\ phase' = "idle" /\ todo' = {} /\ job' = NoJob /\ orphans' = {}
        /\ spoiled' = spoiled \cup {t \in Building \cup orphans : marker[t] # None}
        /\ UNCHANGED <<source, mounted, seen, marker>>
    BY DEF Killed, disk
  <1>3. Building' = {}
    BY <1>2 DEF Building, NoJob
  <1>4. ASSUME NEW t \in Building
        PROVE  /\ dummy'[t] \in TileFolder /\ dummy'[t] # None
               /\ DOMAIN dummy[t] \subseteq DOMAIN dummy'[t]
    <2> DEFINE new == [f \in DOMAIN dummy[t] \cup cut[t] |->
                         IF f \in cut[t] THEN "part" ELSE dummy[t][f]]
    <2>1. t \in Tile /\ dummy[t] \in TileFolder /\ cut[t] \in SUBSET File
      BY DEF DummyInv, DummyTypeOK
    <2>2. DOMAIN dummy[t] \in SUBSET File /\ \A g \in DOMAIN dummy[t] : dummy[t][g] \in Values
      BY <2>1, FolderOf
    <2>3. "part" \in Values
      BY DEF Values
    <2>4. new \in [DOMAIN dummy[t] \cup cut[t] -> Values]
          /\ DOMAIN dummy[t] \cup cut[t] \in SUBSET File
      BY <2>1, <2>2, <2>3
    <2>5. new \in TileFolder
      BY <2>4 DEF TileFolder
    <2>6. dummy'[t] = new
      BY <1>1, <2>1
    <2>7. DOMAIN new = DOMAIN dummy[t] \cup cut[t]
      OBVIOUS
    <2> HIDE DEF new
    <2> QED
      BY <2>5, <2>6, <2>7, FolderOf
  <1>5. \A u \in Tile \ Building : dummy'[u] = dummy[u]
    BY <1>1
  <1>6. dummy' \in [Tile -> TileFolder \cup {None}]
    <2>1. \A u \in Tile : dummy'[u] \in TileFolder \cup {None}
      BY <1>4, <1>5 DEF DummyInv, DummyTypeOK
    <2>2. \E h : dummy' = [u \in Tile |-> h[u]]
      <3>1. dummy' = [u \in Tile |-> dummy'[u]]
        BY <1>1
      <3> QED
        BY <3>1
    <2> QED
      BY <2>1, <2>2
  <1>7. \A u \in Tile : dummy[u] # None => DOMAIN dummy[u] \subseteq DOMAIN dummy'[u]
                                           /\ dummy'[u] # None
    BY <1>4, <1>5
  <1>8. DummyInv'
    BY <1>2, <1>3, <1>6, <1>7 DEF DummyInv, DummyTypeOK, Phases
  <1> QED
    BY <1>2, <1>3, <1>5, <1>7, <1>8

LEMMA DummyNext == ASSUME DummyInv, [Next]_vars PROVE DummyInv'
  <1>1. ASSUME NEW t \in Tile, Build(t) \/ Remove(t) PROVE DummyInv'
    BY <1>1, TakeKeeps, CopyKeeps, MarkKeeps, RemoveKeeps DEF Build
  <1>2. ASSUME NEW only \in Starts, NEW verify \in BOOLEAN, NEW prune \in BOOLEAN,
               Start(only, verify, prune)
        PROVE DummyInv'
    BY <1>2, StartKeeps
  <1>3. CASE UNCHANGED vars
    BY <1>3 DEF vars, disk, DummyInv, DummyTypeOK, Phases, Building
  <1> QED
    BY <1>1, <1>2, <1>3, SourceKeeps, BuiltKeeps, KilledKeeps DEF Next

-----------------------------------------------------------------------------
(* What a marker vouches for.                                              *)

\* What makes the marker honest: whatever a thread has crossed off its list is
\* in the dummy, and whole, so that the marker, written when the list is
\* empty, counts only what is there.
CrossedOff ==
    \A t \in Building : \A f \in job[t].listed \ job[t].left :
      f \in DOMAIN dummy[t] /\ dummy[t][f] # "part"

MirrorInv == DummyInv /\ CrossedOff /\ MarkedMirrors

LEMMA MirrorStart == Init => MirrorInv
  <1> SUFFICES ASSUME Init PROVE MirrorInv
    OBVIOUS
  <1>1. Building = {} /\ \A t \in Tile : marker[t] = None
    BY DEF Init, Building, NoJob
  <1> QED
    BY <1>1, DummyInit DEF MirrorInv, CrossedOff, MarkedMirrors

LEMMA MirrorBuild ==
    ASSUME NEW t \in Tile, MirrorInv, DummyInv', Build(t)
    PROVE  MirrorInv'
  <1> USE DEF MirrorInv
  <1>1. CASE TakeFolder(t)
    <2>1. /\ Building' = Building \cup {t} /\ job'[t].listed = job'[t].left
          /\ \A u \in Building \ {t} : job'[u] = job[u]
          /\ \A u \in Tile \ {t} : dummy'[u] = dummy[u]
          /\ UNCHANGED <<marker, orphans, spoiled>>
      BY <1>1, TakeKeeps
    <2>2. Building \subseteq Tile
      BY DEF DummyInv, DummyTypeOK
    <2>3. CrossedOff'
      BY <2>1, <2>2 DEF CrossedOff
    <2>4. MarkedMirrors'
      BY <2>1 DEF MarkedMirrors
    <2> QED
      BY <2>3, <2>4
  <1>2. ASSUME NEW f \in File, CopyFile(t, f) PROVE MirrorInv'
    <2>0. /\ t \in Building /\ Building \subseteq Tile /\ job[t] \in Job
          /\ \A u \in Tile \ {t} : dummy'[u] = dummy[u]
          /\ UNCHANGED <<marker, orphans>>
      BY <1>2, CopyKeeps DEF DummyInv, DummyTypeOK
    <2>1. CASE /\ Building' = Building /\ UNCHANGED spoiled
               /\ job' = [job EXCEPT ![t].left = @ \ {f}]
               /\ f \in DOMAIN dummy'[t] /\ dummy'[t][f] # "part"
               /\ \A g \in DOMAIN dummy[t] \ {f} : dummy'[t][g] = dummy[t][g]
               /\ DOMAIN dummy[t] \subseteq DOMAIN dummy'[t]
      <3>1. job'[t].listed = job[t].listed /\ job'[t].left = job[t].left \ {f}
            /\ \A u \in Building \ {t} : job'[u] = job[u]
        BY <2>0, <2>1 DEF Building, Job
      <3>2. CrossedOff'
        BY <2>0, <2>1, <3>1 DEF CrossedOff
      <3>3. MarkedMirrors'
        BY <2>0, <2>1 DEF MarkedMirrors
      <3> QED
        BY <3>2, <3>3
    <2>2. CASE /\ Building' = Building \ {t} /\ \A u \in Building \ {t} : job'[u] = job[u]
               /\ spoiled' = IF marker[t] = None THEN spoiled ELSE spoiled \cup {t}
      <3>1. CrossedOff'
        BY <2>0, <2>2 DEF CrossedOff
      <3>2. MarkedMirrors'
        BY <2>0, <2>2 DEF MarkedMirrors
      <3> QED
        BY <3>1, <3>2
    <2> QED
      BY <1>2, <2>1, <2>2, CopyKeeps
  <1>3. CASE Mark(t)
    <2>1. /\ t \in Building /\ job[t].left = {} /\ Building' = Building \ {t}
          /\ \A u \in Building \ {t} : job'[u] = job[u]
          /\ marker'[t] = job[t].listed \/ marker'[t] = None
          /\ \A u \in Tile \ {t} : marker'[u] = marker[u]
          /\ spoiled' = spoiled \ {t} /\ UNCHANGED <<dummy, orphans>>
      BY <1>3, MarkKeeps
    <2>2. CrossedOff'
      BY <2>1 DEF CrossedOff
    <2>3. marker'[t] # None =>
            \A f \in marker'[t] : f \in DOMAIN dummy[t] /\ dummy[t][f] # "part"
      BY <2>1 DEF CrossedOff
    <2>4. MarkedMirrors'
      BY <2>1, <2>3 DEF MarkedMirrors
    <2> QED
      BY <2>2, <2>4
  <1> QED
    BY <1>1, <1>2, <1>3 DEF Build

LEMMA MirrorNext == ASSUME MirrorInv, [Next]_vars PROVE MirrorInv'
  <1> USE DEF MirrorInv
  <1>0. DummyInv'
    BY DummyNext
  <1>1. ASSUME NEW t \in Tile, Build(t) PROVE MirrorInv'
    BY <1>0, <1>1, MirrorBuild
  <1>2. ASSUME NEW t \in Tile, Remove(t) PROVE MirrorInv'
    <2>1. /\ t \in orphans
          /\ orphans' = orphans \/ (orphans' = orphans \ {t} /\ marker'[t] = None)
          /\ \A u \in Tile \ {t} : dummy'[u] = dummy[u] /\ marker'[u] = marker[u]
          /\ \/ UNCHANGED <<spoiled, marker>>
             \/ spoiled' = spoiled \ {t} /\ marker'[t] = None /\ UNCHANGED orphans
          /\ UNCHANGED job /\ Building = {}
      BY <1>2, RemoveKeeps DEF Remove, DummyInv, Phases
    <2>2. Building' = {}
      BY <2>1 DEF Building
    <2>3. MarkedMirrors'
      BY <2>1, <2>2 DEF MarkedMirrors
    <2> QED
      BY <1>0, <2>2, <2>3 DEF CrossedOff
  <1>3. CASE Built
    <2>1. /\ UNCHANGED <<dummy, marker, job, spoiled>> /\ orphans = {}
      BY <1>3, BuiltKeeps
    <2> QED
      BY <1>0, <2>1 DEF CrossedOff, MarkedMirrors, Building
  <1>4. CASE Killed
    <2>1. /\ Building' = {} /\ orphans' = {} /\ UNCHANGED marker
          /\ \A u \in Tile \ Building : dummy'[u] = dummy[u]
          /\ spoiled' = spoiled \cup {t \in Building \cup orphans : marker[t] # None}
      BY <1>4, KilledKeeps
    <2> QED
      BY <1>0, <2>1 DEF CrossedOff, MarkedMirrors
  <1>5. CASE UNCHANGED <<dummy, marker, job, orphans, spoiled>>
    BY <1>0, <1>5 DEF CrossedOff, MarkedMirrors, Building
  <1>6. ASSUME NEW only \in Starts, NEW verify \in BOOLEAN, NEW prune \in BOOLEAN,
               Start(only, verify, prune)
        PROVE UNCHANGED <<dummy, marker, job, orphans, spoiled>>
    BY <1>6, StartKeeps
  <1>7. CASE UNCHANGED vars
    BY <1>5, <1>7 DEF vars
  <1> QED
    BY <1>1, <1>2, <1>3, <1>4, <1>5, <1>6, <1>7, SourceKeeps DEF Next

\* Through kills, failed files, rebuilt tiles and outages, a marked folder
\* that no work on it spoiled holds every file its marker counted, whole.
THEOREM MarkersAreHonest == Spec => []MarkedMirrors
  <1>1. MirrorInv => MarkedMirrors
    BY DEF MirrorInv
  <1> QED
    BY <1>1, MirrorStart, MirrorNext, PTL DEF Spec

-----------------------------------------------------------------------------
(* What pruning leaves alone.                                              *)

\* The plan of a run without --only lists whatever has been in sight since, and
\* nothing of that is ever among the folders being removed.
SeenPlanned == phase = "build" /\ options.only = None => seen \subseteq options.names

PruneInv ==
    DummyInv /\ seen \subseteq Tiles /\ SeenPlanned /\ orphans \intersect seen = {}

LEMMA PruneNext == ASSUME PruneInv, [Next]_vars PROVE PruneInv'
  <1> USE DEF PruneInv
  <1>0. DummyInv'
    BY DummyNext
  <1>1. CASE Outage
    BY <1>0, <1>1 DEF Outage, SeenPlanned
  <1>2. ASSUME NEW t \in Tile, NEW c \in Contents \cup {None}, Rebuild(t, c)
        PROVE  PruneInv'
    <2>1. /\ source' = [source EXCEPT ![t] = c]
          /\ seen' = IF c = None THEN seen \ {t} ELSE seen
          /\ UNCHANGED <<mounted, phase, options, orphans>>
      BY <1>2 DEF Rebuild
    <2>2. seen' \subseteq Tiles'
      BY <2>1 DEF Tiles, DummyInv, DummyTypeOK
    <2> QED
      BY <1>0, <2>1, <2>2 DEF SeenPlanned
  <1>3. ASSUME NEW only, NEW verify, NEW prune, Start(only, verify, prune)
        PROVE  PruneInv'
    <2>1. /\ phase = "idle" /\ seen' = Tiles /\ Tiles' = Tiles /\ UNCHANGED orphans
          /\ options' = [only |-> only, prune |-> prune,
                         names |-> IF only = None THEN Tiles ELSE Tiles \intersect only]
      BY <1>3 DEF Start, Tiles
    <2>2. SeenPlanned'
      BY <2>1 DEF SeenPlanned
    <2> QED
      BY <1>0, <2>1, <2>2 DEF DummyInv, Phases
  <1>4. CASE Built
    <2>1. /\ UNCHANGED <<source, mounted, seen>> /\ phase = "build" /\ phase' # "build"
          /\ orphans' \subseteq Tile \ Found
      BY <1>4, BuiltKeeps
    <2>2. seen \subseteq Found
      BY <2>1 DEF Found, SeenPlanned
    <2> QED
      BY <1>0, <2>1, <2>2 DEF SeenPlanned, Tiles
  <1>5. ASSUME orphans' \subseteq orphans, UNCHANGED <<source, mounted, seen>>,
               phase' # "build" \/ UNCHANGED <<phase, options>>
        PROVE  PruneInv'
    BY <1>0, <1>5 DEF SeenPlanned, Tiles
  <1>6. ASSUME NEW t \in Tile, Build(t) \/ Remove(t) PROVE PruneInv'
    <2>1. ASSUME NEW f \in File, CopyFile(t, f) PROVE PruneInv'
      BY <1>5, <2>1, CopyKeeps
    <2>2. CASE TakeFolder(t)
      BY <1>5, <2>2, TakeKeeps
    <2>3. CASE Mark(t)
      BY <1>5, <2>3, MarkKeeps
    <2>4. CASE Remove(t)
      BY <1>5, <2>4, RemoveKeeps
    <2> QED
      BY <1>6, <2>1, <2>2, <2>3, <2>4 DEF Build
  <1>7. CASE Killed
    BY <1>5, <1>7, KilledKeeps
  <1>8. CASE UNCHANGED vars
    BY <1>5, <1>8 DEF vars, disk
  <1> QED
    BY <1>1, <1>2, <1>3, <1>4, <1>6, <1>7, <1>8 DEF Next

\* Only the removal of t's folder takes anything from it.
LEMMA OnlyRemoveTakes ==
    ASSUME DummyInv, [Next]_vars, NEW t \in Tile \ orphans, dummy[t] # None
    PROVE  dummy'[t] # None /\ DOMAIN dummy[t] \subseteq DOMAIN dummy'[t]
  <1>1. ASSUME NEW u \in Tile, NEW f \in File, CopyFile(u, f)
        PROVE  dummy'[t] # None /\ DOMAIN dummy[t] \subseteq DOMAIN dummy'[t]
    <2>1. DummyInv' /\ u \in Building /\ UNCHANGED orphans
          /\ (\A v \in Tile \ {u} : dummy'[v] = dummy[v])
          /\ DOMAIN dummy[u] \subseteq DOMAIN dummy'[u]
      BY <1>1, CopyKeeps
    <2>2. dummy[u] # None => dummy'[u] # None
      BY <1>1, CopyKeeps
    <2> QED
      BY <2>1, <2>2
  <1>2. ASSUME NEW u \in Tile, TakeFolder(u) \/ Mark(u) \/ Remove(u)
        PROVE  dummy'[t] = dummy[t]
    BY <1>2, TakeKeeps, MarkKeeps, RemoveKeeps
  <1>3. ASSUME NEW only, NEW verify, NEW prune, Start(only, verify, prune)
        PROVE  dummy'[t] = dummy[t]
    BY <1>3, StartKeeps
  <1>4. CASE UNCHANGED vars
    BY <1>4 DEF vars
  <1> QED
    BY <1>1, <1>2, <1>3, <1>4, SourceKeeps, BuiltKeeps, KilledKeeps DEF Next, Build

\* However the run was narrowed by --only, and whatever comes and goes meanwhile,
\* pruning takes no file of a tile that was in sight all through the run.
THEOREM PruneSparesTheSeen == Spec => PruneOnlyGone
  <1>1. Init => PruneInv
    BY DummyInit DEF Init, PruneInv, SeenPlanned, Tiles
  <1>2. ASSUME PruneInv, [Next]_vars
        PROVE  \A t \in seen : marker[t] # None /\ dummy[t] # None =>
                 /\ dummy'[t] # None
                 /\ \A f \in DOMAIN dummy[t] : f \in DOMAIN dummy'[t]
    <2> TAKE t \in seen
    <2>1. t \in Tile \ orphans
      BY <1>2 DEF PruneInv, Tiles
    <2> QED
      BY <1>2, <2>1, OnlyRemoveTakes DEF PruneInv
  <1>3. PruneInv /\ [Next]_vars =>
          [\A t \in seen : marker[t] # None /\ dummy[t] # None =>
             /\ dummy'[t] # None
             /\ \A f \in DOMAIN dummy[t] : f \in DOMAIN dummy'[t]]_vars
    BY <1>2
  <1> QED
    BY <1>1, <1>3, PruneNext, PTL DEF Spec, PruneOnlyGone

-----------------------------------------------------------------------------
(* The index.                                                              *)

\* A lookup that goes on to ask for the root has found no such folder in the
\* cache, and if it exists nevertheless, that it was away is on record.
RootAsked ==
    pc = "root" => Folder \notin DOMAIN cache /\ (Folder \in DOMAIN Folders => Folder \in raced)

WaterInv == RootAsked /\ WaterNeedsRace

\* An answer never leads to the look for the root.
LEMMA AnswerAsks == ASSUME NEW index, Answer(index) PROVE pc' # "root"
  BY DEF Answer, Onward, Step, LookUp

LEMMA WaterNext == ASSUME WaterInv, [IndexNext]_indexVars PROVE WaterInv'
  <1> USE DEF WaterInv
  <1>1. ASSUME pc' # "root", UNCHANGED <<cache, raced>> PROVE WaterInv'
    BY <1>1 DEF RootAsked, WaterNeedsRace
  <1>2. CASE Ask
    <2>1. CASE Folder \in DOMAIN cache
      BY <1>1, <1>2, <2>1, AnswerAsks DEF Ask
    <2>2. CASE Folder \notin DOMAIN cache
      <3>1. /\ UNCHANGED <<cache, square, label, drive>>
            /\ pc' = IF There(Folder) THEN "list" ELSE "root"
            /\ raced' = IF Folder \in DOMAIN Folders /\ ~drive THEN raced \cup {Folder}
                                                               ELSE raced
        BY <1>2, <2>2 DEF Ask
      <3>2. Folder' = Folder
        BY <3>1 DEF Folder
      <3>3. RootAsked'
        BY <2>2, <3>1, <3>2 DEF RootAsked, There
      <3>4. WaterNeedsRace'
        BY <3>1 DEF WaterNeedsRace
      <3> QED
        BY <3>3, <3>4
    <2> QED
      BY <2>1, <2>2
  <1>3. CASE List
    <2>1. pc' # "root" /\ UNCHANGED raced
      BY <1>3, AnswerAsks DEF List
    <2>2. CASE drive
      <3>1. Remember(Folders[Folder])
        BY <1>3, <2>2 DEF List
      <3> QED
        BY <2>1, <3>1 DEF Remember, RootAsked, WaterNeedsRace
    <2>3. CASE ~drive
      BY <1>1, <1>3, <2>1, <2>3 DEF List
    <2> QED
      BY <2>2, <2>3
  <1>4. CASE AskRoot
    <2>1. pc' # "root" /\ RootAsked /\ pc = "root"
      BY <1>4, AnswerAsks DEF AskRoot
    <2>2. CASE drive
      <3>1. Remember(Water) /\ UNCHANGED raced
        BY <1>4, <2>2 DEF AskRoot
      <3> QED
        BY <2>1, <3>1 DEF Remember, RootAsked, WaterNeedsRace
    <2>3. CASE ~drive
      <3>1. UNCHANGED cache /\ raced' = raced \ {Folder}
        BY <1>4, <2>3 DEF AskRoot
      <3> QED
        BY <2>1, <3>1 DEF RootAsked, WaterNeedsRace
    <2> QED
      BY <2>2, <2>3
  <1>5. CASE Reload
    BY <1>5 DEF Reload, RootAsked, WaterNeedsRace
  <1>6. CASE Drive
    BY <1>6 DEF Drive, RootAsked, WaterNeedsRace, Folder
  <1>7. ASSUME NEW r \in Routes, Begin(r) PROVE WaterInv'
    BY <1>1, <1>7 DEF Begin, LookUp
  <1>8. CASE UNCHANGED indexVars
    BY <1>8 DEF indexVars, RootAsked, WaterNeedsRace, Folder
  <1> QED
    BY <1>2, <1>3, <1>4, <1>5, <1>6, <1>7, <1>8 DEF IndexNext

\* Whatever folders, grids and routes there are: a real folder is taken for
\* water only if the drive came back between the two looks.
THEOREM WaterTakesARace == IndexSpec => []WaterNeedsRace
  <1>1. IndexInit => WaterInv
    BY DEF IndexInit, WaterInv, RootAsked, WaterNeedsRace
  <1>2. WaterInv => WaterNeedsRace
    BY DEF WaterInv
  <1> QED
    BY <1>1, <1>2, WaterNext, PTL DEF IndexSpec

-----------------------------------------------------------------------------
(* The tile arithmetic of the keep set, along one axis and then on the     *)
(* plane.                                                                  *)

LEMMA DivBounds ==
    ASSUME NEW p \in Int, NEW w \in Nat \ {0}
    PROVE  p \div w \in Int /\ w * (p \div w) <= p /\ p < w * (p \div w) + w
  OBVIOUS

LEMMA DivIs ==
    ASSUME NEW p \in Int, NEW w \in Nat \ {0}, NEW q \in Int, w * q <= p, p < w * q + w
    PROVE  p \div w = q
  OBVIOUS

LEMMA DivMonotone ==
    ASSUME NEW p \in Int, NEW r \in Int, NEW w \in Nat \ {0}, p <= r
    PROVE  p \div w <= r \div w
  OBVIOUS

LEMMA MultipleIs ==
    ASSUME NEW q \in Int, NEW w \in Nat \ {0}
    PROVE  (w * q) % w = 0
  OBVIOUS

\* Cell a of width w has a point of l .. h - 1.
Touches(l, h, w, a) == \E q \in l .. h - 1 : q \div w = a

\* The cells that an interval touches are those from its first point's to its
\* last's.
LEMMA Between ==
    ASSUME NEW l \in Int, NEW h \in Int, NEW w \in Nat \ {0}, NEW a \in Int, l < h,
           l \div w <= a, a <= (h - 1) \div w
    PROVE  Touches(l, h, w, a)
  <1> USE DEF Touches
  <1>1. CASE l <= w * a
    <2>0. w * a \in Int
      OBVIOUS
    <2>1. (w * a) \div w = a
      BY <2>0, DivIs
    <2>2. w * ((h - 1) \div w) <= h - 1
      BY DivBounds
    <2>3. w * a <= w * ((h - 1) \div w)
      OBVIOUS
    <2> QED
      BY <1>1, <2>0, <2>1, <2>2, <2>3
  <1>2. CASE w * a < l
    <2>1. l < w * (l \div w) + w
      BY DivBounds
    <2>2. w * (l \div w) + w <= w * a + w
      OBVIOUS
    <2>3. l \div w = a
      BY <1>2, <2>1, <2>2, DivIs
    <2> QED
      BY <2>3
  <1> QED
    BY <1>1, <1>2

\* Square s and cell a of width w as they are found when lo .. hi is clipped
\* to s, and as a point of the interval has them.
Clipped(lo, hi, s, w, a) ==
    /\ s \in (lo \div Side) .. (hi \div Side)
    /\ a \in (Higher(lo, s * Side) \div w) .. ((Lower(hi, (s + 1) * Side) - 1) \div w)

Shared(lo, hi, s, w, a) == \E q \in lo .. hi - 1 : q \div Side = s /\ q \div w = a

\* The two agree if hi, when it lies on an edge of a square, lies on one of a
\* cell.
LEMMA Axis ==
    ASSUME NEW lo \in Int, NEW hi \in Int, lo < hi, NEW w \in Nat \ {0},
           NEW s \in Int, NEW a \in Int, Side \in Nat \ {0},
           hi % Side = 0 => hi % w = 0
    PROVE  Clipped(lo, hi, s, w, a) <=> Shared(lo, hi, s, w, a)
  <1> DEFINE l == Higher(lo, s * Side)
             h == Lower(hi, (s + 1) * Side)
             m == s * Side
             n == (s + 1) * Side
  <1>0. /\ m = Side * s /\ m \in Int /\ n \in Int /\ n = m + Side /\ l \in Int /\ h \in Int
        /\ lo <= l /\ m <= l /\ (l = lo \/ l = m)
        /\ h <= hi /\ h <= n /\ (h = hi \/ h = n)
    BY DEF Higher, Lower
  <1>1. ASSUME NEW q \in lo .. hi - 1, q \div Side = s, q \div w = a
        PROVE  s \in (lo \div Side) .. (hi \div Side) /\ a \in (l \div w) .. ((h - 1) \div w)
    <2>1. lo \div Side <= s /\ s <= hi \div Side
      BY <1>1, DivMonotone
    <2>2. m <= q /\ q < n
      BY <1>0, <1>1, DivBounds
    <2>3. l <= q /\ q <= h - 1
      BY <1>0, <1>1, <2>2
    <2>4. l \div w <= a /\ a <= (h - 1) \div w
      <3> HIDE DEF l, h
      <3> QED
        BY <1>0, <1>1, <2>3, DivMonotone
    <2>5. /\ lo \div Side \in Int /\ hi \div Side \in Int
          /\ l \div w \in Int /\ (h - 1) \div w \in Int
      <3> HIDE DEF l, h
      <3> QED
        BY <1>0, DivBounds
    <2> HIDE DEF l, h
    <2> QED
      BY <2>1, <2>4, <2>5
  <1>2. ASSUME s \in (lo \div Side) .. (hi \div Side), a \in (l \div w) .. ((h - 1) \div w)
        PROVE  \E q \in lo .. hi - 1 : q \div Side = s /\ q \div w = a
    <2>0. l \div w <= a /\ a <= (h - 1) \div w
      BY <1>0, <1>2, DivBounds
    <2>1. lo < n
      <3>1. lo < Side * (lo \div Side) + Side /\ lo \div Side \in Int /\ lo \div Side <= s
        BY <1>2, DivBounds
      <3>2. Side * (lo \div Side) <= Side * s
        BY <3>1
      <3> QED
        BY <1>0, <3>1, <3>2
    <2>2. m <= hi
      <3>1. Side * (hi \div Side) <= hi /\ hi \div Side \in Int /\ s <= hi \div Side
        BY <1>2, DivBounds
      <3>2. Side * s <= Side * (hi \div Side)
        BY <3>1
      <3> QED
        BY <1>0, <3>1, <3>2
    <2>3. CASE l < h
      <3> HIDE DEF l, h
      <3>0. Touches(l, h, w, a)
        <4>1. l \in Int /\ h \in Int
          BY <1>0
        <4> QED
          BY <2>0, <2>3, <4>1, Between
      <3>1. PICK q \in l .. h - 1 : q \div w = a
        BY <3>0 DEF Touches
      <3> HIDE DEF m, n
      <3>2. m <= q /\ q < n /\ q \in lo .. hi - 1
        BY <1>0
      <3>3. Side * s <= q /\ q < Side * s + Side
        BY <1>0, <3>2
      <3>4. q \div Side = s
        BY <3>2, <3>3, DivIs
      <3> QED
        BY <3>1, <3>2, <3>4
    <2>4. CASE ~(l < h)
      <3>1. h = hi /\ l = hi /\ m = hi
        BY <1>0, <2>1, <2>2, <2>4
      <3>2. hi % Side = 0
        BY <1>0, <3>1, MultipleIs
      <3>3. hi % w = 0
        BY <3>2
      <3>4. hi = w * (hi \div w) /\ hi \div w \in Int
        BY <3>3
      <3>5. (hi - 1) \div w \in Int /\ w * ((hi - 1) \div w) < w * (hi \div w)
        BY <3>4, DivBounds
      <3>6. (hi - 1) \div w < hi \div w
        BY <3>4, <3>5
      <3> QED
        BY <2>0, <3>1, <3>4, <3>5, <3>6
    <2> QED
      BY <1>0, <2>3, <2>4
  <1> QED
    BY <1>1, <1>2 DEF Clipped, Shared

\* Either way they are numbers.
LEMMA AxisTypes ==
    ASSUME NEW lo \in Int, NEW hi \in Int, NEW w \in Nat \ {0}, NEW s, NEW a,
           Side \in Nat \ {0}, Clipped(lo, hi, s, w, a) \/ Shared(lo, hi, s, w, a)
    PROVE  s \in Int /\ a \in Int
  <1>1. CASE Shared(lo, hi, s, w, a)
    BY <1>1, DivBounds DEF Shared
  <1>2. CASE Clipped(lo, hi, s, w, a)
    <2>1. lo \div Side \in Int /\ hi \div Side \in Int
      BY DivBounds
    <2>2. s \in Int
      BY <1>2, <2>1 DEF Clipped
    <2> DEFINE l == Higher(lo, s * Side)
               h == Lower(hi, (s + 1) * Side) - 1
    <2>3. l \in Int /\ h \in Int
      BY <2>2 DEF Higher, Lower
    <2>4. a \in (l \div w) .. (h \div w)
      BY <1>2 DEF Clipped
    <2> HIDE DEF l, h
    <2>5. l \div w \in Int /\ h \div w \in Int
      BY <2>3, DivBounds
    <2> QED
      BY <2>2, <2>4, <2>5
  <1> QED
    BY <1>1, <1>2

\* What is collected of square s of the box b, if the other folders are right.
InSquare(v, b, s) ==
    {fa \in Covering(v, s) :
       <<fa[2].x, fa[2].y>> \in AtlasesIn(Clip(b, s), Width[fa[2].zoom])}

RingBox(p, z) == RingBounds(Cell(p, Width[z]), Width[z])

LEMMA CoveringZoom ==
    ASSUME NEW v, NEW s, NEW fa \in Covering(v, s)
    PROVE  fa[2].zoom \in DOMAIN Width
  BY IndexConstants DEF IndexConstants, Covering, Holds

\* The corners of a ring's box.
LEMMA RingCorners ==
    ASSUME NEW r \in Routes, NEW i \in {1, 2}, NEW z \in DOMAIN Width, NEW j \in {1, 2}
    PROVE  /\ RingBox(r[i], z)[1][j] \in Int /\ RingBox(r[i], z)[2][j] \in Int
           /\ RingBox(r[i], z)[1][j] < RingBox(r[i], z)[2][j]
           /\ \A y \in DOMAIN Width :
                RingBox(r[i], z)[2][j] % Side = 0 => RingBox(r[i], z)[2][j] % Width[y] = 0
           /\ (Cell(r[i], Width[z])[j] - Rings) * Width[z] = RingBox(r[i], z)[1][j]
           /\ (Cell(r[i], Width[z])[j] + Rings) * Width[z] + Width[z] - 1
                = RingBox(r[i], z)[2][j] - 1
  <1> DEFINE w == Width[z]
             c == r[i][j] \div w
  <1>1. w \in Nat \ {0} /\ r[i][j] \in Int /\ Rings \in Nat
    BY IndexConstants DEF IndexConstants
  <1>2. c \in Int
    BY <1>1, DivBounds
  <1>3. Cell(r[i], w)[j] = c
    BY DEF Cell
  <1>4. /\ RingBox(r[i], z)[1][j] = (c - Rings) * w
        /\ RingBox(r[i], z)[2][j] = (c + Rings + 1) * w
    BY <1>3 DEF RingBox, RingBounds
  <1>5. /\ (c - Rings) * w \in Int /\ (c + Rings + 1) * w \in Int
        /\ (c - Rings) * w < (c + Rings + 1) * w
        /\ (c + Rings + 1) * w - 1 = (c + Rings) * w + w - 1
    BY <1>1, <1>2
  <1>6. \A y \in DOMAIN Width :
          RingBox(r[i], z)[2][j] % Side = 0 => RingBox(r[i], z)[2][j] % Width[y] = 0
    BY EdgesMeet DEF EdgesMeet, RingBox
  <1> HIDE DEF c, w
  <1> QED
    BY <1>3, <1>4, <1>5, <1>6 DEF w

LEMMA AroundIsBox ==
    ASSUME NEW r \in Routes, NEW i \in {1, 2}, NEW z \in DOMAIN Width
    PROVE  LET b == RingBox(r[i], z) IN
           Around(r[i], Width[z]) = (b[1][1] .. b[2][1] - 1) \X (b[1][2] .. b[2][2] - 1)
  BY RingCorners DEF Around

\* The atlases found square by square are those that have a point of the ring
\* in the square.
LEMMA SquareIsPoints ==
    ASSUME NEW r \in Routes, NEW i \in {1, 2}, NEW z \in DOMAIN Width,
           NEW y \in DOMAIN Width, NEW s, NEW a
    PROVE  LET b == RingBox(r[i], z) IN
           (s \in SquaresIn(b) /\ <<a.x, a.y>> \in AtlasesIn(Clip(b, s), Width[y]))
           <=> \E q \in Around(r[i], Width[z]) :
                 Cell(q, Side) = s /\ Cell(q, Width[y]) = <<a.x, a.y>>
  <1> DEFINE b == RingBox(r[i], z)
             w == Width[y]
             Both(P(_, _, _, _, _)) == /\ P(b[1][1], b[2][1], s[1], w, a.x)
                                       /\ P(b[1][2], b[2][2], s[2], w, a.y)
  <1> SUFFICES (s \in SquaresIn(b) /\ <<a.x, a.y>> \in AtlasesIn(Clip(b, s), w))
               <=> \E q \in Around(r[i], Width[z]) :
                     Cell(q, Side) = s /\ Cell(q, w) = <<a.x, a.y>>
    OBVIOUS
  <1>1. w \in Nat \ {0} /\ Side \in Nat \ {0}
    BY IndexConstants DEF IndexConstants
  <1>2. \A j \in {1, 2} : /\ b[1][j] \in Int /\ b[2][j] \in Int /\ b[1][j] < b[2][j]
                          /\ b[2][j] % Side = 0 => b[2][j] % w = 0
    BY RingCorners
  <1>3. (s \in SquaresIn(b) /\ <<a.x, a.y>> \in AtlasesIn(Clip(b, s), w))
        <=> s = <<s[1], s[2]>> /\ Both(Clipped)
    BY DEF SquaresIn, AtlasesIn, Clip, Clipped
  <1>4. (\E q \in Around(r[i], Width[z]) : Cell(q, Side) = s /\ Cell(q, w) = <<a.x, a.y>>)
        <=> s = <<s[1], s[2]>> /\ Both(Shared)
    <2> DEFINE A == b[1][1] .. b[2][1] - 1
               B == b[1][2] .. b[2][2] - 1
    <2>1. Around(r[i], Width[z]) = A \X B
      BY AroundIsBox
    <2> HIDE DEF A, B, w
    <2>2. (\E q \in A \X B : Cell(q, Side) = s /\ Cell(q, w) = <<a.x, a.y>>)
          <=> /\ s = <<s[1], s[2]>>
              /\ \E m \in A : m \div Side = s[1] /\ m \div w = a.x
              /\ \E n \in B : n \div Side = s[2] /\ n \div w = a.y
      <3>1. ASSUME NEW q \in A \X B, Cell(q, Side) = s, Cell(q, w) = <<a.x, a.y>>
            PROVE  /\ s = <<s[1], s[2]>>
                   /\ q[1] \in A /\ q[1] \div Side = s[1] /\ q[1] \div w = a.x
                   /\ q[2] \in B /\ q[2] \div Side = s[2] /\ q[2] \div w = a.y
        BY <3>1 DEF Cell
      <3>2. ASSUME s = <<s[1], s[2]>>,
                   NEW m \in A, m \div Side = s[1], m \div w = a.x,
                   NEW n \in B, n \div Side = s[2], n \div w = a.y
            PROVE  \E q \in A \X B : Cell(q, Side) = s /\ Cell(q, w) = <<a.x, a.y>>
        <4>1. <<m, n>> \in A \X B
          OBVIOUS
        <4>2. Cell(<<m, n>>, Side) = s /\ Cell(<<m, n>>, w) = <<a.x, a.y>>
          BY <3>2 DEF Cell
        <4> QED
          BY <4>1, <4>2
      <3> QED
        BY <3>1, <3>2
    <2> QED
      BY <2>1, <2>2 DEF Shared, A, B
  <1>5. Both(Clipped) <=> Both(Shared)
    <2> HIDE DEF b, w
    <2>1. \A j \in {1, 2} : \A m, n :
            Clipped(b[1][j], b[2][j], m, w, n) <=> Shared(b[1][j], b[2][j], m, w, n)
      <3> TAKE j \in {1, 2}
      <3> TAKE m, n
      <3>1. /\ b[1][j] \in Int /\ b[2][j] \in Int /\ b[1][j] < b[2][j]
            /\ b[2][j] % Side = 0 => b[2][j] % w = 0
        BY <1>2
      <3>2. CASE m \in Int /\ n \in Int
        BY <1>1, <3>1, <3>2, Axis
      <3>3. CASE ~(m \in Int /\ n \in Int)
        BY <1>1, <3>1, <3>3, AxisTypes
      <3> QED
        BY <3>2, <3>3
    <2> QED
      BY <2>1
  <1> QED
    BY <1>3, <1>4, <1>5

\* What is collected of some squares of a box.
Gathered(v, b, squares) == UNION {InSquare(v, b, s) : s \in squares}

\* Collecting the squares of its box one by one gives the ring.
LEMMA RingIsSquares ==
    ASSUME NEW v, NEW r \in Routes, NEW i \in {1, 2}, NEW z \in DOMAIN Width
    PROVE  RingOf(v, r[i], z) = Gathered(v, RingBox(r[i], z), SquaresIn(RingBox(r[i], z)))
  <1> DEFINE b == RingBox(r[i], z)
             Hit(q, fa) == Cell(q, Width[fa[2].zoom]) = <<fa[2].x, fa[2].y>>
  <1>1. \A fa : fa \in RingOf(v, r[i], z)
                <=> \E q \in Around(r[i], Width[z]) :
                      fa \in Covering(v, Cell(q, Side)) /\ Hit(q, fa)
    BY DEF RingOf
  <1>2. \A fa : fa \in Gathered(v, b, SquaresIn(b))
                <=> \E s \in SquaresIn(b) :
                      /\ fa \in Covering(v, s)
                      /\ <<fa[2].x, fa[2].y>> \in AtlasesIn(Clip(b, s), Width[fa[2].zoom])
    BY DEF Gathered, InSquare
  <1>3. \A s, fa : fa \in Covering(v, s) =>
          ((s \in SquaresIn(b)
            /\ <<fa[2].x, fa[2].y>> \in AtlasesIn(Clip(b, s), Width[fa[2].zoom]))
           <=> \E q \in Around(r[i], Width[z]) : Cell(q, Side) = s /\ Hit(q, fa))
    <2> TAKE s, fa
    <2> SUFFICES ASSUME fa \in Covering(v, s)
                 PROVE  (s \in SquaresIn(b)
                         /\ <<fa[2].x, fa[2].y>> \in AtlasesIn(Clip(b, s), Width[fa[2].zoom]))
                        <=> \E q \in Around(r[i], Width[z]) : Cell(q, Side) = s /\ Hit(q, fa)
      OBVIOUS
    <2>1. fa[2].zoom \in DOMAIN Width
      BY CoveringZoom
    <2> QED
      BY <2>1, SquareIsPoints
  <1> HIDE DEF b, Hit
  <1>4. \A fa : fa \in RingOf(v, r[i], z) <=> fa \in Gathered(v, b, SquaresIn(b))
    BY <1>1, <1>2, <1>3
  <1> QED
    BY <1>4 DEF b

-----------------------------------------------------------------------------
(* The order of the squares.                                               *)

LEMMA Least ==
    ASSUME NEW S \in SUBSET Int, S # {}, NEW b \in Int, \A i \in S : b <= i
    PROVE  \E m \in S : \A i \in S : m <= i
  <1> DEFINE T == {i - b : i \in S}
             R == OpToRel(<, Nat)
  <1> HIDE DEF R
  <1>1. T \subseteq Nat /\ T # {}
    <2>1. \A i \in S : i - b \in Nat
      OBVIOUS
    <2> QED
      BY <2>1
  <1>2. PICK x \in T : \A y \in T : ~(<<y, x>> \in R)
    <2> HIDE DEF T
    <2>1. IsWellFoundedOn(R, Nat)
      BY NatLessThanWellFounded DEF R
    <2> QED
      BY <1>1, <2>1, WFMin
  <1>3. \A y \in T : x <= y
    <2> TAKE y \in T
    <2>1. ~(y < x)
      BY <1>1, <1>2 DEF R, OpToRel
    <2> QED
      BY <1>1, <2>1
  <1>4. PICK m \in S : x = m - b
    OBVIOUS
  <1>5. \A i \in S : m <= i
    <2> TAKE i \in S
    <2>1. i - b \in T
      OBVIOUS
    <2>2. x <= i - b
      BY <1>3, <2>1
    <2> QED
      BY <1>4, <2>2
  <1> QED
    BY <1>5

\* Some square comes first, whichever are left of a box.
LEMMA FirstIsLeft ==
    ASSUME NEW r \in Routes, NEW i \in {1, 2}, NEW z \in DOMAIN Width,
           NEW S \in SUBSET SquaresIn(RingBox(r[i], z)), S # {}
    PROVE  First(S) \in S
  <1> DEFINE b == RingBox(r[i], z)
             m == b[1][1] \div Side
             n == b[1][2] \div Side
  <1>1. /\ m \in Int /\ n \in Int
        /\ b[2][1] \div Side \in Int /\ b[2][2] \div Side \in Int
    BY IndexConstants, RingCorners, DivBounds DEF IndexConstants
  <1>2. \A s \in S : s[1] \in Int /\ s[2] \in Int /\ m <= s[1] /\ n <= s[2]
    BY <1>1 DEF SquaresIn
  <1> HIDE DEF b, m, n
  <1> DEFINE Y == {s[2] : s \in S}
  <1>3. PICK y \in Y : \A k \in Y : y <= k
    <2>1. Y \in SUBSET Int /\ Y # {} /\ \A k \in Y : n <= k
      BY <1>2
    <2> QED
      BY <1>1, <2>1, Least
  <1> DEFINE X == {s[1] : s \in {t \in S : t[2] = y}}
  <1>4. PICK x \in X : \A k \in X : x <= k
    <2>1. X \in SUBSET Int /\ X # {} /\ \A k \in X : m <= k
      BY <1>2
    <2> QED
      BY <1>1, <2>1, Least
  <1>5. PICK s \in S : s[2] = y /\ s[1] = x
    OBVIOUS
  <1>6. \A t \in S : s[2] < t[2] \/ (s[2] = t[2] /\ s[1] <= t[1])
    <2> TAKE t \in S
    <2>1. y <= t[2] /\ y \in Int /\ t[2] \in Int
      BY <1>2, <1>3
    <2>2. CASE t[2] = y
      BY <1>4, <1>5, <2>2
    <2> QED
      BY <1>5, <2>1, <2>2
  <1> QED
    BY <1>5, <1>6 DEF First

LEMMA BoxHasSquares ==
    ASSUME NEW r \in Routes, NEW i \in {1, 2}, NEW z \in DOMAIN Width
    PROVE  SquaresIn(RingBox(r[i], z)) # {}
  <1> DEFINE b == RingBox(r[i], z)
  <1>1. \A j \in {1, 2} : /\ b[1][j] \in Int /\ b[2][j] \in Int /\ b[1][j] < b[2][j]
    BY RingCorners
  <1>2. \A j \in {1, 2} : /\ b[1][j] \div Side \in Int /\ b[2][j] \div Side \in Int
                          /\ b[1][j] \div Side <= b[2][j] \div Side
    <2> HIDE DEF b
    <2> TAKE j \in {1, 2}
    <2> QED
      BY <1>1, IndexConstants, DivBounds, DivMonotone DEF IndexConstants
  <1>3. <<b[1][1] \div Side, b[1][2] \div Side>> \in SquaresIn(b)
    BY <1>2 DEF SquaresIn
  <1> QED
    BY <1>3

-----------------------------------------------------------------------------
(* The lookups, one after the other.                                       *)

Walking == pc \in {"ask", "list", "root"}

\* The other label is tried when the first has nothing there.
Looking == label = zoom \/ (label = Other(zoom) /\ Holds(<<zoom, square>>) = {})

\* The boxes that may be drawn around p.
RingBoxes(v, p) ==
    {RingBox(p, z) : z \in BaseZooms({fa[2] : fa \in Covering(v, Cell(p, Side))})}

\* What the keep set may be when the present ring is begun.
Before == IF ring = 1 THEN {{}} ELSE RingsOf(zoom, route[1])

AtCentre == box = <<>> /\ square = Cell(route[ring], Side) /\ keep \in Before

\* Of the present ring the squares before this one have been collected.
AroundRing ==
    /\ box \in RingBoxes(zoom, route[ring])
    /\ square \in SquaresIn(box) \ left /\ left \subseteq SquaresIn(box)
    /\ \E before \in Before :
         keep = before \union Gathered(zoom, box, SquaresIn(box) \ (left \union {square}))

Collecting == Looking /\ (AtCentre \/ AroundRing)

Complete ==
    \E here \in RingsOf(zoom, route[1]), ahead \in RingsOf(zoom, route[2]) :
      keep = here \union ahead

\* Collecting takes indexes for right, which they are while the drive stays
\* and no folder was taken for water.
RightSoFar == calm /\ raced = {}

KeepSetInv ==
    /\ route \in Routes /\ ring \in {1, 2}
    /\ WaterInv
    /\ \A f \in DOMAIN cache \ DOMAIN Folders : cache[f] = {}
    /\ pc = "list" => Folder \in DOMAIN Folders
    /\ calm => drive
    /\ RightSoFar /\ Walking => Collecting
    /\ RightSoFar /\ pc = "done" => Complete

\* The atlases of an index with their folder.
With(f, index) == {<<f, a>> : a \in index}

LEMMA Seconds ==
    ASSUME NEW f, NEW index
    PROVE  {fa[2] : fa \in With(f, index)} = index
  <1>1. \A a \in index : <<f, a>> \in With(f, index) /\ <<f, a>>[2] = a
    BY DEF With
  <1>2. \A fa \in With(f, index) : fa[2] \in index
    BY DEF With
  <1> QED
    BY <1>1, <1>2

\* A box that may be drawn is that of a zoom, and has squares.
LEMMA RingBoxOf ==
    ASSUME NEW v, NEW r \in Routes, NEW i \in {1, 2}, NEW b \in RingBoxes(v, r[i])
    PROVE  /\ SquaresIn(b) # {}
           /\ \A S \in SUBSET SquaresIn(b) : S # {} => First(S) \in S
           /\ Gathered(v, b, SquaresIn(b)) \in RingsOf(v, r[i])
  <1> DEFINE atlases == {fa[2] : fa \in Covering(v, Cell(r[i], Side))}
  <1>1. PICK z \in BaseZooms(atlases) : b = RingBox(r[i], z)
    BY DEF RingBoxes
  <1>2. z \in {a.zoom : a \in atlases}
    <2> HIDE DEF atlases
    <2> QED
      BY DEF BaseZooms
  <1>3. atlases # {} /\ z \in DOMAIN Width
    BY <1>2, CoveringZoom
  <1>4. RingOf(v, r[i], z) \in RingsOf(v, r[i])
    BY <1>3 DEF RingsOf
  <1> QED
    BY <1>1, <1>3, <1>4, BoxHasSquares, FirstIsLeft, RingIsSquares

\* What the present folder holds is what covers the square, unless the other
\* label is still to be tried.
LEMMA LookedUp ==
    ASSUME Looking
    PROVE  /\ Holds(Folder) # {} =>
                Covering(zoom, square) = {<<Folder, a>> : a \in Holds(Folder)}
           /\ Holds(Folder) = {} /\ label # zoom => Covering(zoom, square) = {}
           /\ Holds(Folder) = {} /\ label = zoom => Holds(<<zoom, square>>) = {}
  <1>1. CASE label = zoom
    BY <1>1 DEF Covering, Folder
  <1>2. CASE label = Other(zoom) /\ Holds(<<zoom, square>>) = {}
    BY <1>2 DEF Covering, Folder
  <1> QED
    BY <1>1, <1>2 DEF Looking

\* The ring is done: on to the next one, or to the end.
LEMMA RingIsDone ==
    ASSUME ring \in {1, 2}, UNCHANGED <<zoom, route>>, Onward({}),
           NEW before \in Before, NEW own \in RingsOf(zoom, route[ring]),
           keep' = before \union own
    PROVE  (pc' = "ask" /\ Collecting' /\ ring' \in {1, 2}) \/ (pc' = "done" /\ Complete' /\ ring' = 2)
  <1>1. CASE ring = 1
    <2>1. /\ pc' = "ask" /\ ring' = 2 /\ box' = <<>>
          /\ square' = Cell(route'[2], Side) /\ label' = zoom'
      BY <1>1 DEF Onward, LookUp
    <2>2. keep' \in RingsOf(zoom', route'[1])
      BY <1>1 DEF Before
    <2> QED
      BY <2>1, <2>2 DEF Collecting, Looking, AtCentre, Before
  <1>2. CASE ring = 2
    <2>1. pc' = "done" /\ ring' = 2
      BY <1>2 DEF Onward
    <2>2. before \in RingsOf(zoom', route'[1]) /\ own \in RingsOf(zoom', route'[2])
      BY <1>2 DEF Before
    <2> QED
      BY <2>1, <2>2 DEF Complete
  <1> QED
    BY <1>1, <1>2

\* The square is collected: on to the next one of the ring, or beyond it.
LEMMA SquareIsDone ==
    ASSUME route \in Routes, ring \in {1, 2}, UNCHANGED <<zoom, route>>, Onward(left),
           AroundRing,
           NEW before \in Before,
           keep' = before \union Gathered(zoom, box, SquaresIn(box) \ left)
    PROVE  (pc' = "ask" /\ Collecting' /\ ring' \in {1, 2}) \/ (pc' = "done" /\ Complete' /\ ring' = 2)
  <1>1. box \in RingBoxes(zoom, route[ring]) /\ left \subseteq SquaresIn(box)
    BY DEF AroundRing
  <1>2. CASE left = {}
    <2>1. SquaresIn(box) \ left = SquaresIn(box)
      BY <1>2
    <2>2. Gathered(zoom, box, SquaresIn(box)) \in RingsOf(zoom, route[ring])
      BY <1>1, RingBoxOf
    <2> QED
      BY <1>2, <2>1, <2>2, RingIsDone
  <1>3. CASE left # {}
    <2>1. /\ square' = First(left) /\ left' = left \ {First(left)} /\ label' = zoom'
          /\ pc' = "ask" /\ UNCHANGED <<ring, box>>
      BY <1>3 DEF Onward, Step, LookUp
    <2>2. First(left) \in left
      BY <1>1, <1>3, RingBoxOf
    <2>3. left' \union {square'} = left
      BY <2>1, <2>2
    <2>4. Before' = Before
      BY <2>1 DEF Before
    <2>5. AroundRing'
      <3>1. box' \in RingBoxes(zoom', route'[ring'])
        BY <1>1, <2>1
      <3>2. square' \in SquaresIn(box') \ left' /\ left' \subseteq SquaresIn(box')
        BY <1>1, <2>1, <2>2
      <3>3. keep' = before \union Gathered(zoom', box', SquaresIn(box') \ (left' \union {square'}))
        BY <2>1, <2>3
      <3> QED
        BY <2>4, <3>1, <3>2, <3>3 DEF AroundRing
    <2> QED
      BY <2>1, <2>5 DEF Collecting, Looking
  <1> QED
    BY <1>2, <1>3

\* One answer, if it is right.
LEMMA AnswerCollects ==
    ASSUME route \in Routes, ring \in {1, 2}, Collecting, UNCHANGED zoom, Answer(Holds(Folder))
    PROVE  /\ (pc' = "ask" /\ Collecting') \/ (pc' = "done" /\ Complete')
           /\ ring' \in {1, 2} /\ route' \in Routes
  <1> DEFINE index == Holds(Folder)
             Done == /\ (pc' = "ask" /\ Collecting') \/ (pc' = "done" /\ Complete')
                     /\ ring' \in {1, 2}
  <1>0. UNCHANGED <<zoom, route>> /\ Looking
    BY DEF Answer, Collecting
  <1>1. CASE index # {} /\ box = <<>>
    <2>1. PICK z \in BaseZooms(index) : box' = RingBox(route[ring], z)
      BY <1>1 DEF Answer, RingBox
    <2>2. /\ left' = SquaresIn(box') \ {First(SquaresIn(box'))} /\ square' = First(SquaresIn(box'))
          /\ label' = zoom' /\ pc' = "ask" /\ UNCHANGED <<ring, keep>>
      BY <1>1 DEF Answer, Step, LookUp
    <2>3. AtCentre
      <3>1. \A p, z2 : RingBox(p, z2) # <<>>
        BY DEF RingBox, RingBounds
      <3> QED
        BY <1>1, <3>1 DEF Collecting, AroundRing, RingBoxes
    <2>4. box' \in RingBoxes(zoom', route'[ring'])
      <3>1. {fa[2] : fa \in Covering(zoom, Cell(route[ring], Side))} = index
        <4>1. Covering(zoom, square) = With(Folder, index)
          BY <1>0, <1>1, LookedUp DEF With
        <4>2. square = Cell(route[ring], Side)
          BY <2>3 DEF AtCentre
        <4> HIDE DEF index
        <4> QED
          BY <4>1, <4>2, Seconds
      <3> HIDE DEF index
      <3> QED
        BY <1>0, <2>1, <2>2, <3>1 DEF RingBoxes
    <2>5. SquaresIn(box') # {} /\ First(SquaresIn(box')) \in SquaresIn(box')
      BY <1>0, <2>2, <2>4, RingBoxOf
    <2>6. SquaresIn(box') \ (left' \union {square'}) = {}
      BY <2>2, <2>5
    <2>7. Gathered(zoom', box', {}) = {}
      BY DEF Gathered
    <2>8. keep' \in Before'
      BY <1>0, <2>2, <2>3 DEF AtCentre, Before
    <2>9. AroundRing'
      BY <2>2, <2>4, <2>5, <2>6, <2>7, <2>8 DEF AroundRing
    <2> QED
      BY <1>0, <2>2, <2>9 DEF Collecting, Looking
  <1>2. ASSUME box # <<>>, Onward(left), keep' = keep \union InSquare(zoom, box, square)
        PROVE  Done
    <2>1. AroundRing
      BY <1>2 DEF Collecting, AtCentre
    <2>2. PICK before \in Before :
            keep = before \union Gathered(zoom, box, SquaresIn(box) \ (left \union {square}))
      BY <2>1 DEF AroundRing
    <2>3. SquaresIn(box) \ left = (SquaresIn(box) \ (left \union {square})) \union {square}
      BY <2>1 DEF AroundRing
    <2>4. Gathered(zoom, box, SquaresIn(box) \ left)
          = Gathered(zoom, box, SquaresIn(box) \ (left \union {square}))
              \union InSquare(zoom, box, square)
      BY <2>3 DEF Gathered
    <2>5. keep' = before \union Gathered(zoom, box, SquaresIn(box) \ left)
      BY <1>2, <2>2, <2>4
    <2> QED
      BY <1>0, <1>2, <2>1, <2>5, SquareIsDone
  <1>3. CASE index # {} /\ box # <<>>
    <2>1. keep' = keep \union Collected(index) /\ Onward(left)
      BY <1>3 DEF Answer
    <2>2. Covering(zoom, square) = {<<Folder, a>> : a \in index}
      BY <1>0, <1>3, LookedUp
    <2> HIDE DEF index
    <2>3. Collected(index) = InSquare(zoom, box, square)
      <3> DEFINE Inside(a) == <<a.x, a.y>> \in AtlasesIn(Clip(box, square), Width[a.zoom])
      <3>1. Collected(index) = {<<Folder, a>> : a \in {a \in index : Inside(a)}}
        BY DEF Collected
      <3>2. InSquare(zoom, box, square) = {fa \in Covering(zoom, square) : Inside(fa[2])}
        BY DEF InSquare
      <3> HIDE DEF Inside
      <3> QED
        BY <2>2, <3>1, <3>2
    <2> HIDE DEF Done
    <2>4. Done
      BY <1>2, <1>3, <2>1, <2>3
    <2> QED
      BY <1>0, <2>4 DEF Done
  <1>4. CASE index = {} /\ label = zoom
    <2>1. /\ label' = Other(zoom') /\ pc' = "ask" /\ UNCHANGED <<square, ring, box, left, keep>>
      BY <1>0, <1>4 DEF Answer
    <2>2. Looking'
      BY <1>0, <1>4, <2>1, LookedUp DEF Looking
    <2>3. AtCentre' \/ AroundRing'
      BY <1>0, <2>1 DEF Collecting, AtCentre, AroundRing, Before
    <2>4. Collecting'
      BY <2>2, <2>3 DEF Collecting
    <2> QED
      BY <1>0, <2>1, <2>4
  <1>5. CASE index = {} /\ label # zoom
    <2>1. UNCHANGED keep /\ Onward(IF box = <<>> THEN {} ELSE left)
      BY <1>5 DEF Answer
    <2>2. Covering(zoom, square) = {}
      BY <1>0, <1>5, LookedUp
    <2>3. CASE box = <<>>
      <3>1. AtCentre
        <4>1. \A p, z2 : RingBox(p, z2) # <<>>
          BY DEF RingBox, RingBounds
        <4> QED
          BY <2>3, <4>1 DEF Collecting, AroundRing, RingBoxes
      <3>2. {} \in RingsOf(zoom, route[ring])
        BY <2>2, <3>1 DEF AtCentre, RingsOf
      <3>3. keep' = keep \union {} /\ keep \in Before /\ Onward({})
        BY <2>1, <2>3, <3>1 DEF AtCentre
      <3> QED
        BY <1>0, <3>2, <3>3, RingIsDone
    <2>4. CASE box # <<>>
      <3>1. InSquare(zoom, box, square) = {}
        BY <2>2 DEF InSquare
      <3>2. keep' = keep \union InSquare(zoom, box, square) /\ Onward(left)
        BY <2>1, <2>4, <3>1
      <3> HIDE DEF Done
      <3>3. Done
        BY <1>2, <2>4, <3>2
      <3> QED
        BY <1>0, <3>3 DEF Done
    <2> QED
      BY <2>3, <2>4
  <1> QED
    BY <1>0, <1>1, <1>2, <1>3, <1>4, <1>5


-----------------------------------------------------------------------------
(* KeepRight.                                                              *)

\* An answer that is right if all is.
LEMMA AnswerKeeps ==
    ASSUME KeepSetInv, Walking, UNCHANGED zoom, NEW index, Answer(index),
           calm' => calm, raced' = {} => raced = {} \/ ~calm',
           RightSoFar' => index = Holds(Folder)
    PROVE  /\ route' \in Routes /\ ring' \in {1, 2} /\ pc' \in {"ask", "done"}
           /\ RightSoFar' /\ Walking' => Collecting'
           /\ RightSoFar' /\ pc' = "done" => Complete'
  <1>1. route' \in Routes /\ ring' \in {1, 2} /\ pc' \in {"ask", "done"}
    BY DEF KeepSetInv, Answer, Onward, Step, LookUp
  <1>2. CASE RightSoFar'
    <2>1. RightSoFar /\ index = Holds(Folder)
      BY <1>2 DEF RightSoFar
    <2>2. route \in Routes /\ ring \in {1, 2} /\ Collecting
      BY <2>1 DEF KeepSetInv
    <2>3. (pc' = "ask" /\ Collecting') \/ (pc' = "done" /\ Complete')
      BY <2>1, <2>2, AnswerCollects
    <2> QED
      BY <1>1, <2>3 DEF Walking
  <1> QED
    BY <1>1, <1>2

\* The walk stands still.
LEMMA WalkStands ==
    ASSUME KeepSetInv, UNCHANGED <<zoom, walk, square, label>>, Walking' <=> Walking,
           pc' = "done" <=> pc = "done", RightSoFar' => RightSoFar
    PROVE  /\ route' \in Routes /\ ring' \in {1, 2}
           /\ RightSoFar' /\ Walking' => Collecting'
           /\ RightSoFar' /\ pc' = "done" => Complete'
  BY DEF KeepSetInv, walk, Collecting, Looking, AtCentre, AroundRing, Before, Complete

LEMMA KeepSetNext ==
    ASSUME KeepSetInv, [IndexNext]_indexVars
    PROVE  KeepSetInv'
  <1> DEFINE Rest == /\ route' \in Routes /\ ring' \in {1, 2}
                     /\ RightSoFar' /\ Walking' => Collecting'
                     /\ RightSoFar' /\ pc' = "done" => Complete'
             Known == \A f \in DOMAIN cache \ DOMAIN Folders : cache[f] = {}
             Listed == pc = "list" => Folder \in DOMAIN Folders
             Driven == calm => drive
  <1>1. WaterInv'
    BY WaterNext DEF KeepSetInv
  <1>2. CASE Ask
    <2>1. UNCHANGED <<drive, zoom, cache, calm>> /\ pc = "ask"
      BY <1>2 DEF Ask
    <2>2. CASE Folder \in DOMAIN cache
      <3>1. Answer(cache[Folder]) /\ UNCHANGED raced
        BY <1>2, <2>2 DEF Ask
      <3>2. RightSoFar' => cache[Folder] = Holds(Folder)
        BY <2>1, <2>2, <3>1 DEF RightSoFar, KeepSetInv, WaterInv, WaterNeedsRace, Holds
      <3>3. Rest /\ pc' \in {"ask", "done"}
        BY <2>1, <3>1, <3>2, AnswerKeeps DEF Walking
      <3> QED
        BY <1>1, <2>1, <3>3 DEF KeepSetInv
    <2>3. CASE Folder \notin DOMAIN cache
      <3>1. /\ pc' = IF There(Folder) THEN "list" ELSE "root"
            /\ raced \subseteq raced' /\ UNCHANGED <<walk, square, label>>
        BY <1>2, <2>3 DEF Ask
      <3>2. Rest
        BY <2>1, <3>1, WalkStands DEF Walking, RightSoFar
      <3>3. Folder' = Folder
        BY <3>1 DEF Folder
      <3> QED
        BY <1>1, <2>1, <3>1, <3>2, <3>3 DEF KeepSetInv, There
    <2> QED
      BY <2>2, <2>3
  <1>3. CASE List
    <2>1. UNCHANGED <<drive, zoom, calm, raced>> /\ pc = "list"
      BY <1>3 DEF List
    <2>2. CASE drive
      <3>1. Remember(Folders[Folder]) /\ Answer(Folders[Folder])
        BY <1>3, <2>2 DEF List
      <3>2. Folder \in DOMAIN Folders
        BY <2>1 DEF KeepSetInv
      <3>3. Rest /\ pc' \in {"ask", "done"}
        BY <2>1, <3>1, <3>2, AnswerKeeps DEF Walking, Holds
      <3>4. Known'
        BY <3>1, <3>2 DEF Remember, KeepSetInv
      <3> QED
        BY <1>1, <2>1, <3>3, <3>4 DEF KeepSetInv
    <2>3. CASE ~drive
      <3>1. Answer({}) /\ UNCHANGED cache /\ ~calm'
        BY <1>3, <2>1, <2>3 DEF List, KeepSetInv
      <3>2. Rest /\ pc' \in {"ask", "done"}
        BY <2>1, <3>1, AnswerKeeps DEF Walking, RightSoFar
      <3> QED
        BY <1>1, <2>1, <3>1, <3>2 DEF KeepSetInv
    <2> QED
      BY <2>2, <2>3
  <1>4. CASE AskRoot
    <2>1. UNCHANGED <<drive, zoom, calm>> /\ pc = "root" /\ Answer({})
      BY <1>4 DEF AskRoot
    <2>2. CASE drive
      <3>1. Remember(Water) /\ UNCHANGED raced
        BY <1>4, <2>2 DEF AskRoot
      <3>2. RightSoFar' => Holds(Folder) = {}
        BY <2>1, <3>1 DEF KeepSetInv, WaterInv, RootAsked, RightSoFar, Holds
      <3>3. Rest /\ pc' \in {"ask", "done"}
        BY <2>1, <3>1, <3>2, AnswerKeeps DEF Walking
      <3>4. Known'
        BY <3>1 DEF Remember, KeepSetInv, Water
      <3> QED
        BY <1>1, <2>1, <3>3, <3>4 DEF KeepSetInv
    <2>3. CASE ~drive
      <3>1. UNCHANGED cache /\ ~calm'
        BY <1>4, <2>1, <2>3 DEF AskRoot, KeepSetInv
      <3>2. Rest /\ pc' \in {"ask", "done"}
        BY <2>1, <3>1, AnswerKeeps DEF Walking, RightSoFar
      <3> QED
        BY <1>1, <2>1, <3>1, <3>2 DEF KeepSetInv
    <2> QED
      BY <2>2, <2>3
  <1>5. CASE Reload
    <2>1. /\ pc' = "idle" /\ cache' = [f \in {} |-> Water]
          /\ UNCHANGED <<drive, route, ring, calm>>
      BY <1>5 DEF Reload, walk
    <2> QED
      BY <1>1, <2>1 DEF KeepSetInv, Walking
  <1>6. CASE Drive
    <2>1. ~calm' /\ UNCHANGED <<zoom, cache, pc, walk, square, label>>
      BY <1>6 DEF Drive
    <2>2. Folder' = Folder
      BY <2>1 DEF Folder
    <2> QED
      BY <1>1, <2>1, <2>2 DEF KeepSetInv, RightSoFar, walk
  <1>7. ASSUME NEW r \in Routes, Begin(r) PROVE KeepSetInv'
    <2>1. /\ route' = r /\ ring' = 1 /\ box' = <<>> /\ keep' = {} /\ pc' = "ask"
          /\ square' = Cell(r[1], Side) /\ label' = zoom' /\ calm' = drive
          /\ UNCHANGED <<drive, zoom, cache>>
      BY <1>7 DEF Begin, LookUp
    <2>2. Collecting'
      BY <2>1 DEF Collecting, Looking, AtCentre, Before
    <2> QED
      BY <1>1, <2>1, <2>2 DEF KeepSetInv
  <1>8. CASE UNCHANGED indexVars
    <2>1. UNCHANGED <<drive, zoom, cache, pc, walk, square, label, calm, raced>>
      BY <1>8 DEF indexVars
    <2>2. Rest
      BY <2>1, WalkStands DEF Walking, RightSoFar
    <2>3. Folder' = Folder
      BY <2>1 DEF Folder
    <2> QED
      BY <1>1, <2>1, <2>2, <2>3 DEF KeepSetInv
  <1> QED
    BY <1>2, <1>3, <1>4, <1>5, <1>6, <1>7, <1>8 DEF IndexNext

LEMMA KeepSetInit == ASSUME IndexInit PROVE KeepSetInv
  BY DEF IndexInit, KeepSetInv, Walking, WaterInv, RootAsked, WaterNeedsRace

\* A keep set collected while the drive stayed is the union of the two rings,
\* atlas by atlas, unless a folder was taken for water (compute_keep_set).
THEOREM KeepSetIsRight == IndexSpec => []KeepRight
  <1>1. KeepSetInv => KeepRight
    BY DEF KeepSetInv, KeepRight, Complete, RightSoFar
  <1> QED
    BY <1>1, KeepSetInit, KeepSetNext, PTL DEF IndexSpec

=============================================================================
