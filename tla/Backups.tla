------------------------------ MODULE Backups ------------------------------
(***************************************************************************)
(* backup_xplane.py and restore_xplane.py on slaves that share one         *)
(* BACKUP_FOLDER.  A backup writes its archive under a temporary name,     *)
(* renames it, and prunes: it lists the archives whose names begin like    *)
(* those of its host and deletes all but the newest.  Runs of several      *)
(* hosts, and several runs of one host, go on at the same time; a run may  *)
(* be killed anywhere.  A restore takes the newest archive of its host.    *)
(*                                                                         *)
(* Two runs of one host do not begin within the same second, which would   *)
(* give both the same temporary name.                                      *)
(***************************************************************************)
EXTENDS Naturals, FiniteSets

CONSTANTS
    Host,      \* the slaves
    Extends,   \* pairs <<h, g>> such that g's name is h's, a dash and more
    Slot,      \* bound: backups of one host at a time
    Keep,      \* BACKUP_KEEP
    MaxClock,  \* bound on time
    MaxRuns,   \* bound on backups
    MaxFaults, \* bound on killed runs and on files that cannot be deleted
    None       \* no archive

ASSUME BackupConstants ==
    /\ Extends \subseteq Host \X Host /\ \A h \in Host : <<h, h>> \notin Extends
    /\ Keep \in Nat /\ MaxClock \in Nat /\ MaxRuns \in Nat /\ MaxFaults \in Nat

VARIABLES
    files,   \* BACKUP_FOLDER: [host, stamp, tmp, mtime, whole]
    clock,   \* the time
    runs,    \* backups so far
    run,     \* each backup: [at, stamp, stale]
    reading, \* the archive each host is restoring from
    last,    \* history: when each host's newest archive was completed
    faults

backupVars == <<files, clock, runs, run, reading, last, faults>>

Fault == faults < MaxFaults /\ faults' = faults + 1

Idle == [at |-> "idle", stamp |-> 0, stale |-> {}]

-----------------------------------------------------------------------------
(* backup_xplane.py.                                                       *)

\* A mutant of Fresh: the archive is written under its final name.
FreshInPlace(h) == [host |-> h, stamp |-> clock, tmp |-> FALSE, mtime |-> clock, whole |-> FALSE]

Fresh(h) == [host |-> h, stamp |-> clock, tmp |-> TRUE, mtime |-> clock, whole |-> FALSE]

\* main up to the first bytes of the archive; a run with BACKUP_KEEP < 1 is
\* refused.  A left-over of the same name is removed first.
Begin(h, k) ==
    /\ run[h][k] = Idle /\ Keep >= 1
    /\ runs < MaxRuns /\ runs' = runs + 1
    /\ \A j \in Slot : run[h][j].stamp # clock
    /\ run' = [run EXCEPT ![h][k] = [at |-> "write", stamp |-> clock, stale |-> {}]]
    /\ files' = {f \in files : ~(f.host = h /\ f.stamp = clock /\ f.tmp)} \union {Fresh(h)}
    /\ UNCHANGED <<clock, reading, last, faults>>

\* The archive is complete, which takes its time.
Written(h, k) ==
    LET r == run[h][k] IN
    /\ r.at = "write" /\ clock # r.stamp
    /\ files' = {IF f.host = h /\ f.stamp = r.stamp THEN [f EXCEPT !.mtime = clock, !.whole = TRUE]
                                                    ELSE f : f \in files}
    /\ run' = [run EXCEPT ![h][k].at = "rename"]
    /\ UNCHANGED <<clock, runs, reading, last, faults>>

\* Writing failed: the temporary file is removed.
Unwritten(h, k) ==
    /\ run[h][k].at = "write" /\ Fault
    /\ files' = {f \in files : ~(f.host = h /\ f.stamp = run[h][k].stamp /\ f.tmp)}
    /\ run' = [run EXCEPT ![h][k] = Idle]
    /\ UNCHANGED <<clock, runs, reading, last>>

\* os.replace; when it fails the temporary file is left where it is.
Rename(h, k) ==
    /\ run[h][k].at = "rename"
    /\ \/ /\ \E f \in files :
               /\ f.host = h /\ f.stamp = run[h][k].stamp
               /\ files' = (files \ {f}) \union {[f EXCEPT !.tmp = FALSE]}
               /\ last' = [last EXCEPT ![h] = IF f.mtime > @ THEN f.mtime ELSE @]
          /\ run' = [run EXCEPT ![h][k].at = "prune"] /\ UNCHANGED faults
       \/ Fault /\ run' = [run EXCEPT ![h][k] = Idle] /\ UNCHANGED <<files, last>>
    /\ UNCHANGED <<clock, runs, reading>>

\* The archives whose names begin like those of h and end like archives.
Candidates(h) == {f \in files : ~f.tmp /\ (f.host = h \/ <<h, f.host>> \in Extends)}

\* The sort is stable and a folder is listed by name.
Before(f, g) == f.mtime > g.mtime \/ (f.mtime = g.mtime /\ f.stamp < g.stamp)

\* Mutant of Stales: one too many.
StalesOffByOne(cands) == {f \in cands : Cardinality({g \in cands : Before(g, f)}) >= Keep - 1}

\* candidates[keep:], sorted by modification time.
Stales(cands) == {f \in cands : Cardinality({g \in cands : Before(g, f)}) >= Keep}

\* _prune lists and sorts.  A file that another run deletes meanwhile makes
\* stat() raise, and the run ends.
List(h, k) ==
    /\ run[h][k].at = "prune"
    /\ \/ LET stale == Stales(Candidates(h)) IN
            run' = [run EXCEPT ![h][k] = IF stale = {} THEN Idle
                                         ELSE [@ EXCEPT !.at = "delete", !.stale = stale]]
       \/ /\ \E g \in Host, j \in Slot : run[g][j].stale \intersect Candidates(h) # {}
          /\ run' = [run EXCEPT ![h][k] = Idle]
    /\ UNCHANGED <<files, clock, runs, reading, last, faults>>

\* One of them is deleted, or cannot be.
Delete(h, k) ==
    /\ run[h][k].at = "delete"
    /\ \E f \in run[h][k].stale :
         /\ \/ files' = files \ {f} /\ UNCHANGED faults
            \/ UNCHANGED files /\ Fault
         /\ run' = [run EXCEPT ![h][k] = IF @.stale = {f} THEN Idle
                                         ELSE [@ EXCEPT !.stale = run[h][k].stale \ {f}]]
    /\ UNCHANGED <<clock, runs, reading, last>>

Killed(h, k) ==
    /\ run[h][k] # Idle /\ Fault /\ run' = [run EXCEPT ![h][k] = Idle]
    /\ UNCHANGED <<files, clock, runs, reading, last>>

-----------------------------------------------------------------------------
(* restore_xplane.py.                                                      *)

\* Mutant of Newest: goes by the time in the name.
NewestByName(cands) == {f \in cands : \A g \in cands : g.stamp <= f.stamp}

Newest(cands) == {f \in cands : \A g \in cands : ~Before(g, f)}

\* _pick_archive without BACKUP_FILE.
Pick(h) ==
    /\ reading[h] = None
    /\ \E f \in Newest(Candidates(h)) : reading' = [reading EXCEPT ![h] = f]
    /\ UNCHANGED <<files, clock, runs, run, last, faults>>

\* It was extracted, or could not be: it is gone.
Restored(h) ==
    /\ reading[h] # None /\ reading' = [reading EXCEPT ![h] = None]
    /\ UNCHANGED <<files, clock, runs, run, last, faults>>

-----------------------------------------------------------------------------
Time ==
    /\ clock < MaxClock /\ clock' = clock + 1
    /\ UNCHANGED <<files, runs, run, reading, last, faults>>

BackupInit ==
    /\ files = {} /\ clock = 1 /\ runs = 0 /\ faults = 0
    /\ run = [h \in Host |-> [k \in Slot |-> Idle]]
    /\ reading = [h \in Host |-> None] /\ last = [h \in Host |-> 0]

Backup(h, k) ==
    Begin(h, k) \/ Written(h, k) \/ Unwritten(h, k) \/ Rename(h, k) \/ List(h, k) \/ Delete(h, k)

BackupNext ==
    \/ \E h \in Host : Pick(h) \/ Restored(h) \/ \E k \in Slot : Backup(h, k) \/ Killed(h, k)
    \/ Time

BackupSpec == BackupInit /\ [][BackupNext]_backupVars

-----------------------------------------------------------------------------
(* Properties.                                                             *)

\* What looks like a backup is a complete one, wherever a run was killed.
NeverHalf == \A f \in files : ~f.tmp => f.whole

\* The newest archive that a host ever completed is still there, whatever its
\* own runs, one after the other or overlapping, and those of the others prune.
KeepsNewest ==
    \A h \in Host :
      last[h] # 0 => \E f \in files : f.host = h /\ ~f.tmp /\ f.mtime = last[h]

\* A restore takes that one, in whatever order overlapping backups finished.
RestoresNewest ==
    [][\A h \in Host :
         reading[h] = None /\ reading'[h] # None =>
           reading'[h].host = h /\ reading'[h].mtime = last[h] /\ reading'[h].whole]_backupVars
=============================================================================
