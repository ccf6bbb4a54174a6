------------------------------- MODULE Primer -------------------------------
(***************************************************************************)
(* The ortho agent's priming worker: simpit_ortho_agent/primer.py.         *)
(*                                                                         *)
(* The engine hands the primer the keep set, nearest atlas first.  One     *)
(* worker thread reads the atlases that are due through the rclone mount:  *)
(* all of a file the first time (prime), its head from then on (touch).    *)
(* An atlas that left the keep set is forgotten, so that it is primed      *)
(* again when it comes back: rclone may have evicted it meanwhile.         *)
(*                                                                         *)
(* The condition variable's lock makes each critical section one action.   *)
(* A read runs outside the lock.  The deque of pending paths is the set    *)
(* pending, read in the order of the keep set it was refilled from.        *)
(***************************************************************************)
EXTENDS Naturals, SequencesExt

CONSTANTS
    Atlas,   \* atlas paths
    Keeps,   \* the keep sets the engine may compute: nearest-first sequences
    Missing, \* atlases that cannot be read: water, or not built
    MaxMishaps \* bound on touch intervals that run out and on reads that
               \* fail although the file is there

ASSUME PrimerConstants ==
    /\ Atlas # {} /\ Keeps \subseteq Seq(Atlas)
    /\ \A k \in Keeps : \A i, j \in DOMAIN k : k[i] = k[j] => i = j
    /\ Missing \subseteq Atlas
    /\ MaxMishaps \in Nat

VARIABLES
    warm,     \* the keys of _warm
    fresh,    \* the warm atlases read less than one touch interval ago
    pending,  \* the paths in _pending
    order,    \* the keep set of the last schedule()
    worker,   \* "idle", "reading" or "stopped"
    path,     \* the path the worker reads or read last
    full,     \* is that read a prime?
    stopping, \* the _stop event
    mishaps,  \* touch intervals that ran out, reads that failed
    primed,   \* history: atlases read in full and not dropped since
    overtaken \* history: atlases dropped while a touch of them was under way

primerVars == <<warm, fresh, pending, order, worker, path, full, stopping,
                mishaps, primed, overtaken>>

-----------------------------------------------------------------------------
(* The engine's side.                                                      *)

Rank(p) == CHOOSE i \in DOMAIN order : order[i] = p

\* Mutant: what left the keep set stays in the warm map.
ScheduleKeepingAll(keep) ==
    /\ pending' = ToSet(keep) \ fresh
    /\ order'   = keep
    /\ UNCHANGED <<warm, fresh, worker, path, full, stopping, mishaps,
                   primed, overtaken>>

\* schedule(keep): refill the queue with what is cold or due for a touch,
\* and forget what left the keep set.
Schedule(keep) ==
    LET dropped == warm \ ToSet(keep) IN
    /\ pending' = ToSet(keep) \ fresh
    /\ order'   = keep
    /\ warm'    = warm \ dropped
    /\ fresh'   = fresh \ dropped
    /\ primed'  = primed \ dropped
    /\ overtaken' = (overtaken \ dropped) \cup
                    {p \in dropped : worker = "reading" /\ ~full /\ p = path}
    /\ UNCHANGED <<worker, path, full, stopping, mishaps>>

\* clear_pending(): drop queued work, keep the warm map.
ClearPending ==
    /\ pending' = {}
    /\ UNCHANGED <<warm, fresh, order, worker, path, full, stopping, mishaps,
                   primed, overtaken>>

\* stop(): the worker leaves after the file it is reading.
StopPrimer ==
    /\ stopping' = TRUE
    /\ UNCHANGED <<warm, fresh, pending, order, worker, path, full, mishaps,
                   primed, overtaken>>

-----------------------------------------------------------------------------
(* The worker.                                                             *)

\* Mutant: whatever is due is read in full.
TakeInFull ==
    /\ worker = "idle" /\ ~stopping
    /\ \E p \in pending :
         /\ \A q \in pending : Rank(p) <= Rank(q)
         /\ pending' = pending \ {p}
         /\ path' = p /\ full' = TRUE
    /\ worker' = "reading"
    /\ UNCHANGED <<warm, fresh, order, stopping, mishaps, primed,
                   overtaken>>

\* Pop the nearest pending path and decide between prime and touch.
Take ==
    /\ worker = "idle" /\ ~stopping
    /\ \E p \in pending :
         /\ \A q \in pending : Rank(p) <= Rank(q)
         /\ pending' = pending \ {p}
         /\ path' = p /\ full' = (p \notin warm)
    /\ worker' = "reading"
    /\ UNCHANGED <<warm, fresh, order, stopping, mishaps, primed,
                   overtaken>>

ReadOk     == path \notin Missing /\ UNCHANGED mishaps
ReadFails  == \/ path \in Missing /\ UNCHANGED mishaps
              \/ mishaps < MaxMishaps /\ mishaps' = mishaps + 1

\* Mutant: a file that could not be read counts as warm.
RecordAnyway ==
    /\ worker = "reading" /\ worker' = "idle"
    /\ warm'   = warm \cup {path}
    /\ fresh'  = fresh \cup {path}
    /\ \/ ReadOk /\ primed' = IF full THEN primed \cup {path} ELSE primed
       \/ ReadFails /\ UNCHANGED primed
    /\ UNCHANGED <<pending, order, path, full, stopping, overtaken>>

\* The read ends and the worker takes the lock to record it.
Record ==
    /\ worker = "reading" /\ worker' = "idle"
    /\ \/ /\ ReadOk
          /\ warm'   = warm \cup {path}
          /\ fresh'  = fresh \cup {path}
          /\ primed' = IF full THEN primed \cup {path} ELSE primed
       \/ /\ ReadFails
          /\ warm'   = warm \ {path}
          /\ fresh'  = fresh \ {path}
          /\ primed' = primed \ {path}
    /\ UNCHANGED <<pending, order, path, full, stopping, overtaken>>

\* Mutant: the wait for work does not look at the stop event.
WorkerExitBusy ==
    /\ worker = "idle" /\ stopping /\ pending # {}
    /\ worker' = "stopped"
    /\ UNCHANGED <<warm, fresh, pending, order, path, full, stopping, mishaps,
                   primed, overtaken>>

WorkerExit ==
    /\ worker = "idle" /\ stopping
    /\ worker' = "stopped"
    /\ UNCHANGED <<warm, fresh, pending, order, path, full, stopping, mishaps,
                   primed, overtaken>>

WorkerStep == Take \/ Record \/ WorkerExit

\* touch_interval_seconds pass since an atlas was last read.
Age ==
    /\ mishaps < MaxMishaps /\ mishaps' = mishaps + 1
    /\ \E p \in fresh : fresh' = fresh \ {p}
    /\ UNCHANGED <<warm, pending, order, worker, path, full, stopping,
                   primed, overtaken>>

-----------------------------------------------------------------------------
PrimerInit ==
    /\ warm = {} /\ fresh = {} /\ pending = {} /\ order = <<>>
    /\ worker = "idle" /\ path = (CHOOSE p \in Atlas : TRUE) /\ full = FALSE
    /\ stopping = FALSE
    /\ mishaps = 0
    /\ primed = {} /\ overtaken = {}

\* The engine rebuilt its components: it stopped this primer and started
\* another one, with an empty warm map.
ReplacePrimer ==
    /\ warm' = {} /\ fresh' = {} /\ pending' = {} /\ order' = <<>>
    /\ worker' = "idle" /\ full' = FALSE
    /\ primed' = {} /\ overtaken' = {}
    /\ UNCHANGED <<path, stopping, mishaps>>

\* What the engine may ask of a primer, and the worker's own steps.
PrimerNext ==
    \/ ~stopping /\ \E keep \in Keeps : Schedule(keep)
    \/ ~stopping /\ (ClearPending \/ ReplacePrimer)
    \/ StopPrimer
    \/ WorkerStep \/ Age

PrimerSpec == PrimerInit /\ [][PrimerNext]_primerVars

-----------------------------------------------------------------------------
(* Properties.                                                             *)

PrimerTypeOK ==
    /\ warm \subseteq Atlas /\ fresh \subseteq warm
    /\ order \in Keeps \cup {<<>>}
    /\ pending \subseteq ToSet(order)
    /\ worker \in {"idle", "reading", "stopped"}
    /\ path \in Atlas /\ full \in BOOLEAN /\ stopping \in BOOLEAN
    /\ mishaps \in 0..MaxMishaps
    /\ primed \subseteq Atlas /\ overtaken \subseteq Atlas

\* is_warm is "True if the path has been fully primed and not dropped since",
\* up to one race: an atlas can be warm without having been read in full
\* since it was dropped only when a touch of it was under way as the keep set
\* dropped it, and that touch recorded it again.
WarmIsPrimedOrOvertaken == warm \subseteq primed \cup overtaken

\* "atlases that leave the keep set are dropped from the warm map": between
\* two schedules at most one atlas outside the keep set is warm, the one
\* whose read the last schedule overtook.
AtMostOneStray ==
    \A p, q \in warm \ ToSet(order) : p = q

\* The 10 MB read is paid once: no atlas is read in full while it is known
\* to be in the cache, however often schedule() put it back into the queue
\* while it was being read.
FullReadsAreNeeded ==
    worker = "reading" /\ full => path \notin primed

=============================================================================
