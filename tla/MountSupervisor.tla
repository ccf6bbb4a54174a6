--------------------------- MODULE MountSupervisor ---------------------------
(***************************************************************************)
(* The ortho agent's rclone supervision: simpit_ortho_agent/mount.py, as   *)
(* the engine's tick uses it.                                              *)
(*                                                                         *)
(* rclone brings the scenery drive up: a process that starts, answers on   *)
(* its rc address after a while, and shows the drive once its cache is     *)
(* reconciled, minutes later.  Normally the logon helper starts it; the    *)
(* agent starts one only when neither the drive nor the rc is there and    *)
(* its own child is not on its way.  The processes are external: they      *)
(* move, and die, as they like.                                            *)
(***************************************************************************)
EXTENDS Naturals, FiniteSets

CONSTANTS
    Child,     \* rclone processes of the agent: one that has ended starts anew
    Helper,    \* the rclone process of the logon helper
    Addr,      \* rc addresses
    Root,      \* drive letters
    NoProc,    \* no process
    MaxEvents  \* bound on deaths, failed launches and rebuilds

Proc == Child \cup {Helper}

ASSUME MountConstants ==
    /\ Helper \notin Child /\ NoProc \notin Proc
    /\ Addr # {} /\ Root # {} /\ MaxEvents \in Nat

VARIABLES
    stage,     \* stage[p]: "unborn", "starting", "serving", "mounted", "dead"
    rcAt,      \* the rc address each process was started with
    rootAt,    \* the drive letter each process was started with
    rc,        \* rc_addr of the configuration in force
    root,      \* mount_root of the configuration in force
    supervise, \* supervise_mount of the configuration in force
    child,     \* _proc: the rclone this supervisor started last, or NoProc
    mpc,       \* where ensure_mounted is
    events,    \* deaths, failed launches and rebuilds so far
    mine       \* history: the processes this supervisor started

vars == <<stage, rcAt, rootAt, rc, root, supervise, child, mpc, events, mine>>

Alive(p) == stage[p] \in {"starting", "serving", "mounted"}

\* mount_up: some rclone shows the drive of letter l.
Drive(l) == \E p \in Proc : stage[p] = "mounted" /\ rootAt[p] = l

\* rc_stats: some rclone answers at address a.
Answers(a) == \E p \in Proc : stage[p] \in {"serving", "mounted"} /\ rcAt[p] = a

Happens == events < MaxEvents /\ events' = events + 1

-----------------------------------------------------------------------------
(* The mount gate of tick(), and ensure_mounted behind it.                 *)

\* mount_up: done, or look further.
CheckDrive ==
    /\ mpc = "idle"
    /\ mpc' = IF Drive(root) THEN "idle" ELSE "probe"
    /\ UNCHANGED <<stage, rcAt, rootAt, rc, root, supervise, child, events, mine>>

\* Mutant: any child ever started counts as one that is still starting.
ProbeTrustingChild ==
    /\ mpc = "probe"
    /\ mpc' = IF Answers(rc) THEN "waiting"
              ELSE IF ~supervise THEN "idle"
              ELSE IF child # NoProc THEN "waiting" ELSE "launch"
    /\ UNCHANGED <<stage, rcAt, rootAt, rc, root, supervise, child, events, mine>>

\* Mutant: nobody asks whether an earlier child is still starting.
ProbeForgettingChild ==
    /\ mpc = "probe"
    /\ mpc' = IF Answers(rc) THEN "waiting"
              ELSE IF ~supervise THEN "idle" ELSE "launch"
    /\ UNCHANGED <<stage, rcAt, rootAt, rc, root, supervise, child, events, mine>>

\* An answering rc means that some rclone is on its way, and so does a child
\* that has not ended; without supervise_mount nothing is started.
Probe ==
    /\ mpc = "probe"
    /\ mpc' = IF Answers(rc) THEN "waiting"
              ELSE IF ~supervise THEN "idle"
              ELSE IF child # NoProc /\ Alive(child) THEN "waiting" ELSE "launch"
    /\ UNCHANGED <<stage, rcAt, rootAt, rc, root, supervise, child, events, mine>>

\* The process that Popen starts next: which one it is makes no difference.
Startable == {p \in Child : ~Alive(p)}
NextChild == CHOOSE p \in Startable : TRUE

\* _launch: Popen starts rclone, or fails.
Launch ==
    /\ mpc = "launch" /\ mpc' = "waiting"
    /\ \/ /\ Startable # {}
          /\ stage'  = [stage EXCEPT ![NextChild] = "starting"]
          /\ rcAt'   = [rcAt EXCEPT ![NextChild] = rc]
          /\ rootAt' = [rootAt EXCEPT ![NextChild] = root]
          /\ child' = NextChild /\ mine' = mine \cup {NextChild}
          /\ UNCHANGED events
       \/ /\ Happens /\ child' = NoProc
          /\ UNCHANGED <<stage, rcAt, rootAt, mine>>
    /\ UNCHANGED <<rc, root, supervise>>

\* _wait_for_mount returns: the drive is there, or MOUNT_WAIT_SECONDS passed.
WaitEnds ==
    /\ mpc = "waiting" /\ mpc' = "idle"
    /\ UNCHANGED <<stage, rcAt, rootAt, rc, root, supervise, child, events, mine>>

EnsureMounted == CheckDrive \/ Probe \/ Launch \/ WaitEnds

\* _rebuild_components replaces the supervisor between two ticks: the new one
\* knows nothing of the rclone the old one started, which runs on at its own
\* address and letter.
Rebuild ==
    /\ mpc = "idle" /\ Happens
    /\ rc' \in Addr /\ root' \in Root /\ supervise' \in BOOLEAN
    /\ child' = NoProc /\ mine' = {}
    /\ UNCHANGED <<stage, rcAt, rootAt, mpc>>

-----------------------------------------------------------------------------
(* rclone.  A process whose rc address is taken cannot start serving, and  *)
(* one whose letter is taken cannot show its drive: each may end by that.  *)

Serve(p) ==
    /\ stage[p] = "starting" /\ ~Answers(rcAt[p])
    /\ stage' = [stage EXCEPT ![p] = "serving"]
    /\ UNCHANGED <<rcAt, rootAt, rc, root, supervise, child, mpc, events, mine>>

ShowDrive(p) ==
    /\ stage[p] = "serving" /\ ~Drive(rootAt[p])
    /\ stage' = [stage EXCEPT ![p] = "mounted"]
    /\ UNCHANGED <<rcAt, rootAt, rc, root, supervise, child, mpc, events, mine>>

Blocked(p) == \/ stage[p] = "starting" /\ Answers(rcAt[p])
              \/ stage[p] = "serving" /\ Drive(rootAt[p])

Die(p) ==
    /\ Alive(p)
    /\ stage' = [stage EXCEPT ![p] = "dead"]
    /\ IF Blocked(p) THEN UNCHANGED events ELSE Happens
    /\ UNCHANGED <<rcAt, rootAt, rc, root, supervise, child, mpc, mine>>

\* The logon helper runs ortho_mount.bat.
HelperStarts ==
    /\ stage[Helper] = "unborn"
    /\ stage' = [stage EXCEPT ![Helper] = "starting"]
    /\ UNCHANGED <<rcAt, rootAt, rc, root, supervise, child, mpc, events, mine>>

Rclone == \E p \in Proc : Serve(p) \/ ShowDrive(p) \/ Die(p)

Init ==
    /\ stage = [p \in Proc |-> "unborn"]
    /\ rc \in Addr /\ rcAt = [p \in Proc |-> rc]
    /\ root \in Root /\ rootAt = [p \in Proc |-> root]
    /\ supervise \in BOOLEAN /\ child = NoProc
    /\ mpc = "idle" /\ events = 0 /\ mine = {}

Next == EnsureMounted \/ Rebuild \/ HelperStarts \/ Rclone

\* The engine calls ensure_mounted again in every tick, and its steps return.
\* An rclone that neither dies nor finds its address or its letter taken makes
\* progress.
Fairness ==
    /\ WF_vars(EnsureMounted)
    /\ \A p \in Proc : WF_vars(Serve(p) \/ ShowDrive(p))

Spec     == Init /\ [][Next]_vars
LiveSpec == Spec /\ Fairness

-----------------------------------------------------------------------------
(* Properties.                                                             *)

TypeOK ==
    /\ stage \in [Proc -> {"unborn", "starting", "serving", "mounted", "dead"}]
    /\ rcAt \in [Proc -> Addr] /\ rc \in Addr
    /\ rootAt \in [Proc -> Root] /\ root \in Root /\ supervise \in BOOLEAN
    /\ child \in Child \cup {NoProc} /\ mine \subseteq Child
    /\ mpc \in {"idle", "probe", "launch", "waiting"}
    /\ events \in 0..MaxEvents

\* One supervisor never has two rclones alive, however slowly the first one
\* starts and however often it dies or fails to launch: a live child is the
\* one it keeps track of, or it is about to find that none lives.
OwnRcloneIsTracked ==
    \A p \in mine : Alive(p) => p = child /\ mpc # "launch"

\* An rclone of another letter answers at the address in force: ensure_mounted
\* takes it for the one that is bringing the drive up.
Squatted ==
    \E p \in Proc : /\ stage[p] \in {"serving", "mounted"}
                  /\ rcAt[p] = rc /\ rootAt[p] # root

\* A drive that is gone, or that a reload has moved to another letter, comes
\* up as long as the agent may launch rclone and no rclone of another letter
\* holds the rc address for ever: the retries get over slow starts, deaths,
\* failed launches and rebuilds.
DriveComesBack == (<>[]supervise /\ []<>~Squatted) => []<>Drive(root)

\* The same without the second premise does not hold, and no run checks it: a
\* reload that changes mount_root and keeps rc_addr leaves the old rclone
\* answering, and ensure_mounted waits for it in every tick.
DriveFollowsTheSettings == (<>[]supervise) => []<>Drive(root)

=============================================================================
