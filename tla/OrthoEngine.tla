----------------------------- MODULE OrthoEngine -----------------------------
(***************************************************************************)
(* The ortho agent's state machine: simpit_ortho_agent/engine.py, with the *)
(* primer it drives (Primer) and the position feed it reads (rref.py).     *)
(*                                                                         *)
(* The engine's thread runs tick() for ever: re-read the configuration,    *)
(* look at the age of the last position sample, wait for the scenery       *)
(* drive, compute the keep set at the sample and hand it to the primer.    *)
(* The feed's thread, the primer's worker, rclone, the simulator and the   *)
(* operator act between any two of these steps.                            *)
(*                                                                         *)
(* A position is an abstract place of the aircraft; KeepAt gives the keep  *)
(* set that the tuning fields yield there.  MountSupervisor is a module of *)
(* its own; here ensure_mounted only waits for the drive.                  *)
(***************************************************************************)
EXTENDS Primer

CONSTANTS
    Position,  \* where the aircraft can be
    Slow,      \* the positions where it stands still
    Config,    \* effective configurations: [enabled, endpoint, tuning]
    KeepAt,    \* KeepAt[p][t]: the keep set at position p under tuning t
    NoSample,  \* the feed has none yet
    MaxEvents  \* bound on moves, silences, edits and losses of the drive

ASSUME EngineConstants ==
    /\ Slow \subseteq Position /\ NoSample \notin Position
    /\ Config \subseteq [enabled : BOOLEAN, endpoint : STRING, tuning : STRING]
    /\ \A p \in Position, c \in Config : KeepAt[p][c.tuning] \in Keeps
    /\ MaxEvents \in Nat

VARIABLES
    sample,   \* the position of the last complete sample, or NoSample
    silent,   \* no complete sample for more than OFFLINE_AFTER_SECONDS
    drive,    \* is the scenery drive there?
    saved,    \* what reading the configuration files yields now
    cfg,      \* the configuration in force
    state,    \* "SIM_OFFLINE", "IDLE" or "ACTIVE"
    epc,      \* where the engine's thread is in run() and tick()
    lastKeep, \* _last_keep
    stop,     \* the stop event of run()
    events    \* moves, silences, edits and losses of the drive so far

feedVars   == <<sample, silent>>
engineVars == <<cfg, state, epc, lastKeep>>
worldVars  == <<drive, saved, stop, events>>
vars       == <<primerVars, feedVars, engineVars, worldVars>>

-----------------------------------------------------------------------------
(* Helpers of tick().                                                      *)

GotoE(stage) == epc' = stage

\* Mutant: going offline looks like an empty keep set.
EnterForgetting(s) ==
    /\ state' = s
    /\ IF s = "SIM_OFFLINE" /\ state # s THEN Schedule(<<>>)
                                         ELSE UNCHANGED primerVars

\* Mutant: going offline leaves the queue as it is.
EnterQuietly(s) == state' = s /\ UNCHANGED primerVars

\* _enter: entering SIM_OFFLINE drops the queued work.
Enter(s) ==
    /\ state' = s
    /\ IF s = "SIM_OFFLINE" /\ state # s THEN ClearPending
                                         ELSE UNCHANGED primerVars

\* _rebuild_components: a new feed without a sample and a new primer.
Rebuild ==
    /\ cfg' = saved
    /\ sample' = NoSample /\ silent' = TRUE
    /\ lastKeep' = <<>> /\ state' = "SIM_OFFLINE"
    /\ ReplacePrimer

\* _reload_config: nothing new, or an endpoint field changed, or only
\* fields that apply in place.
Reload ==
    \/ saved = cfg /\ UNCHANGED <<cfg, state, lastKeep, feedVars, primerVars>>
    \/ saved.endpoint # cfg.endpoint /\ Rebuild
    \/ /\ saved # cfg /\ saved.endpoint = cfg.endpoint
       /\ cfg' = saved
       /\ UNCHANGED <<state, lastKeep, feedVars, primerVars>>

-----------------------------------------------------------------------------
(* The engine's thread.                                                    *)

\* A tick starts; every CONFIG_POLL_SECONDS it re-reads the configuration.
TickBegin ==
    /\ epc = "sleep" /\ ~stop
    /\ GotoE("age")
    /\ Reload \/ UNCHANGED <<cfg, state, lastKeep, feedVars, primerVars>>
    /\ UNCHANGED worldVars

\* The simulator is silent or the agent disabled: offline.  The first tick
\* that finds it alive again re-reads the configuration before going on.
CheckAge ==
    /\ epc = "age"
    /\ IF sample = NoSample \/ silent \/ ~cfg.enabled
       THEN /\ Enter("SIM_OFFLINE") /\ GotoE("sleep")
            /\ UNCHANGED <<cfg, lastKeep, feedVars>>
       ELSE IF state = "SIM_OFFLINE"
       THEN Reload /\ GotoE("mount")
       ELSE GotoE("mount")
            /\ UNCHANGED <<cfg, state, lastKeep, feedVars, primerVars>>
    /\ UNCHANGED worldVars

\* The mount gate: pass, or wait up to MOUNT_WAIT_SECONDS for the drive and
\* give the tick up.
MountGate ==
    /\ epc = "mount"
    /\ GotoE(IF drive THEN "plan" ELSE "sleep")
    /\ UNCHANGED <<cfg, state, lastKeep, feedVars, primerVars, worldVars>>

\* Mutant: the primer hears of a keep set only when it changed.
PlanChangesOnly ==
    /\ epc = "plan" /\ GotoE("sleep")
    /\ IF sample = NoSample
       THEN UNCHANGED <<state, lastKeep, primerVars>>
       ELSE LET keep == KeepAt[sample][cfg.tuning] IN
            /\ lastKeep' = keep
            /\ state' = IF sample \in Slow /\ keep = lastKeep THEN "IDLE"
                                                              ELSE "ACTIVE"
            /\ IF keep # lastKeep THEN Schedule(keep) ELSE UNCHANGED primerVars
    /\ UNCHANGED <<cfg, feedVars, worldVars>>

\* The rest of the tick.  A feed that was rebuilt in this very tick has no
\* sample: tick() raises and run() goes on with the next one.
Plan ==
    /\ epc = "plan" /\ GotoE("sleep")
    /\ IF sample = NoSample
       THEN UNCHANGED <<state, lastKeep, primerVars>>
       ELSE LET keep == KeepAt[sample][cfg.tuning] IN
            /\ lastKeep' = keep
            /\ state' = IF sample \in Slow /\ keep = lastKeep THEN "IDLE"
                                                              ELSE "ACTIVE"
            /\ Schedule(keep)
    /\ UNCHANGED <<cfg, feedVars, worldVars>>

\* run() sees the stop event between two ticks and stops the primer.
Close ==
    /\ epc = "sleep" /\ stop /\ GotoE("closed")
    /\ StopPrimer
    /\ UNCHANGED <<cfg, state, lastKeep, feedVars, worldVars>>

EngineStep == TickBegin \/ CheckAge \/ MountGate \/ Plan \/ Close

-----------------------------------------------------------------------------
(* Everything around it.                                                   *)

Happens == events < MaxEvents /\ events' = events + 1

\* The feed's thread completes a sample.
Sample ==
    /\ epc # "closed"
    /\ \E p \in Position : sample' = p
    /\ silent' = FALSE
    /\ IF sample \in {NoSample, sample'} THEN UNCHANGED events ELSE Happens
    /\ UNCHANGED <<primerVars, engineVars, drive, saved, stop>>

Silence ==
    /\ sample # NoSample /\ ~silent /\ silent' = TRUE
    /\ Happens
    /\ UNCHANGED <<primerVars, engineVars, sample, drive, saved, stop>>

\* The operator saves the Ortho Cache dialog, or the fleet folder becomes
\* unreachable or reachable again and load_effective yields something else.
ConfigChanges ==
    /\ \E c \in Config \ {saved} : saved' = c
    /\ Happens
    /\ UNCHANGED <<primerVars, feedVars, engineVars, drive, stop>>

DriveGoes ==
    /\ drive /\ drive' = FALSE /\ Happens
    /\ UNCHANGED <<primerVars, feedVars, engineVars, saved, stop>>

DriveComes ==
    /\ ~drive /\ drive' = TRUE
    /\ UNCHANGED <<primerVars, feedVars, engineVars, saved, stop, events>>

\* Mutant: the signal handler stops the primer itself.
StopSignalDirect ==
    /\ ~stop /\ stop' = TRUE
    /\ StopPrimer
    /\ UNCHANGED <<feedVars, engineVars, drive, saved, events>>

StopSignal ==
    /\ ~stop /\ stop' = TRUE
    /\ UNCHANGED <<primerVars, feedVars, engineVars, drive, saved, events>>

World == \/ Sample \/ Silence \/ ConfigChanges \/ DriveGoes \/ DriveComes
         \/ StopSignal

WorkerMoves == WorkerStep /\ UNCHANGED <<feedVars, engineVars, worldVars>>
TimePasses  == Age /\ UNCHANGED <<feedVars, engineVars, worldVars>>

Init ==
    /\ PrimerInit
    /\ sample = NoSample /\ silent = TRUE
    /\ drive \in BOOLEAN
    /\ saved \in Config /\ cfg = saved
    /\ cfg.enabled
    /\ state = "SIM_OFFLINE" /\ epc = "sleep" /\ lastKeep = <<>>
    /\ stop = FALSE
    /\ events = 0

Next == EngineStep \/ WorkerMoves \/ TimePasses \/ World

\* The engine's thread and the worker run as long as the process does; a
\* read returns, with the data or an error.  Nobody owes the agent a sample,
\* a drive, an edit or a stop.
Fairness == WF_vars(EngineStep) /\ WF_vars(WorkerMoves)

Spec     == Init /\ [][Next]_vars
LiveSpec == Spec /\ Fairness

-----------------------------------------------------------------------------
(* Properties.                                                             *)

TypeOK ==
    /\ PrimerTypeOK
    /\ sample \in Position \cup {NoSample} /\ silent \in BOOLEAN
    /\ drive \in BOOLEAN /\ saved \in Config /\ cfg \in Config
    /\ state \in {"SIM_OFFLINE", "IDLE", "ACTIVE"}
    /\ epc \in {"sleep", "age", "mount", "plan", "closed"}
    /\ lastKeep \in Keeps \cup {<<>>} /\ stop \in BOOLEAN
    /\ events \in 0..MaxEvents

\* "SIM_OFFLINE: priming and touching pause, pending work is dropped": an
\* offline agent never has queued work, whichever way it went offline.
OfflineIsQuiet == state = "SIM_OFFLINE" => pending = {}

\* "the cache is left exactly as-is (... the warm map is kept)": an atlas
\* leaves the warm map only because the keep set no longer has it, because
\* reading it failed, or because the components were rebuilt.
ForgetsOnlyForCause ==
    [][\A p \in warm \ warm' :
          \/ lastKeep' # lastKeep /\ p \notin ToSet(lastKeep')
          \/ worker = "reading" /\ worker' = "idle" /\ path = p
          \/ epc = "plan" /\ p \notin ToSet(order')
          \/ cfg.endpoint # cfg'.endpoint]_vars

\* The atlases of a keep set that no unreadable one keeps behind it.
Reachable(k) == {k[i] : i \in {j \in DOMAIN k : \A n \in 1..j : k[n] \notin Missing}}

\* The bubble fills: when the aircraft stays in the simulator, the drive is
\* there and the agent runs, all that can be read of its keep set is warm in
\* the end, after any history of moves, edits, silences and failed reads.
BubbleGetsWarm ==
    <>[](sample # NoSample /\ ~silent /\ drive /\ cfg.enabled /\ saved = cfg /\ ~stop)
    => <>[](sample # NoSample => Reachable(KeepAt[sample][cfg.tuning]) \subseteq warm)

\* The stop event ends the worker, even in the middle of a tick or a read.
StopEnds == stop ~> worker = "stopped"

=============================================================================
