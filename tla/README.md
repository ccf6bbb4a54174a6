# SimPit in TLA+

SimPit runs a multi-machine flight simulator cockpit. **Control** (a Tk
application on one machine) shows the other machines, the **slaves**, pushes
scripts to them and runs them there. A **slave agent** on each machine answers
status questions and executes scripts. An **ortho agent** on each machine
keeps the photo scenery around the aircraft in rclone's disk cache. This
directory holds TLA+ models of that code, the TLC runs that check them, and
TLAPS proofs about them. All source paths are relative to the repository.

## 1. Inventory

| Component | State | Operations | Hard behaviour | What makes it correct |
|---|---|---|---|---|
| Script folders of a slave (`simpit_slave/data.py`, TCP side of `agent.py`) | `cascaded/`, `cascaded.new/`, `cascaded.old/`, `local/` | SYNC_PUSH (`apply_sync_push`), script lookup, agent start | one thread per connection and no lock; death between any two system calls; Windows refuses to rename a busy folder | a push installs exactly its set; no crash loses the last set; the pushed copy of a script wins |
| Executor (`simpit_slave/executor.py`) | process-wide `os.environ`, `sys.stdout`; child processes | EXEC_SCRIPT: subprocess, in-process Python, elevated child | two in-process scripts at once, timeouts, output limits | environment and streams restored, one result per request |
| Agent UDP side, inspector (`agent.py`, `inspector.py`) | none of their own | PING, STATUS, SHUTDOWN_PC, periodic SLAVE_ONLINE | messages that do not verify get no answer | a reply describes the slave now |
| Protocol and keys (`simpit_common/protocol.py`, `security.py`) | key file | sign, verify, freshness, save/load key | clock drift, crash while saving | only fresh messages under the same key are acted upon |
| Slave link (`simpit_control/slave_link.py`) | none | UDP and TCP calls with deadlines | lost replies, deadlines shorter than the work | every call returns one outcome |
| Poller, sync workers, window (`poller.py`, `ui/controller.py`, `ui/app.py`) | status cache, result queue, cards | poll tick, mark_syncing, push, redraw, slave CRUD, new key | poller, workers and main thread share cache and queue; answers older than the state they overwrite | cards show the cache, and the cache becomes true |
| Store, registry, registration (`simpit_control/data.py`, `registry.py`, `RegistrationListener`, the two CRUD dialogs) | slaves, scripts, suppressed names in memory and in two JSON files; waiting announcements | CRUD, seeding, announcements and their confirmation | crash between the two files, failed writes, unreadable files; queued announcements | every operation is kept whole or not at all, no slave twice, deleted scripts stay deleted |
| Dashboard view models, probes (`ui/viewmodels.py`, `simpit_common/probes.py`, `inspector.py`) | none | row collapse of toggle pairs, probe evaluation | the two probes of a pair are taken one after the other | the button offers the applicable half |
| Ortho engine and feed (`simpit_ortho_agent/engine.py`, `rref.py`) | configuration, state, last keep set, last sample | tick, reload, rebuild, stop | simulator, drive, operator and worker change between the steps of a tick | offline is quiet; the warm map survives all but a rebuild; the bubble gets warm |
| Primer (`primer.py`) | queue, warm map | schedule, clear_pending, stop, worker loop | reads run outside the lock while schedule changes the map | warm means read in full; nothing is read in full twice |
| Mount supervision (`mount.py`) | the rclone child | ensure_mounted, launch, wait | rclone takes minutes, dies, is started by the logon helper as well | the drive comes back; never two mounts |
| Scenery index and keep set (`atlas_index.py`, `keepset.py`, `tilemath.py`) | cached directory listings | lookup, rings around aircraft and lookahead point | a drive outage during a lookup; two grids that do not line up | the keep set is what lies in the rings, once; an outage never marks real scenery as water |
| Ortho configuration (`ortho_config.py`, `ortho_dialog.py`, readers in the agent) | Control's file, fleet copy, overlays, one local file per machine | save, save_fleet, load_effective, first-boot copy | a file missing for one poll; a save that reaches one of two files | a machine's own settings survive; a delivered edit arrives |
| Scenery toggle (`scripts/*_custom_scenery.*`) | three folders in X-Plane | disable, enable | several renames with failures between; clicks on a button that is out of date | never stuck, the user's scenery is never parked as the baseline |
| Dummy scenery (`scripts/make_dummy_scenery.py`) | dummy tile folders and their markers | plan, build in a pool, prune | kills, failed files, a source that changes under the run | a marked folder mirrors its tile |
| Backup and restore (`scripts/backup_xplane.py`, `restore_xplane.py`) | archives on a share | write, rename, prune, pick | several hosts and overlapping runs, kills | never a half archive under a real name; the newest are kept |
| Other cascaded scripts (hosts entries, scenery profile, task, quit) | one text file each | rewrite | – | not modelled |
| Dialogs, widgets, theme, installers, mock slaves, live checks | layout, packaging | – | – | not modelled |

Interactions: Control's poller and workers call a slave's agent over UDP
(STATUS) and TCP (SYNC_PUSH, EXEC_SCRIPT); the agent's TCP threads share the
script folders; the ortho engine drives primer, feed and mount supervisor and
reads the configuration that Control's dialog writes; the scenery toggle runs
through window, agent, folders, probes, poller and window again. `PROJECT.json` lists each
component with its status, and the hazards with the lines where they bite.

## 2. Modules

| Module | Models | Composes |
|---|---|---|
| `SlaveScripts` | script folders, SYNC_PUSH and EXEC_SCRIPT lookup | – |
| `Primer` | the priming worker; also the abstract specification of what the engine may ask of it | – |
| `OrthoEngine` | engine, feed, drive, operator | extends `Primer`, implements `PrimerSpec` |
| `MountSupervisor` | rclone supervision and the rclone processes | – |
| `ControlStatus` | poller, sync workers, result queue, cards, key change | – |
| `Executor` | EXEC_SCRIPT: in-process, child-process and elevated runs | – |
| `StoreTables`, `StorePromise`, `ControlStore` | Control's two tables; what the store promises; the store, its files, dialogs, seeding and announcements | `ControlStore` implements `StorePromise` |
| `Dashboard` | the rows and buttons of the scripts list, as a function | – |
| `SceneryToggle` | both toggle scripts, probes, poller, window, clicks | instantiates `Dashboard` |
| `DummyScenery` | the dummy builder | – |
| `SceneryIndex` | keep set, index cache, tile arithmetic | – |
| `Backups` | backup, prune and restore on a shared folder | – |
| `FleetConfig` | the ortho settings files, the dialog that writes and the agents that read them | – |
| `MC*` | constants for TLC | the module after `MC` |
| `SlaveScriptsProofs`, `OrthoEngineProofs` (with `Primer`), `ControlStatusProofs`, `ExecutorProofs`, `ControlStoreProofs`, `SceneryToggleProofs` | theorems and proofs | the module before `Proofs` |
| `MachineProofs` | theorems and proofs about `MountSupervisor`, `FleetConfig` and `Backups`, which share nothing | these three |
| `SceneryProofs` | theorems and proofs about `DummyScenery` and `SceneryIndex`, which share nothing | these two |

### SlaveScripts

The folders are `there` (which exist) and `held[d][f]` (which push wrote file
`f` of folder `d`); a file is a base name and an extension class, its content
is the push that wrote it. Each push has a `pc` that walks through
`apply_sync_push`: one action per system call that another thread can observe
(existence test with listing, each unlink, rmdir, mkdir, each write, each
rename). An EXEC walks the four candidate paths of `find_script` one at a time
and then opens what it found. `Crash` stops the process between any two steps;
`Restart` creates the missing folders as `ensure()` does. An exception ends a
connection in `raised`: the handler thread logs it and closes.

Abstractions: `write_text` is atomic, includes the `chmod`, and fails only when
its folder is gone, not for a full disk; names contain no dot; the existence test
and the listing of an rmtree are one step; rmtree is the path-based algorithm
(the file-descriptor variant of POSIX gives fewer outcomes); the Windows
rules for renaming onto an existing or busy folder are external.

### Primer and OrthoEngine

The condition variable's lock makes each critical section of `primer.py` one
action: `Schedule`, `ClearPending`, `StopPrimer`, and the worker's `Take` and
`Record` with the read between them outside the lock. The warm map's time
stamps are abstracted to `fresh`, from which `Age` takes an atlas when its
touch interval is over. `primed` and `overtaken` are history variables.

`OrthoEngine` splits `tick()` where another thread can change what it reads:
reload, age check (with the second reload of the first tick after a silence),
mount gate, plan. A position is abstract; `KeepAt` gives the keep set.
`ReplacePrimer` stands for the rebuild's stop and replacement; that the old
worker may finish one last read of its own is not modelled, since it records
into a warm map nobody reads. Bandwidth pacing is left out.

### MountSupervisor

Processes have a stage (`unborn`, `starting`, `serving`, `mounted`, `dead`), an
rc address which only one process can serve and a drive letter which only one
can show; they keep both for life. The agent's steps are the branches of
`ensure_mounted` for the letter and the address in force, which `Rebuild` may
change; deaths, failed launches and rebuilds are bounded. An rclone of another
letter that answers at the address in force is `Squatted`: the agent waits for
it, and starts nothing. `DriveComesBack` needs that not to last, since the code
does nothing about it; `DriveFollowsTheSettings`, without that premise, is stated
and false (section 5). The remote and the cache settings of a running rclone,
which it keeps as well, are left out.

### ControlStatus

A poll is `Call` (the moment the slave answers, or the call fails), `Store`
(`_set_state` under the lock) and `Notify` (after it). The result queue is the
question whether a redraw is due, since every queued redraw reads the cache
afresh. The card's Sync button obeys `slave_card.py`'s disabled rule on what
the card shows, Sync All does not. Keys are abstracted to who shares Control's.
`ChangeKey` happens when the poller has finished the slave it was asking: the
code joins it for at most 5 s, a call takes at most 2 s.

### Executor

Several requests are served at once, each by a thread. `environ` has three
variables: `path` stands for the whitelist of `_build_env`, `private` for the
rest of the agent's environment, `param` for what comes with a request. CPython
makes one access to a variable atomic and nothing more, so `clear()` (choose a
variable, delete it, until KeyError), `update()`, `items()` and `copy()` are
loops whose steps interleave; stdout and stderr count as one stream. An
elevated run is the env file, the prompt and the `--run-script` child, which
outlives a request that timed out. `Approve` and what PowerShell answers are
the outside world's. `fault` is what execute() does not catch: an ending like
`sys.exit("text")`, an override or argument with a NUL that `os.environ`
(`Refuse`, whose finally clause goes through `undo`) or `Popen` refuses, output
of a native child that does not decode (`ChildWrites`), a temporary file or a
PowerShell that is not to be had. A child whose output does not decode may end
either way: `communicate()` itself decodes on POSIX and raises, while on Windows
a thread of its own ends without the text. Elevated runs exist on Windows only.
A request whose body is malformed raises before `Accept` and is left out.
 `depth`, `deep` and `mixed` are history: runs are numbered
as they start, and `mixed` is set when one goes on with the environment or the
streams while a later one is under way. `torn` marks who copied the environment
while it was being changed, or was wrong because of such a copy.

Left out: the lookup (in `SlaveScripts`), clipping of output, logging, a script
that changes `os.environ` itself, and `execute_streaming`, which has no caller.

### StoreTables, StorePromise, ControlStore

`StorePromise` has one table the operator sees (`live`) and one a restart would
bring back (`kept`); each operation changes the first and is kept as a whole,
and stopping Control takes back either nothing or the operation under way.
Scripts are compared with their targets cut down to the slaves that exist
(`Strip`), which is what makes the crash between the two files harmless.
`ControlStore` has the dictionaries in memory, the two files, and a `pc` for
the save that replaces one file after the other. `Stop` may come between them, a
write may fail, a file may be unreadable at a start; after such a fault of the
disk the promise is suspended (`lag`) until a save succeeds. Seeding, the two
dialogs, deletion, and announcements with their confirmation use the same
operations, and the guard of each is the dialog's or the listener's own check.

What the model relies on: Tk runs callbacks one at a time, but a confirmation
dialog has a main loop of its own, so other callbacks run while it is on the
screen; a fresh id is referenced nowhere; `[]` and `None` targets are different
things in the file and the same thing to the dialog, as in the code. The fields
a slave has besides name, address and `auto` are left out.

### Dashboard and SceneryToggle

`Dashboard` is `DashboardVM.build` as a fold over the scripts. `SceneryToggle`
walks the scripts test by test and rename by rename (`.bat` and `.sh` do the
same here but for the preflight), takes the two probes of `snapshot()` one
after the other, stores the reply when it comes and redraws when the poller
asks for it. `Click` starts whichever half the list shows, however old it is.

`NeverStuck` and `SceneryKept` are about one run at a time (`Slot` has one
element). With two they are false: a double click runs the toggle in two
threads of the agent, each testing and renaming the same folders (section 5).

### DummyScenery

A tile folder is a function from files to sizes. A run plans at one moment,
then up to `Workers` threads build folders file by file; `seen` holds the
tiles that were there to see since the run began, `spoiled` the folders that
keep a marker although work on them broke off; both are history.
The scenery is rebuilt, goes, and its share comes and goes between any two of these
steps. Runs do not overlap: nothing in the code prevents two, but it is a
command an operator starts by hand.

### SceneryIndex

An integer plane stands for the Mercator one: squares of width `Side` (the
degrees that name folders) and atlases of `Width[zoom]`, two grids that do not
line up, which is what makes the enumeration hard. The cache is filled folder by
folder, with the drive looked at twice as in the code; `raced` marks folders
where the drive came back between the two looks. Left out: the floating-point
formulas, the order by distance, the turn of the lookahead towards a waypoint,
and the clamp at the edge of the world.

### Backups

An archive is its host and its second. A run writes under a temporary name,
renames, lists, then deletes one by one; a run may be killed between any two
of these. `Extends` holds the pairs of hosts of which one name is the other's,
a dash and more. Time goes forward only, a backup takes over a second, and two
runs of one host start in different seconds; a clock that is set back is not modelled.

### FleetConfig

A settings file is a partial function from fields to values, so a merge is an
override and an absent or unreadable file is the empty function, which is how
the callers of `_read_json` treat it. The overlay is written by hand and may be
`Garbled`, not UTF-8: then a load raises, which ends a starting agent and leaves a
running one with the settings it has. Fields are grouped by how the code treats
them: tuning that applies in place (`rings`), tuning that restarts the components
(`poll`), the kill switch, what the installer owns, and the fleet folder. Each
load may miss any of its three files; a save may miss the fleet copy.
`OrthoEngine` takes from this module only that the settings it reads change.
Left out: validation (which rejects before anything is written) and the coercion
of field types. The three reads of a load are one step: files other than those a
load misses do not change between them.

## 3. Runs

| Run | Shows | Bounds and why |
|---|---|---|
| `sync_pushes` | a push that overlapped no other installs exactly its set and never raises, one crash keeps a whole set, the pushed copy wins while no push renames the folder, every push ends | two pushes, which overlap or follow the wreck of each other; one EXEC, one crash; Windows rules; one set is a part of the other and also holds a file this slave skips. The proofs cover any number of pushes and POSIX |
| `sync_overlap` (violation) | two overlapping pushes leave a set nobody pushed, acknowledged | two pushes |
| `ortho_engine` | offline is quiet, warm is honest up to one overtaken touch, at most one stray, no needless full read, forgetting has a cause, the engine implements `PrimerSpec`, the bubble gets warm, stop ends the worker | two overlapping keep sets of four atlases, one of them unreadable; two moves/edits/outages; one failed read or elapsed interval |
| `mount_supervisor` | one supervisor never has two live rclones; the drive in force comes up unless an rclone of another letter holds the address for ever | two letters, two addresses, three deaths, failed launches or rebuilds. Four children at a time are enough, since a supervisor has one and each rebuild forgets one; one that has ended may start anew |
| `control_status` | no update is lost between cache and card; every card ends up showing the truth | two slaves, one push, two lost replies, changes or new keys |
| `executor` | in-process runs that nest leave the agent as it was, see only their own environment and capture no stranger's output; what a child inherits; which causes leave a request without a reply; an elevated child that finds no env file was late | two requests for scripts of any kind: two Python scripts interleave in every way, and each other kind runs beside each |
| `store` | the store implements `StorePromise`; no slave registers twice; a deleted script stays deleted | two slaves, two names and addresses, one id for a standard and an own script, one waiting announcement, one fault of the disk |
| `scenery_toggle` | folders never in a state neither half acts on, the user's scenery never parked as the baseline, the button settles on the half that fits | one slave, one run at a time, four failed renames, kills or lost replies: enough for one in every part of a toggle and of its inverse |
| `dummy_scenery` | a marked folder mirrors a state its tile had, `--prune` removes only what is gone, a run without faults finishes what earlier ones left | two tiles of two files, one texture; two workers; two kills or failed files; one rebuilt tile |
| `keep_set` | the keep set is exactly what the rings cover, once; a folder counts as water only after a race with the drive | squares of 7 against atlases of two widths, so that atlases straddle edges; a route along which a ring ends where both grids do; two losses or changes of zoom |
| `backups` | never half an archive under a real name, the newest are kept, a restore takes the newest | two hosts with unrelated names, three runs, clock of four, `Keep` of one, so that prunes and writes overlap |
| `fleet_config` | a machine keeps its installer's settings, components restart only for a cause, delivered saves arrive | one agent (agents write nothing they share), two folders, two edits, one load that misses files on each side |

The violation run checks a sentence of the code's own documentation, quoted in
`PROJECT.json`. Where such a sentence is false and a weaker one is true, a
passing run checks the weaker one (`LonePushInstalls`, `PushedCopyWinsWhenCalm`,
`WarmIsPrimedOrOvertaken`, `OwnRcloneIsTracked`, `CardsSettle`,
`WaterNeedsRace`, `InstallerOwns`).
The type invariants and the invariants of proofs are not repeated in the runs
where TLAPS proves them.
The mutants are plausible bugs of the mapped code that
break each property under the same configuration.

### Fairness

* `SlaveScripts`: the operating system runs each connection thread. Nothing
  obliges anyone to push, execute, crash or restart.
* `OrthoEngine`: engine thread and worker run while the process lives, and a
  read of the mount returns with data or an error. No fairness on simulator,
  drive, operator or clock.
* `MountSupervisor`: the engine ticks for ever and each wait is bounded by
  `MOUNT_WAIT_SECONDS`; an rclone that neither dies nor finds its address or its
  letter taken makes progress, which is what rclone does rather than what the
  code enforces. (The engine looks at the mount only while the simulator answers.)
* `SceneryToggle`: each thread of the agent and each stage of a poll goes on; a
  poll of a slave is started again and again however often the one before was lost (strong
  fairness, since a poll is off while one is under way). Nobody has to click.
* `DummyScenery`: only a run that is under way makes progress. That an operator
  starts runs again and again is the condition of `RetriedUntilDone`, not an assumption.
* `FleetConfig`: a running engine re-reads its settings every minute. Loads that
  miss a file are bounded: no edit arrives at an agent that never reads it.
* `ControlStore`, `SceneryIndex`, `Backups` (safety only): none.
* `ControlStatus`: the poller's socket calls have a timeout, the main loop
  drains every 50 ms, a push's socket times out. (A dialog that is left open
  stops the drain; the run assumes that the operator answers.)

Deadlock checking is off where the system really may stop: all connections
used up, a stopped agent, a Control without slaves or key, a store that has
used up its ids and faults, a clock or a number of backups at its bound.

## 4. Proofs

| Module | Theorems | Argument |
|---|---|---|
| `SlaveScriptsProofs` | `TypeCorrect`, `LoneInvariant`, `LonePushIsExact`, `LonePushIsSafe`, `CalmLookupRunsPushedCopy`, `OneCrashIsSurvived` | `LonePushInstalls` alone is not inductive: what `cascaded/` holds at the ack depends on what `cascaded.new/` held at each earlier stage. `LoneInv` says for each stage what a push that is alone knows of the three folders (`LoneDisk`), and that nobody else is in flight. A push that overlaps leaves `alone` for good, so steps of other pushes disturb nothing. `CalmInv` says how far a lookup has come past the candidates that exist. `SetInv` says where the last set is when pushes never overlap: live, in `cascaded.old/` with `cascaded/` bare (`Kept`), or handed over to the push that replaces it (`Handed`), the last two only after a death or right before the second rename |
| `OrthoEngineProofs` | `PrimerTypeCorrect`, `WarmNeedsAPrime`, `OneStray`, `NoSecondPrime`; `EngineTypeCorrect`, `EngineOfflineIsQuiet`, `EngineUsesThePrimer`, `EngineForgetsOnlyForCause` | a stray can only be the file under way at the last schedule; `WarmInv` relates `path`, `full` and `worker` to `primed`, `warm` and `order`. `EngineUsesThePrimer` is refinement: initial states and every step of the engine map to `PrimerSpec`, so what was shown of the primer holds inside the agent. The last goes through the steps that take an atlas from `warm`, each of which shows its cause |
| `MachineProofs` | `OneRclonePerSupervisor`; `NoEditTakesTheDrive`, `RestartsArePaidFor`; `BackupsAreWhole`, `NewestIsKept`, `RestoreTakesNewest` | the mount: inductive together with the types, over `mine`, `child` and the launch stage. The settings: `OwnInv` says that the fleet copy holds tuning fields only and that a machine's own file is the installer's, so that no merge can touch what the installer owns. `RestartsArePaidFor` counts with a potential: `Due(m)` is 1 while the settings in force differ from what the files would give in a field that restarts the components, and `rebuilds[m] + Due(m)` stays within the bound; an edit raises bound and potential together, a load that misses a file pays for there and back. Backups: `TempsHeld` says that a temporary file is held by at most one run that is under way, which is what makes the rename one of a whole file. `KeepInv` adds that whatever a run has listed for deletion is behind an archive that stays newer (`StaleBeaten`), so that the newest is never on a list, however old the list is |
| `SceneryProofs` | `MarkersAreHonest`, `PruneSparesTheSeen`; `WaterTakesARace`, `KeepSetIsRight` | `MirrorInv` adds to `MarkedMirrors` that whatever a thread has crossed off its list is in the dummy and whole (`CrossedOff`): the marker is written when the list is empty. `PruneInv`: the plan of a run without `--only` lists all that has been in sight since (`SeenPlanned`), so nothing in sight is an orphan; and only the removal of an orphan takes files. `WaterInv`: a lookup that asks for the root has found nothing in the cache, and if the folder exists it is on record that the drive was away. `KeepSetInv` says of a calm walk that `keep` is one of the rings of the position and the squares of the present box that have had their turn (`AroundRing`); that the squares, each clipped and enumerated, amount to the ring by its points is arithmetic, first along one axis (`Axis`), then on the plane (`SquareIsPoints`, `RingIsSquares`) |
| `ControlStatusProofs` | `StatusTypeCorrect`, `CardsAreCurrent` | whoever changes the cache leaves a refresh due or is about to ask for one |
| `ExecutorProofs` | `ExecutorTypeCorrect`, `NestedRunsRestore`, `NewestRunOwnsEnviron`, `BuffersHoldOlderLines`, `EnvironmentsAreWhitelists`, `SilenceHasOnlyTheseCauses`, `PromptedKidsFindTheirFile` | `NestInv`: unless `mixed`, runs under way are a stack; each saved what the one below left (`Left`), the first saved the agent's own state, and the newest has left what there is. Steps of the newest run (`TopStep`), a start (`StartStep`) and an end (`LeaveStep`) each keep that. `StreamInv` puts the streams on that stack. `CopyInv` needs no stack: whoever copies `os.environ` while a run is not `Settled` is counted as torn, and nobody else misses a variable it has listed. `WhiteInv` combines the two: the path is there when every run below is settled. `CopyInv` also says that a request without a reply is torn or met a fault, and `FaultInv` that stage and fault are those of its kind of script (`Fitting`), which together name the causes. `KidInv`: the env file lasts as long as the prompt |
| `ControlStoreProofs` | `StoreTypeCorrect`, `DeletedStaysDeleted`, `SlavesRegisterOnce`, `StoreKeepsPromise` | `GoneInv`: a deletion on its way to the disk is complete in memory, one that arrived is complete in memory and on disk. `OnceInv`: while the operator is asked about an announcement, no registered slave has its name or address. `StoreKeepsPromise` is refinement with the mapping `live` = memory, `kept` = the files cut down to their slaves (`Strip`): `SaveInv` says at which stage of a save memory and files differ in what, `FileInv` that a slave which a script on disk is for, and which exists, is on disk too |
| `SceneryToggleProofs` | `ToggleTypeCorrect`, `ToggleKeepsScenery`, `ToggleNeverStuck` | assume one run at a time on a slave (`OneSlot`). `ToggleInv`: at each stage of a script the user's scenery is in place or set aside (`Sound`), and what a script found when it tested is still so (`Found`) |

All hold for every value of the constants that satisfies the module's
`ASSUME`s (distinct model values, finite sets of slaves, keep sets without
repetition; natural bounds). The bounds on events are constants too, so the
theorems hold for any number of them. Assumptions with more to say:
`EdgesMeet` has a ring's bound that lies on the edge between two squares lie on
the edge of atlases of every zoom. The code asks the next square too when a
bound lies exactly on its edge, and draws the corners of what it clips there in
by a hair, so that a clip of no width would name an atlas across that edge if
the edge ran through one. On the earth it never does: edges of tiles meet whole
degrees at the equator and at multiples of 45 degrees of longitude only, and
there atlases of every zoom from 7 on end; one route of `keep_set` goes there.
`FleetConstants` has the installer write `own` and `dir` in every file
(`SetupOrthoAgent` always does), and a machine's folder is one of the fleet's
or none; `DummyConstants` keeps the mark of a file cut short
apart from the sizes a source has. `NewestIsKept` and `RestoreTakesNewest`
assume `Extends = {}`, no host name that another one and a dash begin; without
it they are false (section 5). The toggle's theorems assume `OneSlot`.

Every invariant and safety property that the passing runs check is proved. Only
model-checked:

* the liveness properties (`PushEnds`, `BubbleGetsWarm`, `StopEnds`,
  `DriveComesBack`, `CardsSettle`, `ButtonSettles`, `RetriedUntilDone`,
  `EditsArrive`): fairness and ENABLED are out of the prover's reach;
* the violation.

## 5. What the work found

`PROJECT.json` quotes the sentence each finding contradicts and the line where
the code differs.

* Slave scripts: overlapping pushes corrupt `cascaded/` and acknowledge it
  (`sync_overlap`); in the window between the two renames a stale local script
  can run. Two crashes at the wrong moments can lose the last set, hence "one
  crash" in `OneCrashKeepsASet`.
* Ortho agent: a dropped atlas can be warm again; a rebuild can start a second
  rclone; a reload that moves the drive to another letter and keeps `rc_addr` is
  waited for as long as the old rclone lives; a rebuild in the first tick after a silence makes that tick raise; an
  unreadable atlas is retried at every tick and can keep what is behind it
  waiting, so `BubbleGetsWarm` speaks of what no unreadable atlas precedes.
* Scenery index: a drive that comes back between two looks marks a real folder
  as water for the life of the process (`NoRealFolderIsWater` is stated in
  `SceneryIndex` and false; `WaterNeedsRace` says when).
* Control: a poll overwrites SYNCING during a push; a slave with another key
  shows OFFLINE, not ERROR (`MismatchIsError` in `ControlStatus`); the 60 s
  deadline is shorter than the 300 s script timeout.
* Store: a file that could not be read at a start is saved over; a failed save
  leaves memory ahead of the disk and the dialog open, so that a second press
  adds a second entry; a script whose only target was deleted widens to all
  slaves when edited; `XPLANE_EXE` and `SIM_EXE_NAME` are each dropped by the
  other of two editors of the same dictionary.
* Executor: two overlapping Python scripts can leave the agent with the
  environment and the streams of one of them; `sys.exit("text")`, a NUL in an
  override or an argument and, on POSIX, a native script's output that does not
  decode each end an EXEC without a reply; `timeout_sec` does not bound an in-process run.
* Scripts list and registry: overlapping toggles can leave the folders in a
  state neither half acts on; one probe is given a parameter under the wrong
  name and can only fail; the `.sh` halves are never pushed; a comment has
  "present" and "absent" the wrong way round; a one-sided `pair_with` can fold a row away.
* Dummy scenery: a folder that `--verify` rebuilds keeps its old marker, so a
  crash leaves it marked (`CrashedHasNoMarker`); a folder that vanished before
  it was listed is marked as one of no files.
* Backups: the archives of a host whose name extends another's are counted and
  deleted with it (`RestoresNewest` fails as soon as `Extends` has a pair); two
  backups of one host in one second share their temporary file.
* Fleet settings: the "cached local copy" is never refreshed, so an unreachable
  share takes an agent back to its installer's values, with a rebuild when
  `poll_hz` differs; a local file that cannot be read for one poll restarts the
  agent on the built-in defaults; an overlay that is not UTF-8 ends a starting
  agent and makes a running one deaf; a new fleet folder does not reach the agents;
  the log says the fleet copy was saved when it was not.

## 6. Plan

1. *(done)* `SlaveScripts`, `Primer`, `OrthoEngine`, `MountSupervisor`,
   `ControlStatus`, `Executor`, with their first theorems.
2. *(done)* `ControlStore` and its refinement of `StorePromise`; `Dashboard` and
   `SceneryToggle` with proofs; `DummyScenery`, `SceneryIndex`, `Backups`,
   `FleetConfig`.
3. *(done)* Proofs of the safety properties that were only checked: the
   remaining ones of `SlaveScripts`, `OrthoEngine` and `Executor`, and those of
   `Backups`, `FleetConfig`, `DummyScenery` and `SceneryIndex`.
4. An abstract script store of which pushes that never overlap are a
   refinement; the executor's handlers under fairness.

### Not modelled

* Wire protocol and signatures, slave link, UDP handlers: stateless. What they
  do to the parts that have state (a message is dropped, a call has one outcome)
  is in the modules that use them.
* Hosts entries and scenery profiles: one process rewrites one text file through
  a temporary one; what could be wrong is how lines are parsed, which tests reach.
* Floating-point geometry (Mercator, distances, waypoint aiming): out of TLC's
  reach; the integer plane of `SceneryIndex` keeps the enumeration.
* Dialogs' layout, themes, installers, mock slaves, live checks, and scripts
  that make single calls to the operating system.
