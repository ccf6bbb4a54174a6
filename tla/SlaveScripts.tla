---------------------------- MODULE SlaveScripts ----------------------------
(***************************************************************************)
(* The slave agent's pushed-script folder: simpit_slave/data.py and the    *)
(* TCP side of simpit_slave/agent.py.                                      *)
(*                                                                         *)
(* Every TCP connection has a thread of its own, carries one request and   *)
(* shares nothing with the others but the disk.  A SYNC_PUSH connection    *)
(* runs apply_sync_push: it fills cascaded.new, renames cascaded to        *)
(* cascaded.old, renames cascaded.new to cascaded, and deletes             *)
(* cascaded.old.  An EXEC_SCRIPT connection looks a script up, one         *)
(* candidate path at a time, and starts what it finds.  No lock orders     *)
(* these steps, and the process may die between any two of them.           *)
(*                                                                         *)
(* One action is one system call that another thread can observe.  A file  *)
(* is a script name and an extension; its content is the connection that   *)
(* wrote it.  rmtree lists a folder and then unlinks path by path.         *)
(***************************************************************************)
EXTENDS Naturals, FiniteSets

CONSTANTS
    Conn,       \* SYNC_PUSH connections; each carries one request
    Exec,       \* EXEC_SCRIPT connections
    Name,       \* script base names
    Offers,     \* the script sets Control may push, each a set of files
    Foreign,    \* files apply_sync_push skips: other OS, or a bad name
    LocalFiles, \* what the operator keeps in local/
    Windows,    \* TRUE: Windows rename rules, FALSE: POSIX ones
    MaxCrashes, \* bound on agent deaths
    NoFile      \* not a connection: no such file, no such push

Ext  == {"native", "py"}
File == [name : Name, ext : Ext]
Dir  == {"cascaded", "new", "old"}

ASSUME ConstantsOK ==
    /\ NoFile \notin Conn
    /\ Offers \subseteq SUBSET File
    /\ Foreign \subseteq File
    /\ LocalFiles \subseteq File
    /\ Windows \in BOOLEAN
    /\ MaxCrashes \in Nat

VARIABLES
    up,       \* is the agent process alive?
    crashes,  \* how often it died
    there,    \* the folders that exist
    held,     \* held[d][f]: the push that wrote file f of folder d
    pc,       \* where each push is in apply_sync_push
    want,     \* the script set each push carries
    todo,     \* the files left to write, or left to unlink
    alone,    \* history: pushes that overlapped no other push so far
    last,     \* history: the push whose folder went live last
    epc,      \* where each EXEC_SCRIPT is
    ename,    \* the script it asks for
    at,       \* the candidate path it is at, 1..4
    ran,      \* whose content it ran; NoFile for local/ or nothing
    entitled, \* history: every set live since it began holds its script
    calm      \* history: cascaded/ was not renamed since it began

disk     == <<there, held>>
pushVars == <<pc, want, todo, alone, last>>
execVars == <<epc, ename, at, ran, entitled, calm>>
vars     == <<up, crashes, disk, pushVars, execVars>>

-----------------------------------------------------------------------------
(* Folders.                                                                *)

Nothing   == [f \in File |-> NoFile]
FilesIn(d) == {f \in File : held[d][f] # NoFile}

\* The folder that push c is meant to leave behind.
Folder(c) == [f \in File |-> IF f \in want[c] \ Foreign THEN c ELSE NoFile]

\* May a folder be renamed to d?  An empty POSIX folder is replaced.
Free(d) == \/ d \notin there
           \/ ~Windows /\ FilesIn(d) = {}

Rename(src, dst) ==
    /\ there' = (there \ {src}) \cup {dst}
    /\ held'  = [held EXCEPT ![dst] = held[src], ![src] = Nothing]

-----------------------------------------------------------------------------
(* SYNC_PUSH: apply_sync_push, in the order of its statements.             *)

Working  == {"check_new", "clear_new", "make_new", "write", "check_old",
             "clear_old", "retire", "promote", "check_drop", "drop_old", "ack"}
Finished == {"acked", "raised", "denied", "killed"}
InFlight == {c \in Conn : pc[c] \in Working}

Goto(c, stage) == pc' = [pc EXCEPT ![c] = stage]

\* An exception: the handler thread logs it and closes the connection
\* without a reply.  Whatever the push did to the disk stays done.
Raise(c) == Goto(c, "raised") /\ UNCHANGED <<disk, todo>>

\* A push arrives and ensure() creates whatever folder is missing.
Accept(c) ==
    /\ up /\ pc[c] = "idle"
    /\ \E S \in Offers : want' = [want EXCEPT ![c] = S]
    /\ there' = there \cup {"cascaded"}
    /\ Goto(c, "check_new")
    /\ alone' = IF InFlight = {} THEN alone \cup {c} ELSE alone \ InFlight
    /\ UNCHANGED <<up, crashes, held, todo, last, execVars>>

\* "if d.exists(): shutil.rmtree(d)", up to the listing of the folder.
ListIfThere(c, stage, d, clearing, otherwise) ==
    /\ pc[c] = stage
    /\ IF d \in there
       THEN Goto(c, clearing) /\ todo' = [todo EXCEPT ![c] = FilesIn(d)]
       ELSE Goto(c, otherwise) /\ UNCHANGED todo
    /\ UNCHANGED <<up, crashes, disk, want, alone, last, execVars>>

\* The rest of rmtree: unlink every listed file, then remove the folder.
Unlink(c, stage, d) ==
    /\ pc[c] = stage
    /\ \E f \in todo[c] :
         IF held[d][f] # NoFile
         THEN /\ held' = [held EXCEPT ![d][f] = NoFile]
              /\ todo' = [todo EXCEPT ![c] = @ \ {f}]
              /\ UNCHANGED <<pc, there>>
         ELSE Raise(c)
    /\ UNCHANGED <<up, crashes, want, alone, last, execVars>>

RemoveDir(c, stage, d, next) ==
    /\ pc[c] = stage /\ todo[c] = {}
    /\ IF d \in there /\ FilesIn(d) = {}
       THEN there' = there \ {d} /\ Goto(c, next) /\ UNCHANGED <<held, todo>>
       ELSE Raise(c)
    /\ UNCHANGED <<up, crashes, want, alone, last, execVars>>

\* Mutant: mkdir(exist_ok=True) in the place of the rmtree.
CheckNewKeeping(c) ==
    /\ pc[c] = "check_new"
    /\ there' = there \cup {"new"}
    /\ todo'  = [todo EXCEPT ![c] = want[c]]
    /\ Goto(c, "write")
    /\ UNCHANGED <<up, crashes, held, want, alone, last, execVars>>

CheckNew(c) == ListIfThere(c, "check_new", "new", "clear_new", "make_new")
ClearNew(c) == \/ Unlink(c, "clear_new", "new")
               \/ RemoveDir(c, "clear_new", "new", "make_new")

MakeNew(c) ==
    /\ pc[c] = "make_new"
    /\ IF "new" \notin there
       THEN /\ there' = there \cup {"new"}
            /\ todo'  = [todo EXCEPT ![c] = want[c]]
            /\ Goto(c, "write") /\ UNCHANGED held
       ELSE Raise(c)
    /\ UNCHANGED <<up, crashes, want, alone, last, execVars>>

WriteScript(c) ==
    /\ pc[c] = "write"
    /\ \E f \in todo[c] :
         IF f \in Foreign \/ "new" \in there
         THEN /\ held' = IF f \in Foreign THEN held
                         ELSE [held EXCEPT !["new"][f] = c]
              /\ todo' = [todo EXCEPT ![c] = @ \ {f}]
              /\ UNCHANGED <<pc, there>>
         ELSE Raise(c)
    /\ UNCHANGED <<up, crashes, want, alone, last, execVars>>

CheckLive(c) ==
    /\ pc[c] = "write" /\ todo[c] = {}
    /\ Goto(c, IF "cascaded" \in there THEN "check_old" ELSE "promote")
    /\ UNCHANGED <<up, crashes, disk, want, todo, alone, last, execVars>>

\* Mutant: a cascaded.old that a crash left behind is not deleted first.
CheckOldSkipping(c) ==
    /\ pc[c] = "check_old" /\ Goto(c, "retire")
    /\ UNCHANGED <<up, crashes, disk, want, todo, alone, last, execVars>>

CheckOld(c) == ListIfThere(c, "check_old", "old", "clear_old", "retire")
ClearOld(c) == \/ Unlink(c, "clear_old", "old")
               \/ RemoveDir(c, "clear_old", "old", "retire")

\* A program that runs with cascaded/ as its working folder: execute starts
\* a native script there.  Windows refuses to rename such a folder.
Busy == \E e \in Exec : epc[e] = "running" /\ at[e] = 1

\* Mutant: delete cascaded/ in the place of keeping it as cascaded.old.
RetireByDeleting(c) ==
    /\ pc[c] = "retire" /\ "cascaded" \in there
    /\ there' = there \ {"cascaded"}
    /\ held'  = [held EXCEPT !["cascaded"] = Nothing]
    /\ Goto(c, "promote") /\ calm' = {}
    /\ UNCHANGED <<up, crashes, want, todo, alone, last,
                   epc, ename, at, ran, entitled>>

\* Mutant: retry the rename until no script runs in the folder.
RetireWaiting(c) ==
    /\ pc[c] = "retire" /\ ~Busy
    /\ IF "cascaded" \notin there \/ ~Free("old")
       THEN Raise(c) /\ UNCHANGED calm
       ELSE /\ Rename("cascaded", "old")
            /\ Goto(c, "promote")
            /\ calm' = {} /\ UNCHANGED todo
    /\ UNCHANGED <<up, crashes, want, alone, last,
                   epc, ename, at, ran, entitled>>

\* paths.cascaded.rename(backup)
Retire(c) ==
    /\ pc[c] = "retire"
    /\ IF "cascaded" \notin there \/ ~Free("old")
       THEN Raise(c) /\ UNCHANGED calm
       ELSE IF Windows /\ Busy
       THEN Goto(c, "denied") /\ UNCHANGED <<disk, todo, calm>>
       ELSE /\ Rename("cascaded", "old")
            /\ Goto(c, "promote")
            /\ calm' = {} /\ UNCHANGED todo
    /\ UNCHANGED <<up, crashes, want, alone, last,
                   epc, ename, at, ran, entitled>>

\* Does a folder content offer script n, under either extension?
Offered(content, n) == \E f \in File : f.name = n /\ content[f] # NoFile

\* new_dir.rename(paths.cascaded)
Promote(c) ==
    /\ pc[c] = "promote"
    /\ IF "new" \in there /\ Free("cascaded")
       THEN /\ Rename("new", "cascaded")
            /\ Goto(c, "check_drop")
            /\ last' = c
            /\ calm' = {}
            /\ entitled' = {e \in entitled : Offered(held["new"], ename[e])}
            /\ UNCHANGED todo
       ELSE Raise(c) /\ UNCHANGED <<last, calm, entitled>>
    /\ UNCHANGED <<up, crashes, want, alone, epc, ename, at, ran>>

CheckDrop(c) == ListIfThere(c, "check_drop", "old", "drop_old", "ack")
DropOld(c)   == \/ Unlink(c, "drop_old", "old")
                \/ RemoveDir(c, "drop_old", "old", "ack")

\* The SYNC_ACK leaves and the connection closes.
Ack(c) ==
    /\ pc[c] = "ack" /\ Goto(c, "acked")
    /\ UNCHANGED <<up, crashes, disk, want, todo, alone, last, execVars>>

PushStep(c) ==
    \/ CheckNew(c) \/ ClearNew(c) \/ MakeNew(c) \/ WriteScript(c)
    \/ CheckLive(c) \/ CheckOld(c) \/ ClearOld(c) \/ Retire(c)
    \/ Promote(c) \/ CheckDrop(c) \/ DropOld(c) \/ Ack(c)

-----------------------------------------------------------------------------
(* EXEC_SCRIPT: find_script, then execute on the path it returned.         *)

\* Mutant: local/ before cascaded/.
InLocalFirst(k) == k < 3

InLocal(k) == k > 2
ExtAt(k)   == IF k \in {1, 3} THEN "native" ELSE "py"
Target(e)  == [name |-> ename[e], ext |-> ExtAt(at[e])]

\* candidate.is_file(), and what opening that path finds.
Exists(e) == IF InLocal(at[e]) THEN Target(e) \in LocalFiles
                               ELSE held["cascaded"][Target(e)] # NoFile

GotoE(e, stage) == epc' = [epc EXCEPT ![e] = stage]

ExecBegin(e) ==
    /\ up /\ epc[e] = "idle"
    /\ GotoE(e, "look")
    /\ entitled' = IF Offered(held["cascaded"], ename[e])
                   THEN entitled \cup {e} ELSE entitled
    /\ calm' = calm \cup {e}
    /\ UNCHANGED <<up, crashes, disk, pushVars, ename, at, ran>>

\* One is_file call of find_script's double loop: cascaded/ before local/,
\* the native extension before .py.
Look(e) ==
    /\ epc[e] = "look"
    /\ IF Exists(e)
       THEN GotoE(e, "start") /\ UNCHANGED at
       ELSE IF at[e] < 4
       THEN at' = [at EXCEPT ![e] = @ + 1] /\ UNCHANGED epc
       ELSE GotoE(e, "notfound") /\ UNCHANGED at
    /\ UNCHANGED <<up, crashes, disk, pushVars, ename, ran, entitled, calm>>

\* Popen, or runpy for a .py file.  A path that is gone by now is an error
\* the reply reports (spawn failed, or exit code 1).
Start(e) ==
    /\ epc[e] = "start"
    /\ IF Exists(e)
       THEN /\ GotoE(e, "running")
            /\ ran' = [ran EXCEPT ![e] = IF InLocal(at[e]) THEN NoFile
                                         ELSE held["cascaded"][Target(e)]]
       ELSE GotoE(e, "failed") /\ UNCHANGED ran
    /\ UNCHANGED <<up, crashes, disk, pushVars, ename, at, entitled, calm>>

\* The script ends.  A child process may outlive the agent.
ScriptExit(e) ==
    /\ epc[e] = "running" /\ GotoE(e, "ran")
    /\ UNCHANGED <<up, crashes, disk, pushVars, ename, at, ran, entitled, calm>>

ExecStep(e) == Look(e) \/ Start(e) \/ ScriptExit(e)

-----------------------------------------------------------------------------
(* The process.                                                            *)

\* The agent dies: its threads stop where they are; a native child lives on.
Crash ==
    /\ up /\ crashes < MaxCrashes
    /\ up' = FALSE /\ crashes' = crashes + 1
    /\ pc'  = [c \in Conn |-> IF c \in InFlight THEN "killed" ELSE pc[c]]
    /\ epc' = [e \in Exec |-> IF \/ epc[e] \in {"look", "start"}
                                 \/ epc[e] = "running" /\ ExtAt(at[e]) = "py"
                              THEN "killed" ELSE epc[e]]
    /\ UNCHANGED <<disk, want, todo, alone, last, ename, at, ran, entitled, calm>>

\* Agent.start runs ensure().
Restart ==
    /\ ~up /\ up' = TRUE
    /\ there' = there \cup {"cascaded"}
    /\ UNCHANGED <<crashes, held, pushVars, execVars>>

Init ==
    /\ up = TRUE /\ crashes = 0
    /\ there = {"cascaded"}
    /\ held = [d \in Dir |-> Nothing]
    /\ pc = [c \in Conn |-> "idle"]
    /\ want = [c \in Conn |-> {}]
    /\ todo = [c \in Conn |-> {}]
    /\ alone = {} /\ last = NoFile
    /\ epc = [e \in Exec |-> "idle"]
    /\ ename \in [Exec -> Name]
    /\ at = [e \in Exec |-> 1]
    /\ ran = [e \in Exec |-> NoFile]
    /\ entitled = {} /\ calm = {}

Next ==
    \/ \E c \in Conn : Accept(c) \/ PushStep(c)
    \/ \E e \in Exec : ExecBegin(e) \/ ExecStep(e)
    \/ Crash \/ Restart

\* The operating system runs every connection thread.  Nobody owes the slave
\* another push, another EXEC, a crash or a restart, and a script may run for
\* ever, so those are not fair.
Fairness == \A c \in Conn : WF_vars(PushStep(c))

Spec == Init /\ [][Next]_vars
LiveSpec == Spec /\ Fairness

-----------------------------------------------------------------------------
(* Properties.                                                             *)

\* Every variable has its type, and a folder that does not exist holds
\* nothing.
TypeOK ==
    /\ up \in BOOLEAN /\ crashes \in 0..MaxCrashes
    /\ there \subseteq Dir
    /\ held \in [Dir -> [File -> Conn \cup {NoFile}]]
    /\ \A d \in Dir \ there : held[d] = Nothing
    /\ pc \in [Conn -> {"idle"} \cup Working \cup Finished]
    /\ want \in [Conn -> SUBSET File]
    /\ todo \in [Conn -> SUBSET File]
    /\ alone \subseteq Conn /\ last \in Conn \cup {NoFile}
    /\ epc \in [Exec -> {"idle", "look", "start", "running", "ran",
                         "notfound", "failed", "killed"}]
    /\ ename \in [Exec -> Name] /\ at \in [Exec -> 1..4]
    /\ ran \in [Exec -> Conn \cup {NoFile}]
    /\ entitled \subseteq Exec /\ calm \subseteq Exec

\* apply_sync_push's "replace cascaded/ with the given scripts": when a push
\* that overlapped no other push sends its SYNC_ACK, cascaded/ holds exactly
\* its scripts, whatever earlier pushes, failures and crashes left on the
\* disk.
LonePushInstalls ==
    \A c \in alone : pc[c] = "ack" =>
        "cascaded" \in there /\ held["cascaded"] = Folder(c)

\* No leftover of an earlier push, failure or crash can make a push that
\* overlaps no other one raise: each rmtree, mkdir and rename succeeds
\* (other than the rename that Windows denies under a running script).
LonePushNeverRaises == \A c \in alone : pc[c] # "raised"

\* Why the two hold: what a push that overlapped no other one knows of the
\* disk at each of its stages.  While it works nobody else touches the three
\* folders, so each stage leaves them as the next one needs them.
LoneDisk(c) ==
    LET At(S) == pc[c] \in S IN
    /\ At({"clear_new"}) => "new" \in there /\ todo[c] = FilesIn("new")
    /\ At({"make_new"}) => "new" \notin there
    /\ At({"write"}) =>
         /\ "new" \in there /\ todo[c] \subseteq want[c]
         /\ held["new"] = [f \in File |-> IF f \in want[c] \ (todo[c] \cup Foreign)
                                          THEN c ELSE NoFile]
    /\ At({"check_old", "clear_old", "retire", "promote"}) =>
         "new" \in there /\ held["new"] = Folder(c)
    /\ At({"check_old", "clear_old", "retire"}) => "cascaded" \in there
    /\ At({"clear_old", "drop_old"}) =>
         "old" \in there /\ todo[c] = FilesIn("old")
    /\ At({"retire"}) => "old" \notin there
    /\ At({"promote"}) => "cascaded" \notin there
    /\ At({"check_drop", "drop_old", "ack"}) =>
         "cascaded" \in there /\ held["cascaded"] = Folder(c)

LoneAt(c) ==
    /\ pc[c] \notin {"idle", "raised"}
    /\ pc[c] \in Working => InFlight = {c}
    /\ LoneDisk(c)

LoneInv ==
    /\ TypeOK
    /\ ~up => InFlight = {}
    /\ \A c \in alone : LoneAt(c)

\* While pushes never overlap, one crash never costs the slave its scripts:
\* the folder that went live last is whole in cascaded/ or cascaded.old/,
\* or its successor is whole in cascaded.new/ and about to be renamed.
OneCrashKeepsASet ==
    crashes <= 1 /\ last # NoFile /\ {c \in Conn : pc[c] # "idle"} \subseteq alone
    => \/ \E d \in {"cascaded", "old"} : d \in there /\ held[d] = Folder(last)
       \/ \E c \in Conn : /\ pc[c] \in {"clear_old", "retire", "promote"}
                          /\ "new" \in there /\ held["new"] = Folder(c)

\* find_script's "cascaded first, then local": an EXEC_SCRIPT for a script
\* that every live folder held since the EXEC began runs the pushed copy,
\* if no push renamed cascaded/ meanwhile.
PushedCopyWinsWhenCalm ==
    \A e \in entitled \cap calm :
        epc[e] \in {"running", "ran"} => ran[e] # NoFile

\* "we never see a half-applied state where some old scripts are gone but
\* new ones aren't yet written": cascaded/ never mixes the scripts of two
\* pushes, nor lacks some of one.
LiveFolderIsOnePush ==
    "cascaded" \in there =>
        held["cascaded"] \in {Nothing} \cup {Folder(c) : c \in Conn}

\* Every push ends: it is acknowledged, refused by an exception or killed
\* with the agent, but never left hanging.
PushEnds == \A c \in Conn : pc[c] \in Working ~> pc[c] \in Finished

=============================================================================
