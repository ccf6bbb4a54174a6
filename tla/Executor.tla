------------------------------ MODULE Executor ------------------------------
(***************************************************************************)
(* Running scripts on the slave: simpit_slave/executor.py, called from     *)
(* _handle_exec_script of simpit_slave/agent.py, one thread per request.   *)
(*                                                                         *)
(* A Python script runs inside the agent process.  The thread copies       *)
(* os.environ and sys.stdout, empties os.environ, fills it for the script, *)
(* redirects the streams, runs the script and puts everything back.  Other *)
(* threads do the same, or read os.environ for a child process.  Only one  *)
(* access to a variable of the environment is atomic: clear(), update()    *)
(* and copying are loops, and one that misses a variable another thread    *)
(* has removed raises KeyError (clear() takes that for the end).           *)
(*                                                                         *)
(* The environment has three variables: "path" stands for the whitelist,   *)
(* "private" for the rest of the agent's own, "param" for the overrides    *)
(* that come with a request.  stdout and stderr are one stream.            *)
(***************************************************************************)
EXTENDS Integers, FiniteSets

CONSTANTS
    Req,     \* EXEC_SCRIPT requests; also the value of "param" each brings
    Allowed, \* Allowed[r]: what the script of request r may be
    Host,    \* the agent's own values and its own output stream
    Unset    \* a variable that is not in os.environ; no variable

Kind == {"python", "native", "elevated"}

\* What nothing in execute() catches: how a script may end, an override or an
\* argument no process takes (a NUL in it), output that is not in the agent's
\* encoding, a temporary file or a PowerShell that is not to be had.
Fault == {"exit", "refused", "output", "files"}

ASSUME AllowedOK == Allowed \in [Req -> SUBSET Kind]

Key     == {"path", "private", "param"}

ASSUME ReqOK == Host \notin Req /\ Unset \notin Req \cup Key \cup {Host}

Keep    == {"path"}
Val     == Req \cup {Host, Unset}
Env     == [Key -> Val]
HostEnv == [k \in Key |-> IF k = "param" THEN Unset ELSE Host]
Empty   == [k \in Key |-> Unset]
Keys(e) == {k \in Key : e[k] # Unset}

VARIABLES
    environ,  \* os.environ
    stdout,   \* sys.stdout: the agent's stream or the buffer of a request
    pc,       \* where each request is
    kind,     \* what its script is
    env,      \* the environment built for the script
    saved,    \* old_env
    savedOut, \* old_stdout
    todo,     \* the variables left in the loop it is in
    pick,     \* the variable popitem() is about to delete
    out,      \* out[r]: whose lines are in the buffer of request r
    fault,    \* the fault each request met, or "none"
    kid,      \* the elevated child of each request
    envFile,  \* requests whose env file is on the disk
    depth,    \* history: the runs under way are numbered as they start
    deep,     \* history: how many are under way
    mixed,    \* history: a run went on before a later one was done
    torn      \* history: requests that copied os.environ while it was shaky

global  == <<environ, stdout>>
own     == <<kind, env, saved, savedOut, todo, pick, fault>>
child   == <<kid, envFile>>
nesting == <<depth, deep, mixed>>
vars    == <<global, pc, own, out, child, nesting, torn>>

Goto(r, stage) == pc' = [pc EXCEPT ![r] = stage]

\* A run that takes a step although a later one is still under way.
Step(r) == mixed' = (mixed \/ depth[r] # deep)

Changing == {"clear", "update", "undo", "reclear", "reupdate"}
Copying  == {"build", "save"}
Copiers  == {q \in Req : pc[q] \in Copying}
Active   == {r \in Req : pc[r] \in {"save", "clear", "update", "undo", "run",
                                  "restore", "reclear", "reupdate"}}

\* Is os.environ being changed, or filled for a script by such a copy?
Shaky == \E q \in Active : pc[q] \in Changing \/ q \in torn

-----------------------------------------------------------------------------
(* _build_env: the whitelisted part of os.environ and the overrides.       *)
(* A request whose script is not found is answered before it gets here.    *)

Accept(r) ==
    /\ pc[r] = "idle"
    /\ \E k \in Allowed[r] : kind' = [kind EXCEPT ![r] = k]
    /\ todo' = [todo EXCEPT ![r] = Keys(environ)]
    /\ torn' = IF Shaky THEN torn \cup {r} ELSE torn
    /\ Goto(r, "build")
    /\ UNCHANGED <<global, env, saved, savedOut, pick, fault, out, child, nesting>>

\* Mutant: the script inherits the agent's environment.
BuildInheriting(r) ==
    /\ pc[r] = "build"
    /\ \E k \in todo[r] :
         IF environ[k] # Unset
         THEN /\ env'  = [env EXCEPT ![r][k] = environ[k]]
              /\ todo' = [todo EXCEPT ![r] = @ \ {k}]
              /\ UNCHANGED pc
         ELSE Goto(r, "raised") /\ UNCHANGED <<env, todo>>
    /\ UNCHANGED <<global, kind, saved, savedOut, pick, fault, out, child, nesting, torn>>

\* One variable of the listing is read; KeyError if it is gone.
Build(r) ==
    /\ pc[r] = "build"
    /\ \E k \in todo[r] :
         IF environ[k] # Unset
         THEN /\ env'  = [env EXCEPT ![r][k] = IF k \in Keep THEN environ[k] ELSE Unset]
              /\ todo' = [todo EXCEPT ![r] = @ \ {k}]
              /\ UNCHANGED pc
         ELSE Goto(r, "raised") /\ UNCHANGED <<env, todo>>
    /\ UNCHANGED <<global, kind, saved, savedOut, pick, fault, out, child, nesting, torn>>

\* The overrides come last; execute() then chooses how to run the script.
Built(r) ==
    /\ pc[r] = "build" /\ todo[r] = {}
    /\ env' = [env EXCEPT ![r]["param"] = r]
    /\ Goto(r, CASE kind[r] = "python"   -> "start"
                 [] kind[r] = "native"   -> "spawn"
                 [] kind[r] = "elevated" -> "prepare")
    /\ UNCHANGED <<global, kind, saved, savedOut, todo, pick, fault, out,
                   child, nesting, torn>>

-----------------------------------------------------------------------------
(* _execute_python_inprocess.                                              *)

\* os.environ.copy() lists the variables, then reads them one by one.  Until
\* they are read, saved and savedOut hold what there was at the listing.
SaveList(r) ==
    /\ pc[r] = "start"
    /\ todo'  = [todo EXCEPT ![r] = Keys(environ)]
    /\ saved' = [saved EXCEPT ![r] = environ]
    /\ savedOut' = [savedOut EXCEPT ![r] = stdout]
    /\ depth' = [depth EXCEPT ![r] = deep + 1]
    /\ deep'  = deep + 1
    /\ torn'  = IF Shaky THEN torn \cup {r} ELSE torn
    /\ Goto(r, "save")
    /\ UNCHANGED <<global, kind, env, pick, fault, out, child, mixed>>

\* The run is over, or never began.
Leave(r) ==
    /\ depth' = [depth EXCEPT ![r] = 0]
    /\ deep'  = deep - 1
    /\ Step(r)

SaveRead(r) ==
    /\ pc[r] = "save"
    /\ \E k \in todo[r] :
         IF environ[k] # Unset
         THEN /\ saved' = [saved EXCEPT ![r][k] = environ[k]]
              /\ todo'  = [todo EXCEPT ![r] = @ \ {k}]
              /\ Step(r)
              /\ UNCHANGED <<pc, depth, deep>>
         ELSE Goto(r, "raised") /\ Leave(r) /\ UNCHANGED <<saved, todo>>
    /\ UNCHANGED <<global, kind, env, savedOut, pick, fault, out, child, torn>>

SaveStream(r) ==
    /\ pc[r] = "save" /\ todo[r] = {}
    /\ savedOut' = [savedOut EXCEPT ![r] = stdout]
    /\ torn' = torn \cup (Copiers \ {r})
    /\ Step(r)
    /\ Goto(r, "clear")
    /\ UNCHANGED <<global, kind, env, saved, todo, pick, fault, out, child,
                   depth, deep>>

\* clear() is popitem() until KeyError: choose a variable, then delete it.
PopItem(r, stage, next, target) ==
    /\ pc[r] = stage
    /\ LET Finish == /\ todo' = [todo EXCEPT ![r] = Keys(target)]
                     /\ pick' = [pick EXCEPT ![r] = Unset]
                     /\ Goto(r, next)
       IN  IF pick[r] = Unset
           THEN /\ UNCHANGED environ
                /\ IF Keys(environ) = {}
                   THEN Finish
                   ELSE /\ \E k \in Keys(environ) : pick' = [pick EXCEPT ![r] = k]
                        /\ UNCHANGED <<pc, todo>>
           ELSE IF environ[pick[r]] = Unset
                THEN Finish /\ UNCHANGED environ
                ELSE /\ environ' = [environ EXCEPT ![pick[r]] = Unset]
                     /\ pick' = [pick EXCEPT ![r] = Unset]
                     /\ UNCHANGED <<pc, todo>>
    /\ Step(r)
    /\ UNCHANGED <<stdout, kind, env, saved, savedOut, fault, out, child,
                   depth, deep, torn>>

\* update() sets one variable after the other.
SetItem(r, stage, source) ==
    /\ pc[r] = stage
    /\ \E k \in todo[r] :
         /\ environ' = [environ EXCEPT ![k] = source[k]]
         /\ todo' = [todo EXCEPT ![r] = @ \ {k}]
    /\ Step(r)
    /\ UNCHANGED <<stdout, pc, kind, env, saved, savedOut, pick, fault, out,
                   child, depth, deep, torn>>

\* Mutant: the script's environment is laid over the agent's.
ClearNothing(r) ==
    /\ pc[r] = "clear"
    /\ todo' = [todo EXCEPT ![r] = Keys(env[r])]
    /\ Step(r)
    /\ Goto(r, "update")
    /\ UNCHANGED <<global, kind, env, saved, savedOut, pick, fault, out,
                   child, depth, deep, torn>>

Clear(r)  == PopItem(r, "clear", "update", env[r])

Update(r) == SetItem(r, "update", env[r])

\* os.environ refuses an override: ValueError, and the finally clause.
Refuse(r) ==
    /\ pc[r] = "update" /\ "param" \in todo[r]
    /\ fault' = [fault EXCEPT ![r] = "refused"]
    /\ Step(r)
    /\ Goto(r, "undo")
    /\ UNCHANGED <<global, kind, env, saved, savedOut, todo, pick, out, child,
                   depth, deep, torn>>

Redirect(r) ==
    /\ pc[r] = "update" /\ todo[r] = {}
    /\ stdout' = r
    /\ Step(r)
    /\ Goto(r, "run")
    /\ UNCHANGED <<environ, own, out, child, depth, deep, torn>>

\* The script writes a line to whatever sys.stdout is.
Write(r) ==
    /\ pc[r] = "run"
    /\ IF stdout \in Req THEN out' = [out EXCEPT ![stdout] = @ \cup {r}] ELSE UNCHANGED out
    /\ UNCHANGED <<global, pc, own, child, nesting, torn>>

\* It ends, with or without an exception, or in a way that is not caught:
\* sys.exit("text") makes int(e.code) raise, and a KeyboardInterrupt is no
\* Exception.  The finally clause runs in each case.
ScriptEnds(r) ==
    /\ pc[r] = "run"
    /\ \/ UNCHANGED fault
       \/ fault' = [fault EXCEPT ![r] = "exit"]
    /\ Goto(r, "restore")
    /\ UNCHANGED <<global, kind, env, saved, savedOut, todo, pick, out, child,
                   nesting, torn>>

\* Mutant: the finally clause forgets the streams.
RestoreStreamNever(r) ==
    /\ pc[r] \in {"undo", "restore"}
    /\ torn' = torn \cup Copiers
    /\ Step(r)
    /\ Goto(r, "reclear")
    /\ UNCHANGED <<global, own, out, child, depth, deep>>

RestoreStream(r) ==
    /\ pc[r] \in {"undo", "restore"}
    /\ stdout' = savedOut[r]
    /\ torn' = torn \cup Copiers
    /\ Step(r)
    /\ Goto(r, "reclear")
    /\ UNCHANGED <<environ, own, out, child, depth, deep>>

\* Mutant: the finally clause does not clear().
ReClearNothing(r) ==
    /\ pc[r] = "reclear"
    /\ todo' = [todo EXCEPT ![r] = Keys(saved[r])]
    /\ Step(r)
    /\ Goto(r, "reupdate")
    /\ UNCHANGED <<global, kind, env, saved, savedOut, pick, fault, out,
                   child, depth, deep, torn>>

ReClear(r)  == PopItem(r, "reclear", "reupdate", saved[r])
ReUpdate(r) == SetItem(r, "reupdate", saved[r])

\* Mutant: an exception of the script leaves execute() as well.
RestoredRaising(r) ==
    /\ pc[r] = "reupdate" /\ todo[r] = {}
    /\ Leave(r)
    /\ Goto(r, "answered") \/ Goto(r, "raised")
    /\ UNCHANGED <<global, own, out, child, torn>>

Restored(r) ==
    /\ pc[r] = "reupdate" /\ todo[r] = {}
    /\ Leave(r)
    /\ Goto(r, IF fault[r] = "none" THEN "answered" ELSE "raised")
    /\ UNCHANGED <<global, own, out, child, torn>>

-----------------------------------------------------------------------------
(* A child process: native scripts, and scripts that need an administrator *)

\* Only an OSError of Popen is answered.
Spawn(r) ==
    /\ pc[r] = "spawn"
    /\ \/ Goto(r, "child") /\ UNCHANGED fault
       \/ Goto(r, "answered") /\ UNCHANGED fault
       \/ Goto(r, "raised") /\ fault' = [fault EXCEPT ![r] = "refused"]
    /\ UNCHANGED <<global, kind, env, saved, savedOut, todo, pick, out, child,
                   nesting, torn>>

\* The child writes something that does not decode.
ChildWrites(r) ==
    /\ pc[r] = "child"
    /\ fault' = [fault EXCEPT ![r] = "output"]
    /\ UNCHANGED <<global, pc, kind, env, saved, savedOut, todo, pick, out, child,
                   nesting, torn>>

\* The child exits and its output is decoded: by communicate() itself, which
\* raises, or, on Windows, by a thread of its own, which ends without it.
ChildEnds(r) ==
    /\ pc[r] = "child"
    /\ \/ Goto(r, "answered")
       \/ fault[r] = "output" /\ Goto(r, "raised")
    /\ UNCHANGED <<global, own, out, child, nesting, torn>>

\* The time is up: kill(), and a last communicate() that may raise anything.
ChildTimeout(r) ==
    /\ pc[r] = "child"
    /\ Goto(r, "answered")
    /\ UNCHANGED <<global, own, out, child, nesting, torn>>

\* The environment goes into a file, and PowerShell asks for elevation.  One
\* that is not installed is answered; any other OSError leaves execute().
Prepare(r) ==
    /\ pc[r] = "prepare"
    /\ \/ Goto(r, "prompt") /\ envFile' = envFile \cup {r} /\ UNCHANGED fault
       \/ Goto(r, "answered") /\ UNCHANGED <<envFile, fault>>
       \/ /\ Goto(r, "raised") /\ UNCHANGED envFile
          /\ fault' = [fault EXCEPT ![r] = "files"]
    /\ UNCHANGED <<global, kind, env, saved, savedOut, todo, pick, out, kid,
                   nesting, torn>>

\* Mutant: the env file is removed as soon as the child is launched.
ApproveUnlinking(r) ==
    /\ pc[r] = "prompt" /\ kid[r] = "none"
    /\ kid' = [kid EXCEPT ![r] = "starting"]
    /\ envFile' = envFile \ {r}
    /\ UNCHANGED <<global, pc, own, out, nesting, torn>>

\* The operator at the slave approves; anything else ends PowerShell.
Approve(r) ==
    /\ pc[r] = "prompt" /\ kid[r] = "none"
    /\ kid' = [kid EXCEPT ![r] = "starting"]
    /\ UNCHANGED <<global, pc, own, out, envFile, nesting, torn>>

\* --run-script: the elevated child reads the file, runs the script, exits.
KidReads(r) ==
    /\ kid[r] = "starting"
    /\ kid' = [kid EXCEPT ![r] = IF r \in envFile THEN "running" ELSE "failed"]
    /\ UNCHANGED <<global, pc, own, out, envFile, nesting, torn>>

KidEnds(r) ==
    /\ kid[r] = "running"
    /\ kid' = [kid EXCEPT ![r] = "ended"]
    /\ UNCHANGED <<global, pc, own, out, envFile, nesting, torn>>

\* PowerShell returns, declined or after the child, or is killed when the
\* time is up; the files are unlinked in each case.  Its own output is decoded
\* by Windows' threads, and the child's is read with errors="replace".
PromptEnds(r) ==
    /\ pc[r] = "prompt" /\ kid[r] \in {"none", "ended", "failed"}
    /\ envFile' = envFile \ {r}
    /\ Goto(r, "answered")
    /\ UNCHANGED <<global, own, out, kid, nesting, torn>>

PromptTimeout(r) ==
    /\ pc[r] = "prompt"
    /\ envFile' = envFile \ {r}
    /\ Goto(r, "answered")
    /\ UNCHANGED <<global, own, out, kid, nesting, torn>>

-----------------------------------------------------------------------------

Init ==
    /\ environ = HostEnv /\ stdout = Host
    /\ pc = [r \in Req |-> "idle"]
    /\ kind = [r \in Req |-> "native"]
    /\ env = [r \in Req |-> Empty] /\ saved = [r \in Req |-> Empty]
    /\ savedOut = [r \in Req |-> Host]
    /\ todo = [r \in Req |-> {}] /\ pick = [r \in Req |-> Unset]
    /\ out = [r \in Req |-> {}]
    /\ fault = [r \in Req |-> "none"] /\ envFile = {} /\ torn = {}
    /\ kid = [r \in Req |-> "none"]
    /\ depth = [r \in Req |-> 0] /\ deep = 0 /\ mixed = FALSE

InProcess(r) ==
    \/ SaveList(r) \/ SaveRead(r) \/ SaveStream(r)
    \/ Clear(r) \/ Update(r) \/ Refuse(r) \/ Redirect(r) \/ Write(r) \/ ScriptEnds(r)
    \/ RestoreStream(r) \/ ReClear(r) \/ ReUpdate(r) \/ Restored(r)

InChild(r) ==
    \/ Spawn(r) \/ ChildWrites(r) \/ ChildEnds(r) \/ ChildTimeout(r)
    \/ Prepare(r) \/ Approve(r) \/ KidReads(r) \/ KidEnds(r)
    \/ PromptEnds(r) \/ PromptTimeout(r)

Next == \E r \in Req : Accept(r) \/ Build(r) \/ Built(r) \/ InProcess(r) \/ InChild(r)

Spec == Init /\ [][Next]_vars

-----------------------------------------------------------------------------
Stage == {"idle", "build", "start", "save", "clear", "update", "undo", "run",
          "restore", "reclear", "reupdate", "spawn", "child", "prepare", "prompt",
          "answered", "raised"}

TypeOK ==
    /\ environ \in Env /\ stdout \in Req \cup {Host}
    /\ pc \in [Req -> Stage] /\ kind \in [Req -> Kind]
    /\ env \in [Req -> Env] /\ saved \in [Req -> Env]
    /\ savedOut \in [Req -> Req \cup {Host}]
    /\ todo \in [Req -> SUBSET Key] /\ pick \in [Req -> Key \cup {Unset}]
    /\ out \in [Req -> SUBSET Req]
    /\ fault \in [Req -> Fault \cup {"none"}] /\ envFile \subseteq Req /\ torn \subseteq Req
    /\ kid \in [Req -> {"none", "starting", "running", "ended", "failed"}]
    /\ depth \in [Req -> Int] /\ deep \in Int /\ mixed \in BOOLEAN

\* The runs under way are numbered 1..deep in the order they started.
Nested ==
    /\ deep \in Nat
    /\ \A r \in Req : depth[r] <= deep /\ (depth[r] > 0 <=> r \in Active)
    /\ \A r, q \in Active : depth[r] = depth[q] => r = q
    /\ \A n \in 1 .. deep : \E r \in Active : depth[r] = n

Filled(e, left, target) ==
    \A k \in Key : e[k] = IF k \in left THEN Unset ELSE target[k]

\* The environment e and the stream o are as run r left them.
Left(r, e, o) ==
    /\ pc[r] = "save" => e = saved[r]
    /\ pc[r] \in {"clear", "reclear"} => pick[r] = Unset \/ e[pick[r]] # Unset
    /\ pc[r] = "update" => Filled(e, todo[r], env[r])
    /\ pc[r] \in {"run", "restore"} => e = env[r] /\ o = r
    /\ pc[r] = "reupdate" => Filled(e, todo[r], saved[r])
    /\ pc[r] \notin {"run", "restore"} => o = savedOut[r]

\* Each run saved what the one below it left, and the newest has left what
\* there is now.
Chain ==
    /\ deep = 0 => environ = HostEnv /\ stdout = Host
    /\ \A r \in Active : depth[r] = 1 => saved[r] = HostEnv /\ savedOut[r] = Host
    /\ \A r \in Active : depth[r] = deep => Left(r, environ, stdout)
    /\ \A r, s \in Active : depth[s] = depth[r] + 1 => Left(r, saved[s], savedOut[s])

NoPick == \A r \in Req : pc[r] \notin {"clear", "reclear"} => pick[r] = Unset

NestInv == TypeOK /\ NoPick /\ (~mixed => Nested /\ Chain)

\* "Captures stdout/stderr and restores them after": when no Python script
\* is under way the agent has its own environment and its own streams.
RestoresThem == Active = {} => environ = HostEnv /\ stdout = Host

\* The same for scripts that never overlapped, or that overlapped so that
\* each one ended before the one it interrupted went on.
RestoresWhenNested == ~mixed => RestoresThem

\* "Sets os.environ to the script's env for the duration": under the same
\* condition the newest run under way sees exactly what was built for it,
\* nothing of the agent's and nothing of a run it interrupted.
OwnEnviron ==
    \A r \in Req : ~mixed /\ pc[r] \in {"run", "restore"} /\ depth[r] = deep
                   => environ = env[r]

\* Under the same condition the lines in the buffer of a run under way are
\* its own or those of runs that started before it, and nobody writes to the
\* buffer of a run that has ended.
BuffersNest ==
    ~mixed => /\ stdout \in Active \cup {Host}
              /\ \A r \in Active : \A q \in out[r] : q \in Active /\ depth[q] <= depth[r]

\* "we pass through a small whitelist of host vars (PATH, ...)": a script
\* whose environment was not built during a change of os.environ has it,
\* and never one of the agent's other variables.
EnvIsWhitelist ==
    \A r \in Req :
        pc[r] \in {"start", "spawn", "child", "prepare", "prompt"}
        => /\ env[r]["private"] = Unset
           /\ r \in torn \/ mixed \/ env[r]["path"] = Host

\* The faults that may cost a request its reply.
Silencing(k) == CASE k = "python"   -> {"exit", "refused"}
                  [] k = "native"   -> {"refused", "output"}
                  [] k = "elevated" -> {"files"}

\* A request that execute() leaves without a result is one that copied
\* os.environ while another thread was changing it, or that met a fault which
\* the way its script is run does not catch: a script's own exceptions, a
\* script that cannot be started, a timeout and a declined prompt are answered
\* whatever the other requests do.
SilenceHasACause ==
    \A r \in Req : pc[r] = "raised" => r \in torn \/ fault[r] \in Silencing(kind[r])

\* The files of an elevated run are unlinked when the run is over: a child
\* that finds no env file is one that started too late, after its request
\* had been answered with "timeout".
OnlyLateKidsFail == \A r \in Req : kid[r] = "failed" => pc[r] = "answered"

=============================================================================
