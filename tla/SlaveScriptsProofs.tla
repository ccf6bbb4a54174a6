------------------------- MODULE SlaveScriptsProofs -------------------------
(***************************************************************************)
(* What is proved of SlaveScripts for every set of connections, scripts    *)
(* and offers, under POSIX and under Windows rename rules, and for any     *)
(* number of crashes: its types; that a push which overlaps no other one   *)
(* never raises and acknowledges exactly its own folder; that a lookup     *)
(* while nothing is renamed finds the pushed copy; and that one death of   *)
(* the agent, wherever it strikes, costs no slave its scripts.             *)
(***************************************************************************)
EXTENDS SlaveScripts, TLAPS

LEMMA TypeInit == Init => TypeOK
  BY ConstantsOK DEF Init, TypeOK, Dir, Nothing

\* A push step moves one push, which was at work, and leaves to every other
\* push its place, its set and its list.
LEMMA PushStepFrame ==
    ASSUME TypeOK, NEW c \in Conn, PushStep(c)
    PROVE  /\ pc[c] \in Working
           /\ pc' = [pc EXCEPT ![c] = pc'[c]]
           /\ pc'[c] \in Working \cup Finished
           /\ todo' = [todo EXCEPT ![c] = todo'[c]]
           /\ todo'[c] \in SUBSET File
           /\ UNCHANGED <<up, crashes, want, alone, epc, ename, at, ran>>
  <1> USE DEF TypeOK, Working, Finished, Goto, Raise, disk, execVars
  <1>1. CASE CheckNew(c)
    BY <1>1 DEF CheckNew, ListIfThere, FilesIn
  <1>2. CASE ClearNew(c)
    BY <1>2 DEF ClearNew, Unlink, RemoveDir
  <1>3. CASE MakeNew(c)
    BY <1>3 DEF MakeNew
  <1>4. CASE WriteScript(c)
    BY <1>4 DEF WriteScript
  <1>5. CASE CheckLive(c)
    BY <1>5 DEF CheckLive
  <1>6. CASE CheckOld(c)
    BY <1>6 DEF CheckOld, ListIfThere, FilesIn
  <1>7. CASE ClearOld(c)
    BY <1>7 DEF ClearOld, Unlink, RemoveDir
  <1>8. CASE Retire(c)
    BY <1>8 DEF Retire
  <1>9. CASE Promote(c)
    BY <1>9 DEF Promote
  <1>10. CASE CheckDrop(c)
    BY <1>10 DEF CheckDrop, ListIfThere, FilesIn
  <1>11. CASE DropOld(c)
    BY <1>11 DEF DropOld, Unlink, RemoveDir
  <1>12. CASE Ack(c)
    BY <1>12 DEF Ack
  <1> QED
    BY <1>1, <1>2, <1>3, <1>4, <1>5, <1>6, <1>7, <1>8, <1>9, <1>10, <1>11,
       <1>12 DEF PushStep

\* Renames, unlinks and writes keep the disk well typed, and a folder that
\* goes away goes away empty.
LEMMA PushStepDisk ==
    ASSUME TypeOK, NEW c \in Conn, PushStep(c)
    PROVE  /\ there' \subseteq Dir
           /\ held' \in [Dir -> [File -> Conn \cup {NoFile}]]
           /\ \A d \in Dir \ there' : held'[d] = Nothing
           /\ last' \in Conn \cup {NoFile}
           /\ entitled' \subseteq Exec /\ calm' \subseteq Exec
  <1> USE DEF TypeOK, Goto, Raise, disk, execVars, Dir
  <1>a. Nothing \in [File -> Conn \cup {NoFile}]
    BY DEF Nothing
  <1>1. CASE CheckNew(c)
    BY <1>1 DEF CheckNew, ListIfThere
  <1>2. ASSUME NEW stage, NEW d \in Dir, Unlink(c, stage, d)
        PROVE  /\ there' = there
               /\ held' \in [Dir -> [File -> Conn \cup {NoFile}]]
               /\ \A x \in Dir \ there' : held'[x] = Nothing
               /\ UNCHANGED <<last, entitled, calm>>
    BY <1>2 DEF Unlink, Nothing
  <1>3. ASSUME NEW stage, NEW d \in Dir, NEW next, RemoveDir(c, stage, d, next)
        PROVE  /\ there' \subseteq there
               /\ held' = held
               /\ \A x \in Dir \ there' : held'[x] = Nothing
               /\ UNCHANGED <<last, entitled, calm>>
    <2>1. FilesIn(d) = {} => held[d] = Nothing
      BY DEF FilesIn, Nothing
    <2> QED
      BY <1>3, <2>1 DEF RemoveDir
  <1>4. ASSUME NEW src \in Dir, NEW dst \in Dir, src # dst, Rename(src, dst)
        PROVE  /\ there' \subseteq Dir
               /\ held' \in [Dir -> [File -> Conn \cup {NoFile}]]
               /\ \A x \in Dir \ there' : held'[x] = Nothing
    BY <1>4, <1>a DEF Rename
  <1>5. CASE ClearNew(c)
    BY <1>5, <1>2, <1>3 DEF ClearNew
  <1>6. CASE MakeNew(c)
    <2>1. /\ there' = there \/ there' = there \cup {"new"}
          /\ UNCHANGED <<held, last, entitled, calm>>
      BY <1>6 DEF MakeNew
    <2> QED
      BY <2>1
  <1>7. CASE WriteScript(c)
    <2>1. UNCHANGED <<there, last, entitled, calm>>
      BY <1>7 DEF WriteScript
    <2>2. \/ held' = held
          \/ \E f \in File : /\ "new" \in there
                             /\ held' = [held EXCEPT !["new"][f] = c]
      BY <1>7 DEF WriteScript
    <2> QED
      BY <2>1, <2>2
  <1>8. CASE CheckLive(c)
    BY <1>8 DEF CheckLive
  <1>9. CASE CheckOld(c)
    BY <1>9 DEF CheckOld, ListIfThere
  <1>10. CASE ClearOld(c)
    BY <1>10, <1>2, <1>3 DEF ClearOld
  <1>11. CASE Retire(c)
    BY <1>11, <1>4 DEF Retire
  <1>12. CASE Promote(c)
    BY <1>12, <1>4 DEF Promote
  <1>13. CASE CheckDrop(c)
    BY <1>13 DEF CheckDrop, ListIfThere
  <1>14. CASE DropOld(c)
    BY <1>14, <1>2, <1>3 DEF DropOld
  <1>15. CASE Ack(c)
    BY <1>15 DEF Ack
  <1> QED
    BY <1>1, <1>5, <1>6, <1>7, <1>8, <1>9, <1>10, <1>11, <1>12, <1>13, <1>14,
       <1>15 DEF PushStep

\* Every step keeps the types.
LEMMA TypeNext == TypeOK /\ [Next]_vars => TypeOK'
  <1> SUFFICES ASSUME TypeOK, [Next]_vars PROVE TypeOK'
    OBVIOUS
  <1> USE ConstantsOK
  <1>1. ASSUME NEW c \in Conn, Accept(c) PROVE TypeOK'
    BY <1>1 DEF Accept, TypeOK, Goto, Working, Finished, Dir, execVars
  <1>2. ASSUME NEW c \in Conn, PushStep(c) PROVE TypeOK'
    BY <1>2, PushStepFrame, PushStepDisk DEF TypeOK
  <1>3. ASSUME NEW e \in Exec, ExecBegin(e) PROVE TypeOK'
    BY <1>3 DEF ExecBegin, GotoE, TypeOK, disk, pushVars
  <1>4. ASSUME NEW e \in Exec, ExecStep(e) PROVE TypeOK'
    <2>1. CASE Look(e)
      BY <2>1 DEF Look, GotoE, TypeOK, disk, pushVars
    <2>2. CASE Start(e)
      <3>1. Target(e) \in File
        BY DEF Target, File, Ext, ExtAt, TypeOK
      <3> QED
        BY <2>2, <3>1 DEF Start, GotoE, TypeOK, disk, pushVars, Dir
    <2>3. CASE ScriptExit(e)
      BY <2>3 DEF ScriptExit, GotoE, TypeOK, disk, pushVars
    <2> QED
      BY <1>4, <2>1, <2>2, <2>3 DEF ExecStep
  <1>5. CASE Crash
    <2>1. crashes' \in 0..MaxCrashes
      <3>1. crashes \in Nat /\ crashes < MaxCrashes /\ crashes' = crashes + 1
        BY <1>5 DEF Crash, TypeOK
      <3> QED
        BY <3>1 DEF ConstantsOK
    <2>2. pc' \in [Conn -> {"idle"} \cup Working \cup Finished]
      BY <1>5 DEF Crash, TypeOK, Finished
    <2>3. epc' \in [Exec -> {"idle", "look", "start", "running", "ran",
                            "notfound", "failed", "killed"}]
      BY <1>5 DEF Crash, TypeOK
    <2> QED
      BY <1>5, <2>1, <2>2, <2>3 DEF Crash, TypeOK, disk
  <1>6. CASE Restart
    BY <1>6 DEF Restart, TypeOK, Dir, pushVars, execVars
  <1>7. CASE UNCHANGED vars
    BY <1>7 DEF vars, disk, pushVars, execVars, TypeOK
  <1> QED
    BY <1>1, <1>2, <1>3, <1>4, <1>5, <1>6, <1>7 DEF Next

\* Type correctness: every variable keeps its type, and a folder that does
\* not exist holds nothing.
THEOREM TypeCorrect == Spec => []TypeOK
  BY TypeInit, TypeNext, PTL DEF Spec

-----------------------------------------------------------------------------
(* A push that overlaps no other one.                                      *)

LEMMA LoneInit == Init => LoneInv
  BY TypeInit DEF Init, LoneInv, InFlight, Working

\* A push at rest keeps what LoneAt says of it while the others work.
LEMMA LoneAtRest ==
    ASSUME TypeOK, NEW c \in Conn, LoneAt(c), pc[c] \notin Working,
           pc'[c] = pc[c]
    PROVE  LoneAt(c)'
  BY DEF LoneAt, LoneDisk, Working

\* rmtree, run by a push that knows what the folder holds, ends well.
LEMMA LoneRmTree ==
    ASSUME TypeOK, NEW c \in Conn, NEW stage, NEW next, NEW d \in Dir,
           d \in there, todo[c] = FilesIn(d),
           Unlink(c, stage, d) \/ RemoveDir(c, stage, d, next)
    PROVE  /\ \/ /\ pc' = pc /\ there' = there
                 /\ todo'[c] = {f \in File : held'[d][f] # NoFile}
              \/ /\ pc' = [pc EXCEPT ![c] = next]
                 /\ there' = there \ {d}
           /\ \A x \in Dir \ {d} : held'[x] = held[x]
  <1>1. CASE Unlink(c, stage, d)
    <2>1. PICK f \in todo[c] :
            /\ held[d][f] # NoFile
            /\ held' = [held EXCEPT ![d][f] = NoFile]
            /\ todo' = [todo EXCEPT ![c] = @ \ {f}]
            /\ UNCHANGED <<pc, there>>
      BY <1>1 DEF Unlink, FilesIn
    <2>2. todo'[c] = todo[c] \ {f}
      BY <2>1 DEF TypeOK
    <2>3. /\ f \in File
          /\ \A g \in File : held'[d][g] = IF g = f THEN NoFile ELSE held[d][g]
      BY <2>1 DEF TypeOK, FilesIn
    <2>4. todo'[c] = {g \in File : held'[d][g] # NoFile}
      BY <2>2, <2>3 DEF FilesIn
    <2> QED
      BY <2>1, <2>4 DEF TypeOK
  <1>2. CASE RemoveDir(c, stage, d, next)
    BY <1>2 DEF RemoveDir, FilesIn, Goto
  <1> QED
    BY <1>1, <1>2

\* The step of the lone push itself, stage by stage.
LEMMA LoneStep ==
    ASSUME TypeOK, NEW c \in Conn, LoneAt(c), InFlight = {c}, PushStep(c)
    PROVE  pc'[c] \notin {"idle", "raised"} /\ LoneDisk(c)'
  <1> USE DEF LoneAt, LoneDisk, Working, Folder
  <1>w. want' = want
    BY PushStepFrame
  <1>t. /\ pc \in [Conn -> {"idle"} \cup Working \cup Finished]
        /\ todo \in [Conn -> SUBSET File] /\ want \in [Conn -> SUBSET File]
        /\ held \in [Dir -> [File -> Conn \cup {NoFile}]]
        /\ \A d \in Dir \ there : held[d] = Nothing
    BY DEF TypeOK
  <1>1. CASE CheckNew(c)
    BY <1>1, <1>t, <1>w DEF CheckNew, ListIfThere, Goto, disk, FilesIn
  <1>2. CASE ClearNew(c)
    <2>1. pc[c] = "clear_new"
      BY <1>2 DEF ClearNew, Unlink, RemoveDir
    <2>2. "new" \in there /\ todo[c] = FilesIn("new") /\ "new" \in Dir
      BY <2>1 DEF Dir
    <2>3. /\ \/ /\ pc' = pc /\ there' = there
                /\ todo'[c] = {f \in File : held'["new"][f] # NoFile}
             \/ /\ pc' = [pc EXCEPT ![c] = "make_new"]
                /\ there' = there \ {"new"}
          /\ \A x \in Dir \ {"new"} : held'[x] = held[x]
      <3>1. Unlink(c, "clear_new", "new") \/ RemoveDir(c, "clear_new", "new", "make_new")
        BY <1>2 DEF ClearNew
      <3> HIDE DEF LoneAt, LoneDisk, Working
      <3> QED
        BY <2>2, <3>1, LoneRmTree
    <2> QED
      BY <2>1, <2>2, <2>3, <1>t, <1>w DEF Dir, FilesIn
  <1>3. CASE MakeNew(c)
    <2>1. pc[c] = "make_new" /\ "new" \notin there /\ "new" \in Dir
      BY <1>3 DEF MakeNew, Dir
    <2>2. /\ there' = there \cup {"new"} /\ held' = held
          /\ todo'[c] = want[c] /\ pc'[c] = "write"
      BY <1>3, <2>1, <1>t DEF MakeNew, Goto
    <2>3. held'["new"] = Nothing
      BY <2>1, <2>2, <1>t
    <2> QED
      BY <2>2, <2>3, <1>w DEF Nothing
  <1>4. CASE WriteScript(c)
    <2>1. pc[c] = "write" /\ "new" \in there /\ "new" \in Dir
      BY <1>4 DEF WriteScript, Dir
    <2>2. PICK f \in todo[c] :
            /\ held' = IF f \in Foreign THEN held
                       ELSE [held EXCEPT !["new"][f] = c]
            /\ todo' = [todo EXCEPT ![c] = @ \ {f}]
            /\ UNCHANGED <<pc, there>>
      BY <1>4, <2>1 DEF WriteScript
    <2>3. todo'[c] = todo[c] \ {f} /\ f \in File /\ f \in want[c]
      BY <2>2, <1>t, <2>1
    <2>4. \A g \in File : held'["new"][g] =
             IF g \in want[c] \ (todo'[c] \cup Foreign) THEN c ELSE NoFile
      BY <2>1, <2>2, <2>3, <1>t
    <2>5. held'["new"] \in [File -> Conn \cup {NoFile}]
      BY <2>1, <2>2, <2>3, <1>t
    <2> QED
      BY <2>1, <2>2, <2>3, <2>4, <2>5, <1>w
  <1>5. CASE CheckLive(c)
    <2>1. /\ pc[c] = "write" /\ todo[c] = {} /\ UNCHANGED <<there, held>>
          /\ pc'[c] = IF "cascaded" \in there THEN "check_old" ELSE "promote"
      BY <1>5, <1>t DEF CheckLive, Goto, disk
    <2>2. held["new"] = Folder(c) /\ "new" \in there
      BY <2>1
    <2> QED
      BY <2>1, <2>2, <1>w
  <1>6. CASE CheckOld(c)
    BY <1>6, <1>t, <1>w DEF CheckOld, ListIfThere, Goto, disk, FilesIn
  <1>7. CASE ClearOld(c)
    <2>1. pc[c] = "clear_old"
      BY <1>7 DEF ClearOld, Unlink, RemoveDir
    <2>2. "old" \in there /\ todo[c] = FilesIn("old") /\ "old" \in Dir
      BY <2>1 DEF Dir
    <2>3. /\ \/ /\ pc' = pc /\ there' = there
                /\ todo'[c] = {f \in File : held'["old"][f] # NoFile}
             \/ /\ pc' = [pc EXCEPT ![c] = "retire"]
                /\ there' = there \ {"old"}
          /\ \A x \in Dir \ {"old"} : held'[x] = held[x]
      <3>1. Unlink(c, "clear_old", "old") \/ RemoveDir(c, "clear_old", "old", "retire")
        BY <1>7 DEF ClearOld
      <3> HIDE DEF LoneAt, LoneDisk, Working
      <3> QED
        BY <2>2, <3>1, LoneRmTree
    <2> QED
      BY <2>1, <2>2, <2>3, <1>t, <1>w DEF Dir, FilesIn
  <1>8. CASE Retire(c)
    BY <1>8, <1>t, <1>w DEF Retire, Goto, Free, Rename, Dir, disk, Finished
  <1>9. CASE Promote(c)
    BY <1>9, <1>t, <1>w DEF Promote, Goto, Free, Rename, Dir, disk
  <1>10. CASE CheckDrop(c)
    BY <1>10, <1>t, <1>w DEF CheckDrop, ListIfThere, Goto, disk, FilesIn
  <1>11. CASE DropOld(c)
    <2>1. pc[c] = "drop_old"
      BY <1>11 DEF DropOld, Unlink, RemoveDir
    <2>2. "old" \in there /\ todo[c] = FilesIn("old") /\ "old" \in Dir
      BY <2>1 DEF Dir
    <2>3. /\ \/ /\ pc' = pc /\ there' = there
                /\ todo'[c] = {f \in File : held'["old"][f] # NoFile}
             \/ /\ pc' = [pc EXCEPT ![c] = "ack"]
                /\ there' = there \ {"old"}
          /\ \A x \in Dir \ {"old"} : held'[x] = held[x]
      <3>1. Unlink(c, "drop_old", "old") \/ RemoveDir(c, "drop_old", "old", "ack")
        BY <1>11 DEF DropOld
      <3> HIDE DEF LoneAt, LoneDisk, Working
      <3> QED
        BY <2>2, <3>1, LoneRmTree
    <2> QED
      BY <2>1, <2>2, <2>3, <1>t, <1>w DEF Dir, FilesIn
  <1>12. CASE Ack(c)
    BY <1>12, <1>t, <1>w DEF Ack, Goto, disk
  <1> QED
    BY <1>1, <1>2, <1>3, <1>4, <1>5, <1>6, <1>7, <1>8, <1>9, <1>10, <1>11,
       <1>12 DEF PushStep

\* No step of anyone breaks the knowledge of a push that overlapped no other.
LEMMA LoneNext == LoneInv /\ [Next]_vars => LoneInv'
  <1> SUFFICES ASSUME LoneInv, [Next]_vars PROVE LoneInv'
    OBVIOUS
  <1>t. TypeOK /\ TypeOK'
    BY TypeNext DEF LoneInv
  <1>i. \A c \in Conn : c \in InFlight <=> pc[c] \in Working
    BY DEF InFlight
  <1>j. \A c \in Conn : c \in InFlight' <=> pc'[c] \in Working
    BY DEF InFlight
  <1>1. ASSUME NEW c \in Conn, Accept(c) PROVE LoneInv'
    <2>1. /\ up /\ up' /\ pc[c] = "idle" /\ c \notin alone
          /\ pc' = [pc EXCEPT ![c] = "check_new"]
          /\ alone' = IF InFlight = {} THEN alone \cup {c} ELSE alone \ InFlight
      BY <1>1 DEF Accept, Goto, LoneInv, LoneAt
    <2>2. pc \in [Conn -> {"idle"} \cup Working \cup Finished]
      BY <1>t DEF TypeOK
    <2>3. ASSUME NEW x \in alone', x # c PROVE LoneAt(x)'
      <3>1. x \in Conn /\ LoneAt(x) /\ pc[x] \notin Working /\ pc'[x] = pc[x]
        BY <2>1, <2>2, <2>3, <1>t, <1>i DEF LoneInv, TypeOK
      <3> QED
        BY <3>1, <1>t, LoneAtRest
    <2>4. ASSUME c \in alone' PROVE LoneAt(c)'
      <3>1. InFlight = {}
        BY <2>1, <2>4
      <3>2. InFlight' = {c}
        BY <3>1, <2>1, <2>2 DEF InFlight, Working
      <3>3. pc'[c] = "check_new"
        BY <2>1, <2>2
      <3> QED
        BY <3>2, <3>3 DEF LoneAt, LoneDisk
    <2> QED
      BY <2>1, <2>3, <2>4, <1>t DEF LoneInv
  <1>2. ASSUME NEW c \in Conn, PushStep(c) PROVE LoneInv'
    <2>1. /\ pc[c] \in Working /\ pc' = [pc EXCEPT ![c] = pc'[c]]
          /\ UNCHANGED <<up, alone>>
      BY <1>2, <1>t, PushStepFrame
    <2>2. up /\ up'
      BY <2>1, <1>i DEF LoneInv
    <2>3. pc \in [Conn -> {"idle"} \cup Working \cup Finished]
      BY <1>t DEF TypeOK
    <2>4. ASSUME NEW x \in alone' PROVE LoneAt(x)'
      <3>1. x \in Conn /\ LoneAt(x)
        BY <2>1, <2>4, <1>t DEF LoneInv, TypeOK
      <3>2. CASE x # c
        <4>1. pc[x] \notin Working
          BY <3>1, <3>2, <2>1, <1>i DEF LoneAt
        <4>2. pc'[x] = pc[x]
          BY <3>1, <3>2, <2>1, <2>3
        <4> QED
          BY <3>1, <4>1, <4>2, <1>t, LoneAtRest
      <3>3. CASE x = c
        <4>1. InFlight = {c}
          BY <3>1, <3>3, <2>1 DEF LoneAt
        <4>2. pc'[c] \notin {"idle", "raised"} /\ LoneDisk(c)'
          BY <4>1, <3>1, <3>3, <1>2, <1>t, LoneStep
        <4>3. pc'[c] \in Working => InFlight' = {c}
          BY <4>1, <2>1, <2>3 DEF InFlight
        <4> QED
          BY <4>2, <4>3, <3>3 DEF LoneAt
      <3> QED
        BY <3>2, <3>3
    <2> QED
      BY <2>2, <2>4, <1>t DEF LoneInv
  <1>3. ASSUME UNCHANGED <<up, disk, pc, want, todo, alone>> PROVE LoneInv'
    BY <1>3, <1>t DEF LoneInv, LoneAt, LoneDisk, InFlight, disk, FilesIn, Folder
  <1>4. ASSUME NEW e \in Exec, ExecBegin(e) \/ ExecStep(e) PROVE LoneInv'
    BY <1>4, <1>3 DEF ExecBegin, ExecStep, Look, Start, ScriptExit, pushVars
  <1>5. CASE Crash
    <2>1. /\ alone' = alone /\ \A x \in Conn : pc'[x] \notin Working
          /\ \A x \in Conn : pc[x] \notin Working => pc'[x] = pc[x]
          /\ \A x \in Conn : pc[x] \in Working => pc'[x] = "killed"
      BY <1>5, <1>i DEF Crash, Working
    <2>2. ASSUME NEW x \in alone' PROVE LoneAt(x)'
      <3>1. x \in Conn /\ LoneAt(x)
        BY <2>1, <2>2, <1>t DEF LoneInv, TypeOK
      <3>2. CASE pc[x] \notin Working
        BY <3>1, <3>2, <2>1, <1>t, LoneAtRest
      <3>3. CASE pc[x] \in Working
        <4>1. pc'[x] = "killed"
          BY <3>1, <3>3, <2>1
        <4> QED
          BY <4>1 DEF LoneAt, LoneDisk, Working
      <3> QED
        BY <3>2, <3>3
    <2>3. InFlight' = {}
      BY <2>1, <1>j DEF InFlight
    <2> QED
      BY <2>2, <2>3, <1>t DEF LoneInv
  <1>6. CASE Restart
    <2>1. ~up /\ up' /\ UNCHANGED <<pc, alone>>
      BY <1>6 DEF Restart, pushVars
    <2>2. ASSUME NEW x \in alone' PROVE LoneAt(x)'
      <3>1. x \in Conn /\ LoneAt(x) /\ pc[x] \notin Working /\ pc'[x] = pc[x]
        BY <2>1, <2>2, <1>t, <1>i DEF LoneInv, TypeOK
      <3> QED
        BY <3>1, <1>t, LoneAtRest
    <2> QED
      BY <2>1, <2>2, <1>t DEF LoneInv
  <1>7. CASE UNCHANGED vars
    BY <1>7, <1>3 DEF vars, pushVars
  <1> QED
    BY <1>1, <1>2, <1>4, <1>5, <1>6, <1>7 DEF Next

\* The invariant behind the two theorems below, of every behaviour.
THEOREM LoneInvariant == Spec => []LoneInv
  BY LoneInit, LoneNext, PTL DEF Spec

\* A push that overlapped no other one has, when it acknowledges, exactly its
\* own scripts in cascaded/: whatever interrupted, failed or interleaved
\* pushes left behind before it began.
THEOREM LonePushIsExact == Spec => []LonePushInstalls
  <1>1. LoneInv => LonePushInstalls
    BY DEF LoneInv, LoneAt, LoneDisk, LonePushInstalls
  <1> QED
    BY <1>1, LoneInvariant, PTL

\* A push that overlapped no other one raises nothing.
THEOREM LonePushIsSafe == Spec => []LonePushNeverRaises
  <1>1. LoneInv => LonePushNeverRaises
    BY DEF LoneInv, LoneAt, LonePushNeverRaises
  <1> QED
    BY <1>1, LoneInvariant, PTL

-----------------------------------------------------------------------------
(* An EXEC_SCRIPT while cascaded/ stays where it is.                       *)

\* What an EXEC_SCRIPT that began with its script in cascaded/, and during
\* which cascaded/ was not renamed, finds at each of its stages.
CalmAt(e) ==
    /\ epc[e] = "look" =>
         /\ at[e] \in {1, 2}
         /\ \E f \in File : /\ f.name = ename[e] /\ held["cascaded"][f] # NoFile
                            /\ at[e] = 2 => f.ext = "py"
    /\ epc[e] = "start" => at[e] \in {1, 2} /\ Exists(e)
    /\ epc[e] \in {"running", "ran"} => ran[e] # NoFile

CalmInv ==
    /\ TypeOK
    /\ \A e \in Exec : epc[e] = "idle" => at[e] = 1 /\ e \notin entitled \cup calm
    /\ \A e \in entitled \cap calm : CalmAt(e)

\* A push changes what is in cascaded/ by renaming it, and in no other way.
LEMMA LiveFolderMoves ==
    ASSUME TypeOK, NEW c \in Conn, PushStep(c)
    PROVE  /\ entitled' \subseteq entitled
           /\ calm' = {} \/ (calm' = calm /\ held'["cascaded"] = held["cascaded"])
  <1> USE DEF disk, execVars, Raise
  <1>1. CASE CheckNew(c) \/ CheckOld(c) \/ CheckDrop(c)
    BY <1>1 DEF CheckNew, CheckOld, CheckDrop, ListIfThere
  <1>2. CASE ClearNew(c) \/ ClearOld(c) \/ DropOld(c)
    <2>1. ASSUME NEW stage, NEW d \in {"new", "old"}, Unlink(c, stage, d)
          PROVE  held'["cascaded"] = held["cascaded"] /\ calm' = calm /\ entitled' = entitled
      BY <2>1 DEF Unlink, TypeOK, Dir
    <2>2. ASSUME NEW stage, NEW d \in {"new", "old"}, NEW next, RemoveDir(c, stage, d, next)
          PROVE  held'["cascaded"] = held["cascaded"] /\ calm' = calm /\ entitled' = entitled
      BY <2>2 DEF RemoveDir
    <2> QED
      BY <1>2, <2>1, <2>2 DEF ClearNew, ClearOld, DropOld
  <1>3. CASE MakeNew(c)
    BY <1>3 DEF MakeNew
  <1>4. CASE WriteScript(c)
    BY <1>4 DEF WriteScript, TypeOK, Dir
  <1>5. CASE CheckLive(c) \/ Ack(c)
    BY <1>5 DEF CheckLive, Ack
  <1>6. CASE Retire(c)
    BY <1>6 DEF Retire
  <1>7. CASE Promote(c)
    BY <1>7 DEF Promote
  <1> QED
    BY <1>1, <1>2, <1>3, <1>4, <1>5, <1>6, <1>7 DEF PushStep

\* A step that leaves cascaded/ and the EXEC_SCRIPTs alone.
LEMMA CalmAside ==
    ASSUME CalmInv, TypeOK', entitled' \subseteq entitled,
           UNCHANGED <<epc, ename, at, ran>>,
           calm' = {} \/ (calm' = calm /\ held'["cascaded"] = held["cascaded"])
    PROVE  CalmInv'
  <1> SUFFICES ASSUME NEW e \in (entitled \cap calm)' PROVE CalmAt(e)'
    <2>1. calm' \subseteq calm
      OBVIOUS
    <2> QED
      BY <2>1 DEF CalmInv
  <1>1. CalmAt(e) /\ held'["cascaded"] = held["cascaded"]
    BY DEF CalmInv
  <1> QED
    BY <1>1 DEF CalmAt, Exists, Target

\* The step of an EXEC_SCRIPT itself.
LEMMA CalmStep ==
    ASSUME CalmInv, TypeOK', NEW e \in Exec, ExecBegin(e) \/ ExecStep(e)
    PROVE  CalmInv'
  <1> TypeOK
    BY DEF CalmInv
  <1>1. UNCHANGED <<held, ename>>
    BY DEF ExecBegin, ExecStep, Look, Start, ScriptExit, disk
  <1>2. \A x \in Exec \ {e} : /\ epc'[x] = epc[x] /\ at'[x] = at[x] /\ ran'[x] = ran[x]
                              /\ x \in entitled' <=> x \in entitled
                              /\ x \in calm' <=> x \in calm
    BY DEF ExecBegin, ExecStep, Look, Start, ScriptExit, GotoE, TypeOK
  <1>3. ASSUME NEW x \in (entitled \cap calm)', x # e PROVE CalmAt(x)'
    <2>1. x \in Exec /\ CalmAt(x)
      BY <1>2, <1>3 DEF CalmInv, TypeOK
    <2> QED
      BY <1>1, <1>2, <1>3, <2>1 DEF CalmAt, Exists, Target
  <1>4. ASSUME e \in (entitled \cap calm)' PROVE CalmAt(e)'
    <2>1. CASE ExecBegin(e)
      <3>1. epc[e] = "idle" /\ epc'[e] = "look" /\ at' = at
        BY <2>1 DEF ExecBegin, GotoE, TypeOK
      <3>2. at[e] = 1 /\ e \notin entitled
        BY <3>1 DEF CalmInv
      <3>3. Offered(held["cascaded"], ename[e])
        BY <1>4, <2>1, <3>2 DEF ExecBegin
      <3>4. \E f \in File : f.name = ename[e] /\ held["cascaded"][f] # NoFile
        BY <3>3 DEF Offered
      <3> QED
        BY <1>1, <3>1, <3>2, <3>4 DEF CalmAt
    <2>2. CASE Look(e)
      <3>1. epc[e] = "look" /\ e \in entitled \cap calm
        BY <1>4, <2>2 DEF Look
      <3>2. at[e] \in {1, 2}
        BY <3>1 DEF CalmInv, CalmAt
      <3>3. PICK f \in File : /\ f.name = ename[e] /\ held["cascaded"][f] # NoFile
                              /\ at[e] = 2 => f.ext = "py"
        BY <3>1 DEF CalmInv, CalmAt
      <3>4. f = [name |-> ename[e], ext |-> f.ext] /\ f.ext \in {"native", "py"}
        BY <3>3 DEF File, Ext
      <3>5. CASE Exists(e)
        <4>1. epc'[e] = "start" /\ at' = at
          BY <2>2, <3>5 DEF Look, GotoE, TypeOK
        <4> QED
          BY <1>1, <3>2, <3>5, <4>1 DEF CalmAt, Exists, Target
      <3>6. CASE ~Exists(e)
        <4>1. Target(e) # f
          BY <3>2, <3>3, <3>6 DEF Exists, InLocal
        <4>2. at[e] = 1 /\ f.ext = "py"
          BY <3>2, <3>3, <3>4, <4>1 DEF Target, ExtAt
        <4>3. epc'[e] = "look" /\ at'[e] = 2
          BY <2>2, <3>1, <3>6, <4>2 DEF Look, TypeOK
        <4> QED
          BY <1>1, <3>3, <4>2, <4>3 DEF CalmAt
      <3> QED
        BY <3>5, <3>6
    <2>3. CASE Start(e)
      <3>1. epc[e] = "start" /\ CalmAt(e)
        BY <1>4, <2>3 DEF Start, CalmInv
      <3>2. at[e] \in {1, 2} /\ Exists(e)
        BY <3>1 DEF CalmAt
      <3>3. /\ epc'[e] = "running" /\ ~InLocal(at[e])
            /\ ran'[e] = held["cascaded"][Target(e)]
        BY <2>3, <3>2 DEF Start, GotoE, InLocal, TypeOK
      <3>4. ran'[e] # NoFile
        BY <3>2, <3>3 DEF Exists
      <3> QED
        BY <3>3, <3>4 DEF CalmAt
    <2>4. CASE ScriptExit(e)
      <3>1. epc[e] = "running" /\ epc'[e] = "ran" /\ ran' = ran /\ CalmAt(e)
        BY <1>4, <2>4 DEF ScriptExit, GotoE, CalmInv, TypeOK
      <3> QED
        BY <3>1 DEF CalmAt
    <2> QED
      BY <2>1, <2>2, <2>3, <2>4 DEF ExecStep
  <1>5. epc'[e] # "idle"
    BY DEF ExecBegin, ExecStep, Look, Start, ScriptExit, GotoE, TypeOK
  <1>6. \A x \in Exec : epc'[x] = "idle" => at'[x] = 1 /\ x \notin (entitled \cup calm)'
    BY <1>2, <1>5 DEF CalmInv
  <1> QED
    BY <1>3, <1>4, <1>6 DEF CalmInv

LEMMA CalmNext == CalmInv /\ [Next]_vars => CalmInv'
  <1> SUFFICES ASSUME CalmInv, [Next]_vars PROVE CalmInv'
    OBVIOUS
  <1>1. TypeOK /\ TypeOK'
    BY TypeNext DEF CalmInv
  <1>2. ASSUME NEW c \in Conn, Accept(c) PROVE CalmInv'
    BY <1>1, <1>2, CalmAside DEF Accept, execVars
  <1>3. ASSUME NEW c \in Conn, PushStep(c) PROVE CalmInv'
    BY <1>1, <1>3, PushStepFrame, LiveFolderMoves, CalmAside
  <1>4. CASE Crash
    <2>1. /\ UNCHANGED <<held, ename, at, ran, entitled, calm>>
          /\ \A e \in Exec : epc'[e] = epc[e] \/ epc'[e] = "killed"
      BY <1>4 DEF Crash, disk
    <2>2. ASSUME NEW e \in entitled \cap calm PROVE CalmAt(e)'
      <3>1. CalmAt(e) /\ e \in Exec
        BY <1>1 DEF CalmInv, TypeOK
      <3> QED
        BY <2>1, <3>1 DEF CalmAt, Exists, Target
    <2>3. \A e \in Exec : epc'[e] = "idle" => epc[e] = "idle"
      BY <2>1
    <2> QED
      BY <1>1, <2>1, <2>2, <2>3 DEF CalmInv
  <1>5. CASE Restart
    BY <1>1, <1>5, CalmAside DEF Restart, execVars
  <1>6. CASE UNCHANGED vars
    BY <1>1, <1>6, CalmAside DEF vars, disk, execVars
  <1> QED
    BY <1>2, <1>3, <1>4, <1>5, <1>6, CalmStep, <1>1 DEF Next

\* find_script looks into cascaded/ first and for the native script first,
\* and between its calls nothing but a rename can take a script away.
THEOREM CalmLookupRunsPushedCopy == Spec => []PushedCopyWinsWhenCalm
  <1>1. Init => CalmInv
    BY TypeInit DEF Init, CalmInv
  <1>2. CalmInv => PushedCopyWinsWhenCalm
    BY DEF CalmInv, CalmAt, PushedCopyWinsWhenCalm
  <1> QED
    BY <1>1, <1>2, CalmNext, PTL DEF Spec

-----------------------------------------------------------------------------
(* One death of the agent.                                                 *)

\* Pushes never overlapped, at least one folder went live, and the agent
\* died once at most.
Spared == /\ crashes <= 1 /\ last # NoFile
          /\ {c \in Conn : pc[c] # "idle"} \subseteq alone

\* The folder that went live last is in its place.
Live == "cascaded" \in there /\ held["cascaded"] = Folder(last)

\* cascaded/ is missing or empty, and no script runs that Windows would
\* refuse to rename it for.
Bare == held["cascaded"] = Nothing /\ ~(Windows /\ Busy)

\* It is in cascaded.old/: the agent died before the next one went live, or
\* the next one is about to.
Kept == /\ Bare /\ "old" \in there /\ held["old"] = Folder(last)
        /\ crashes = 1 \/ \E c \in Conn : pc[c] = "promote"

\* The agent has died, and a push whose folder is written goes on to put it
\* in the place of the one it deletes.
Handed == /\ Bare /\ crashes = 1
          /\ \E c \in Conn : pc[c] \in {"clear_old", "retire", "promote"}

SetInv ==
    /\ LoneInv
    /\ last # NoFile => pc[last] # "idle"
    /\ \A c \in alone : pc[c] \in {"check_drop", "drop_old", "ack"} => last = c
    /\ Spared => Live \/ Kept \/ Handed

\* Whoever has begun was not idle, and stays in want of the same scripts.
LEMMA LastKept ==
    ASSUME SetInv, [Next]_vars
    PROVE  /\ last' = last => (last # NoFile => Folder(last)' = Folder(last))
           /\ \A c \in Conn : pc[c] # "idle" => pc'[c] # "idle" /\ want'[c] = want[c]
  <1> TypeOK /\ last \in Conn \cup {NoFile}
    BY DEF SetInv, LoneInv, TypeOK
  <1>1. \A c \in Conn : pc[c] # "idle" => pc'[c] # "idle" /\ want'[c] = want[c]
    <2>1. ASSUME NEW c \in Conn, Accept(c)
          PROVE  \A x \in Conn : pc[x] # "idle" => pc'[x] # "idle" /\ want'[x] = want[x]
      BY <2>1 DEF Accept, Goto, TypeOK
    <2>2. ASSUME NEW c \in Conn, PushStep(c)
          PROVE  \A x \in Conn : pc[x] # "idle" => pc'[x] # "idle" /\ want'[x] = want[x]
      <3>1. /\ pc' = [pc EXCEPT ![c] = pc'[c]] /\ pc'[c] \in Working \cup Finished
            /\ want' = want
        BY <2>2, PushStepFrame
      <3>2. pc'[c] # "idle"
        BY <3>1 DEF Working, Finished
      <3> QED
        BY <3>1, <3>2 DEF TypeOK
    <2>3. ASSUME NEW e \in Exec, ExecBegin(e) \/ ExecStep(e) PROVE UNCHANGED <<pc, want>>
      BY <2>3 DEF ExecBegin, ExecStep, Look, Start, ScriptExit, pushVars
    <2>4. CASE Crash
      BY <2>4 DEF Crash
    <2>5. CASE Restart \/ UNCHANGED vars
      BY <2>5 DEF Restart, vars, pushVars
    <2> QED
      BY <2>1, <2>2, <2>3, <2>4, <2>5 DEF Next
  <1>2. ASSUME last' = last, last # NoFile PROVE Folder(last)' = Folder(last)
    <2>1. pc[last] # "idle" /\ last \in Conn
      BY <1>2 DEF SetInv
    <2>2. want'[last] = want[last]
      BY <1>1, <2>1
    <2> QED
      BY <1>2, <2>2 DEF Folder
  <1> QED
    BY <1>1, <1>2

\* The scripts of an empty cascaded/ cannot be started.
LEMMA BareExec ==
    ASSUME TypeOK, Bare, NEW e \in Exec, ExecBegin(e) \/ ExecStep(e)
    PROVE  Bare'
  <1>1. held' = held
    BY DEF ExecBegin, ExecStep, Look, Start, ScriptExit, disk
  <1>2. ASSUME NEW x \in Exec, epc'[x] = "running" /\ at'[x] = 1
        PROVE  epc[x] = "running" /\ at[x] = 1
    <2>1. CASE Start(e)
      <3>1. at' = at /\ \A y \in Exec \ {e} : epc'[y] = epc[y]
        BY <2>1 DEF Start, GotoE, TypeOK
      <3>2. CASE x = e
        <4>1. Exists(e) /\ ~InLocal(at[e])
          BY <1>2, <2>1, <3>1, <3>2 DEF Start, GotoE, InLocal, TypeOK
        <4>2. Target(e) \in File
          BY DEF Target, File, Ext, ExtAt, TypeOK
        <4> QED
          BY <4>1, <4>2 DEF Exists, Bare, Nothing
      <3> QED
        BY <1>2, <3>1, <3>2
    <2>2. CASE ~Start(e)
      <3>1. x # e => epc'[x] = epc[x] /\ at'[x] = at[x]
        BY <2>2 DEF ExecBegin, ExecStep, Look, ScriptExit, GotoE, TypeOK
      <3>2. epc'[e] # "running"
        BY <2>2 DEF ExecBegin, ExecStep, Look, ScriptExit, GotoE, TypeOK
      <3> QED
        BY <1>2, <3>1, <3>2
    <2> QED
      BY <2>1, <2>2
  <1> QED
    BY <1>1, <1>2 DEF Bare, Busy

\* A step of the one push that is under way.
LEMMA SetStep ==
    ASSUME SetInv, TypeOK', LoneInv', NEW c \in Conn, PushStep(c), c \in alone,
           crashes <= 1, last # NoFile, Live \/ Kept \/ Handed, last' = last,
           Folder(last)' = Folder(last), ~Promote(c)
    PROVE  Live' \/ Kept' \/ Handed'
  <1> USE DEF Raise, disk, execVars
  <1>1. /\ TypeOK /\ LoneAt(c) /\ LoneAt(c)' /\ LoneDisk(c)
        /\ pc[c] \in Working /\ InFlight = {c} /\ up
        /\ pc' = [pc EXCEPT ![c] = pc'[c]]
        /\ UNCHANGED <<up, crashes, want, alone, epc, ename, at, ran>>
    <2>1. TypeOK /\ LoneAt(c) /\ LoneInv
      BY DEF SetInv, LoneInv
    <2>2. /\ pc[c] \in Working /\ pc' = [pc EXCEPT ![c] = pc'[c]]
          /\ UNCHANGED <<up, crashes, want, alone, epc, ename, at, ran>>
      BY <2>1, PushStepFrame
    <2>3. LoneAt(c)'
      BY <2>2 DEF LoneInv
    <2>4. InFlight = {c} /\ LoneDisk(c)
      BY <2>1, <2>2 DEF LoneAt
    <2> QED
      BY <2>1, <2>2, <2>3, <2>4 DEF LoneInv
  <1>2. /\ pc'[c] # "raised"
        /\ \A x \in Conn : pc[x] \in Working => x = c
        /\ \A x \in Conn \ {c} : pc'[x] = pc[x]
    BY <1>1 DEF LoneAt, InFlight, TypeOK
  <1>3. (\E x \in Conn : pc[x] \in {"clear_old", "retire", "promote"})
        => pc[c] \in {"clear_old", "retire", "promote"}
    BY <1>2 DEF Working
  <1>4. (\E x \in Conn : pc[x] = "promote") => pc[c] = "promote"
    BY <1>2 DEF Working
  <1>5. Busy' <=> Busy
    BY <1>1 DEF Busy
  \* The two renames apart, cascaded/ is left alone.
  <1>6. ASSUME ~Retire(c)
        PROVE  held'["cascaded"] = held["cascaded"] /\ ("cascaded" \in there => "cascaded" \in there')
    <2>1. CASE CheckNew(c) \/ CheckOld(c) \/ CheckDrop(c) \/ CheckLive(c) \/ Ack(c)
      BY <2>1 DEF CheckNew, CheckOld, CheckDrop, ListIfThere, CheckLive, Ack
    <2>2. CASE ClearNew(c) \/ ClearOld(c) \/ DropOld(c)
      <3>1. ASSUME NEW stage, NEW d \in {"new", "old"}, Unlink(c, stage, d)
            PROVE  held'["cascaded"] = held["cascaded"] /\ there' = there
        BY <1>1, <3>1 DEF Unlink, TypeOK, Dir
      <3>2. ASSUME NEW stage, NEW d \in {"new", "old"}, NEW next, RemoveDir(c, stage, d, next)
            PROVE  held' = held /\ there \ {d} \subseteq there'
        BY <3>2 DEF RemoveDir
      <3> QED
        BY <2>2, <3>1, <3>2 DEF ClearNew, ClearOld, DropOld
    <2>3. CASE MakeNew(c) \/ WriteScript(c)
      BY <1>1, <2>3 DEF MakeNew, WriteScript, TypeOK, Dir
    <2> QED
      BY <1>6, <2>1, <2>2, <2>3 DEF PushStep
  <1>7. CASE Live /\ ~Retire(c)
    BY <1>6, <1>7 DEF Live
  <1>8. CASE Retire(c)
    <2>1. pc[c] = "retire" /\ "old" \notin there /\ "cascaded" \in there
      BY <1>1, <1>8 DEF Retire, LoneDisk
    <2>2. CASE Windows /\ Busy
      <3>1. held' = held /\ there' = there
        BY <1>8, <2>1, <2>2 DEF Retire, Free
      <3>2. Live
        BY <2>2 DEF Kept, Handed, Bare
      <3> QED
        BY <3>1, <3>2 DEF Live
    <2>3. CASE ~(Windows /\ Busy)
      <3>1. Rename("cascaded", "old") /\ pc'[c] = "promote"
        BY <1>1, <1>8, <2>1, <2>3 DEF Retire, Free, Goto, TypeOK
      <3>2. /\ "old" \in there' /\ held'["old"] = held["cascaded"]
            /\ held'["cascaded"] = Nothing
        BY <1>1, <3>1 DEF Rename, TypeOK, Dir
      <3>3. Bare'
        BY <1>5, <2>3, <3>2 DEF Bare
      <3>4. CASE Live
        BY <3>1, <3>2, <3>3, <3>4 DEF Kept, Live
      <3>5. CASE Kept
        BY <2>1, <3>5 DEF Kept
      <3>6. CASE Handed
        BY <1>1, <3>1, <3>3, <3>6 DEF Handed
      <3> QED
        BY <3>4, <3>5, <3>6
    <2> QED
      BY <2>2, <2>3
  <1>9. CASE Bare /\ ~Live /\ ~Retire(c)
    <2>1. Bare'
      BY <1>5, <1>6, <1>9 DEF Bare
    <2>2. pc[c] # "promote"
      BY <1>1 DEF PushStep, Promote, CheckNew, ListIfThere, ClearNew, Unlink, RemoveDir,
                  MakeNew, WriteScript, CheckLive, CheckOld, ClearOld, Retire, CheckDrop,
                  DropOld, Ack
    <2>3. crashes = 1
      BY <1>4, <1>9, <2>2 DEF Kept, Handed
    <2>4. pc[c] \notin {"check_drop", "drop_old", "ack"}
      <3>1. ASSUME pc[c] \in {"check_drop", "drop_old", "ack"} PROVE Live
        BY <1>1, <3>1 DEF SetInv, LoneDisk, Live
      <3> QED
        BY <1>9, <3>1
    <2>5. CASE ClearOld(c)
      <3>1. pc'[c] \in {"clear_old", "retire"}
        BY <1>1, <1>2, <2>5 DEF ClearOld, Unlink, RemoveDir, Goto, TypeOK
      <3> QED
        BY <1>1, <2>1, <2>3, <3>1 DEF Handed
    <2>6. CASE ~ClearOld(c)
      <3>1. pc[c] \notin {"clear_old", "retire", "promote"}
        BY <1>9, <2>2, <2>6 DEF PushStep, Promote, CheckNew, ListIfThere, ClearNew, Unlink,
                  RemoveDir, MakeNew, WriteScript, CheckLive, CheckOld, ClearOld, Retire,
                  CheckDrop, DropOld, Ack
      <3>2. Kept
        BY <1>3, <1>9, <3>1 DEF Handed
      <3>3. held'["old"] = held["old"] /\ ("old" \in there => "old" \in there')
        <4>1. CASE CheckNew(c) \/ CheckOld(c) \/ CheckDrop(c) \/ CheckLive(c) \/ Ack(c)
          BY <4>1 DEF CheckNew, CheckOld, CheckDrop, ListIfThere, CheckLive, Ack
        <4>2. CASE ClearNew(c)
          BY <1>1, <4>2 DEF ClearNew, Unlink, RemoveDir, TypeOK, Dir
        <4>3. CASE MakeNew(c) \/ WriteScript(c)
          BY <1>1, <4>3 DEF MakeNew, WriteScript, TypeOK, Dir
        <4>4. CASE DropOld(c)
          BY <2>4, <4>4 DEF DropOld, Unlink, RemoveDir
        <4> QED
          BY <1>9, <2>6, <4>1, <4>2, <4>3, <4>4 DEF PushStep
      <3> QED
        BY <1>1, <2>1, <2>3, <3>2, <3>3 DEF Kept
    <2> QED
      BY <2>5, <2>6
  <1> QED
    BY <1>7, <1>8, <1>9 DEF Kept, Handed

\* The folder of a push goes live.
LEMMA SetPromote ==
    ASSUME SetInv, LoneInv', NEW c \in Conn, Promote(c), c \in alone, PushStep(c)
    PROVE  Live' /\ last' = c /\ pc'[c] = "check_drop"
  <1>1. /\ TypeOK /\ LoneAt(c) /\ pc[c] = "promote" /\ pc'[c] # "raised"
        /\ want' = want
    <2>1. TypeOK /\ LoneAt(c)
      BY DEF SetInv, LoneInv
    <2>2. alone' = alone /\ want' = want
      BY <2>1, PushStepFrame
    <2> QED
      BY <2>1, <2>2 DEF LoneInv, LoneAt, Promote
  <1>2. "new" \in there /\ held["new"] = Folder(c)
    BY <1>1 DEF LoneAt, LoneDisk, Working
  <1>3. Rename("new", "cascaded") /\ last' = c /\ pc'[c] = "check_drop"
    BY <1>1 DEF Promote, Raise, Goto, TypeOK
  <1>4. "cascaded" \in there' /\ held'["cascaded"] = held["new"]
    BY <1>1, <1>3 DEF Rename, TypeOK, Dir
  <1>5. Folder(c)' = Folder(c)
    BY <1>1 DEF Folder
  <1> QED
    BY <1>2, <1>3, <1>4, <1>5 DEF Live, Folder

LEMMA SetNext == SetInv /\ [Next]_vars => SetInv'
  <1> SUFFICES ASSUME SetInv, [Next]_vars PROVE SetInv'
    OBVIOUS
  <1>1. LoneInv /\ LoneInv' /\ TypeOK /\ TypeOK'
    BY LoneNext DEF SetInv, LoneInv
  <1>2. /\ last' = last => (last # NoFile => Folder(last)' = Folder(last))
        /\ \A c \in Conn : pc[c] # "idle" => pc'[c] # "idle" /\ want'[c] = want[c]
    BY LastKept
  <1>3. last' = last => (last' # NoFile => pc'[last'] # "idle")
    BY <1>1, <1>2 DEF SetInv, TypeOK
  <1>4. ASSUME NEW c \in Conn, Accept(c) PROVE SetInv'
    <2>1. /\ UNCHANGED <<up, crashes, held, last, execVars>> /\ pc[c] = "idle"
          /\ there' = there \cup {"cascaded"} /\ pc' = [pc EXCEPT ![c] = "check_new"]
          /\ alone' = IF InFlight = {} THEN alone \cup {c} ELSE alone \ InFlight
      BY <1>4 DEF Accept, Goto
    <2>2. c \notin alone /\ pc'[c] = "check_new" /\ \A x \in Conn \ {c} : pc'[x] = pc[x]
      BY <1>1, <2>1 DEF LoneInv, LoneAt, TypeOK
    <2>3. \A x \in alone' : pc'[x] \in {"check_drop", "drop_old", "ack"} => last' = x
      BY <1>1, <2>1, <2>2 DEF SetInv, TypeOK
    <2>4. ASSUME Spared' PROVE Live' \/ Kept' \/ Handed'
      <3>1. InFlight = {}
        <4>1. c \in alone'
          BY <2>2, <2>4 DEF Spared
        <4> QED
          BY <2>1, <2>2, <4>1
      <3>2. Spared
        BY <1>2, <2>1, <2>2, <2>4, <3>1 DEF Spared
      <3>3. \A x \in Conn : pc[x] \notin Working
        BY <3>1 DEF InFlight
      <3>4. ~Handed /\ (Kept => crashes = 1)
        BY <3>3 DEF Handed, Kept, Working
      <3>5. Busy' <=> Busy
        BY <2>1 DEF Busy, execVars
      <3>6. Folder(last)' = Folder(last)
        BY <1>2, <2>1, <3>2 DEF Spared
      <3> QED
        BY <2>1, <3>2, <3>4, <3>5, <3>6 DEF SetInv, Live, Kept, Bare
    <2> QED
      BY <1>1, <1>3, <2>1, <2>3, <2>4 DEF SetInv
  <1>5. ASSUME NEW c \in Conn, PushStep(c) PROVE SetInv'
    <2>1. /\ pc[c] \in Working /\ pc' = [pc EXCEPT ![c] = pc'[c]]
          /\ UNCHANGED <<crashes, alone, want>>
      BY <1>1, <1>5, PushStepFrame
    <2>2. \A x \in Conn \ {c} : pc'[x] = pc[x]
      BY <1>1, <2>1 DEF TypeOK
    <2>3. c \in alone => InFlight = {c}
      BY <1>1, <2>1 DEF LoneInv, LoneAt
    <2>4. pc[c] # "idle" /\ pc'[c] # "idle"
      BY <1>2, <2>1 DEF Working
    <2>5. CASE last' = last /\ ~Promote(c)
      <3>1. \A x \in alone' : pc'[x] \in {"check_drop", "drop_old", "ack"} => last' = x
        <4>1. ASSUME c \in alone, pc'[c] \in {"check_drop", "drop_old", "ack"} PROVE last = c
          <5>1. pc[c] \in {"check_drop", "drop_old", "ack"}
            BY <1>1, <1>5, <2>1, <2>5, <4>1 DEF PushStep, CheckNew, ListIfThere, ClearNew, Unlink,
                  RemoveDir, MakeNew, WriteScript, CheckLive, CheckOld, ClearOld, Retire,
                  CheckDrop, DropOld, Ack, Raise, Goto, TypeOK
          <5> QED
            BY <4>1, <5>1 DEF SetInv
        <4> QED
          BY <1>1, <2>1, <2>2, <2>5, <4>1 DEF SetInv, TypeOK
      <3>2. ASSUME Spared' PROVE Live' \/ Kept' \/ Handed'
        <4>1. Spared /\ c \in alone
          BY <2>1, <2>2, <2>4, <2>5, <3>2 DEF Spared
        <4>2. Folder(last)' = Folder(last)
          BY <1>2, <2>5, <4>1 DEF Spared
        <4> QED
          BY <1>1, <1>5, <2>5, <4>1, <4>2, SetStep DEF SetInv, Spared
      <3> QED
        BY <1>1, <1>3, <2>5, <3>1, <3>2 DEF SetInv
    <2>6. CASE ~(last' = last /\ ~Promote(c))
      <3>1. Promote(c)
        BY <1>5, <2>6 DEF PushStep, CheckNew, ListIfThere, ClearNew, Unlink,
                  RemoveDir, MakeNew, WriteScript, CheckLive, CheckOld, ClearOld, Retire,
                  CheckDrop, DropOld, Ack, Raise
      <3>2. CASE c \in alone
        <4>1. Live' /\ last' = c /\ pc'[c] = "check_drop"
          BY <1>1, <1>5, <3>1, <3>2, SetPromote
        <4>2. \A x \in Conn \ {c} : pc'[x] \notin Working
          BY <2>2, <2>3, <3>2 DEF InFlight
        <4>3. \A x \in alone' : pc'[x] \in {"check_drop", "drop_old", "ack"} => last' = x
          BY <1>1, <4>1, <4>2 DEF Working, TypeOK
        <4> QED
          BY <1>1, <2>4, <4>1, <4>3 DEF SetInv
      <3>3. CASE c \notin alone
        <4>1. ~Spared'
          BY <2>1, <2>4, <3>3 DEF Spared
        <4>2. last' \in {c, last}
          BY <3>1 DEF Promote
        <4>3. \A x \in alone : pc[x] \notin Working
          BY <1>1, <2>1, <3>3 DEF LoneInv, LoneAt, InFlight, TypeOK
        <4>4. \A x \in alone' : pc'[x] \notin {"check_drop", "drop_old", "ack"}
          BY <1>1, <2>1, <2>2, <3>3, <4>3 DEF Working, TypeOK
        <4> QED
          BY <1>1, <1>3, <2>4, <4>1, <4>2, <4>4 DEF SetInv
      <3> QED
        BY <3>2, <3>3
    <2> QED
      BY <2>5, <2>6
  \* Everyone else leaves cascaded/ and cascaded.old/ alone.
  <1>6. ASSUME UNCHANGED <<held, last, alone, crashes, pc>>, there \subseteq there', Bare => Bare'
        PROVE  SetInv'
    <2>1. \A x \in alone' : pc'[x] \in {"check_drop", "drop_old", "ack"} => last' = x
      BY <1>1, <1>6 DEF SetInv, TypeOK
    <2>2. ASSUME Spared' PROVE Live' \/ Kept' \/ Handed'
      <3>1. Spared /\ Folder(last)' = Folder(last)
        BY <1>2, <1>6, <2>2 DEF Spared
      <3>2. CASE Live
        BY <1>6, <3>1, <3>2 DEF Live
      <3>3. CASE Kept
        BY <1>1, <1>6, <2>2, <3>1, <3>3 DEF Kept
      <3>4. CASE Handed
        BY <1>1, <1>6, <2>2, <3>1, <3>4 DEF Handed
      <3> QED
        BY <3>1, <3>2, <3>3, <3>4 DEF SetInv
    <2> QED
      BY <1>1, <1>3, <1>6, <2>1, <2>2 DEF SetInv
  <1>7. ASSUME NEW e \in Exec, ExecBegin(e) \/ ExecStep(e) PROVE SetInv'
    <2>1. UNCHANGED <<held, there, last, alone, crashes, pc>>
      BY <1>7 DEF ExecBegin, ExecStep, Look, Start, ScriptExit, disk, pushVars
    <2>2. Bare => Bare'
      BY <1>1, <1>7, BareExec
    <2> QED
      BY <1>6, <2>1, <2>2
  <1>8. CASE Crash
    <2>1. UNCHANGED <<held, there, last, alone, at>> /\ crashes' = crashes + 1 /\ crashes \in Nat
      BY <1>1, <1>8 DEF Crash, disk, TypeOK, ConstantsOK
    <2>2. Bare => Bare'
      BY <1>8, <2>1 DEF Crash, Bare, Busy
    <2>3. \A x \in Conn : pc'[x] = pc[x] \/ (pc'[x] = "killed" /\ pc[x] # "idle")
      BY <1>8 DEF Crash, InFlight, Working
    <2>4. ASSUME Spared' PROVE Live' \/ Kept' \/ Handed'
      <3>1. crashes = 0 /\ crashes' = 1
        BY <2>1, <2>4 DEF Spared
      <3>2. Spared /\ Folder(last)' = Folder(last)
        BY <1>2, <2>1, <2>3, <2>4, <3>1 DEF Spared
      <3>3. ~Handed
        BY <3>1 DEF Handed
      <3> QED
        BY <2>1, <2>2, <3>1, <3>2, <3>3 DEF SetInv, Live, Kept
    <2>5. \A x \in alone' : pc'[x] \in {"check_drop", "drop_old", "ack"} => last' = x
      BY <1>1, <2>1, <2>3 DEF SetInv, TypeOK
    <2> QED
      BY <1>1, <1>3, <2>1, <2>4, <2>5 DEF SetInv
  <1>9. CASE Restart
    <2>1. /\ UNCHANGED <<held, last, alone, crashes, pc, epc, at>>
          /\ there \subseteq there'
      BY <1>9 DEF Restart, pushVars, execVars
    <2> QED
      BY <1>6, <2>1 DEF Bare, Busy
  <1>10. CASE UNCHANGED vars
    <2>1. UNCHANGED <<held, last, alone, crashes, pc, epc, at, there>>
      BY <1>10 DEF vars, disk, pushVars, execVars
    <2> QED
      BY <1>6, <2>1 DEF Bare, Busy
  <1> QED
    BY <1>4, <1>5, <1>7, <1>8, <1>9, <1>10 DEF Next

LEMMA SetInit == Init => SetInv
  BY LoneInit DEF Init, SetInv, Spared

\* apply_sync_push keeps cascaded.old/ until the new folder is in place: with
\* pushes that never overlap, and whichever moment the agent dies at, a whole
\* set of scripts is on the disk.
THEOREM OneCrashIsSurvived == Spec => []OneCrashKeepsASet
  <1>1. SetInv => OneCrashKeepsASet
    <2> SUFFICES ASSUME SetInv, Spared, ~Live, ~Kept
                 PROVE  \E c \in Conn : /\ pc[c] \in {"clear_old", "retire", "promote"}
                                        /\ "new" \in there /\ held["new"] = Folder(c)
      BY DEF OneCrashKeepsASet, Spared, Live, Kept
    <2>1. PICK c \in Conn : pc[c] \in {"clear_old", "retire", "promote"}
      BY DEF SetInv, Handed
    <2>2. c \in alone
      BY <2>1 DEF Spared
    <2>3. LoneDisk(c)
      BY <2>2 DEF SetInv, LoneInv, LoneAt
    <2> QED
      BY <2>1, <2>3 DEF LoneDisk
  <1> QED
    BY <1>1, SetInit, SetNext, PTL DEF Spec

=============================================================================
