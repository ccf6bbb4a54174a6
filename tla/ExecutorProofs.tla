--------------------------- MODULE ExecutorProofs ---------------------------
(***************************************************************************)
(* What is proved of Executor for every set of requests and every kind of  *)
(* script: its types; that in-process runs which never went on while a     *)
(* later one was under way leave the agent its environment and its         *)
(* streams, show every script exactly its own environment, and keep its    *)
(* lines out of newer runs' way; and, however the runs overlap, why a      *)
(* request is never answered, what an environment is built from, and when  *)
(* an elevated child misses its env file.                                  *)
(***************************************************************************)
EXTENDS Executor, TLAPS

-----------------------------------------------------------------------------
(* Types.                                                                  *)

LEMMA KeysType == \A e : Keys(e) \in SUBSET Key
  BY DEF Keys

LEMMA EnvType == HostEnv \in Env /\ Empty \in Env
  BY DEF HostEnv, Empty, Env, Val

LEMMA UpdateEnv ==
    ASSUME NEW e \in Env, NEW k \in Key, NEW v \in Val
    PROVE  [e EXCEPT ![k] = v] \in Env
  BY DEF Env

LEMMA TypeInit == Init => TypeOK
  <1> SUFFICES ASSUME Init PROVE TypeOK
    OBVIOUS
  <1>1. environ \in Env /\ stdout \in Req \cup {Host}
    BY EnvType DEF Init
  <1>2. env \in [Req -> Env] /\ saved \in [Req -> Env]
    BY EnvType DEF Init
  <1>3. pc \in [Req -> Stage] /\ kind \in [Req -> Kind]
    BY DEF Init, Stage, Kind
  <1>4. /\ savedOut \in [Req -> Req \cup {Host}]
        /\ todo \in [Req -> SUBSET Key] /\ pick \in [Req -> Key \cup {Unset}]
        /\ out \in [Req -> SUBSET Req]
    BY DEF Init
  <1>5. fault \in [Req -> Fault \cup {"none"}] /\ envFile \subseteq Req /\ torn \subseteq Req
    BY DEF Init
  <1>6. kid \in [Req -> {"none", "starting", "running", "ended", "failed"}]
    BY DEF Init
  <1>7. depth \in [Req -> Int] /\ deep \in Int
    BY DEF Init
  <1>8. mixed \in BOOLEAN
    BY DEF Init
  <1> QED
    BY <1>1, <1>2, <1>3, <1>4, <1>5, <1>6, <1>7, <1>8 DEF TypeOK

\* What PopItem and SetItem do to the types.
LEMMA PopItemType ==
    ASSUME TypeOK, NEW r \in Req, NEW stage, NEW next \in Stage, NEW target,
           PopItem(r, stage, next, target)
    PROVE  TypeOK'
  <1> USE DEF PopItem
  <1>1. environ' \in Env
    <2>1. Unset \in Val
      BY DEF Val
    <2>2. CASE pick[r] = Unset
      BY <2>2 DEF TypeOK
    <2>3. CASE pick[r] # Unset
      BY <2>1, <2>3, UpdateEnv DEF TypeOK
    <2> QED
      BY <2>2, <2>3
  <1>2. pc' \in [Req -> Stage]
    BY DEF TypeOK, Goto
  <1>3. todo' \in [Req -> SUBSET Key]
    BY KeysType DEF TypeOK
  <1>4. pick' \in [Req -> Key \cup {Unset}]
    BY DEF TypeOK, Keys
  <1> QED
    BY <1>1, <1>2, <1>3, <1>4 DEF TypeOK, child, Step

LEMMA SetItemType ==
    ASSUME TypeOK, NEW r \in Req, NEW stage, NEW source \in Env,
           SetItem(r, stage, source)
    PROVE  TypeOK'
  <1>1. environ' \in Env
    <2> PICK k \in todo[r] : environ' = [environ EXCEPT ![k] = source[k]]
      BY DEF SetItem
    <2> k \in Key /\ source[k] \in Val
      BY DEF TypeOK, Env
    <2> QED
      BY UpdateEnv DEF TypeOK
  <1>2. todo' \in [Req -> SUBSET Key]
    BY DEF SetItem, TypeOK
  <1>3. mixed' \in BOOLEAN
    BY DEF SetItem, TypeOK, Step
  <1>4. UNCHANGED <<stdout, pc, kind, env, saved, savedOut, pick, fault, out,
                    kid, envFile, depth, deep, torn>>
    BY DEF SetItem, child
  <1> QED
    BY <1>1, <1>2, <1>3, <1>4 DEF TypeOK

LEMMA InProcessType == ASSUME TypeOK, NEW r \in Req, InProcess(r) PROVE TypeOK'
  <1> USE DEF own, global, child, nesting, Goto, Step, Leave, Stage
  <1>1. CASE SaveList(r)
    BY <1>1, KeysType DEF SaveList, TypeOK
  <1>2. CASE SaveRead(r)
    <2> PICK k \in todo[r] :
           IF environ[k] # Unset
           THEN /\ saved' = [saved EXCEPT ![r][k] = environ[k]]
                /\ todo'  = [todo EXCEPT ![r] = @ \ {k}]
                /\ Step(r)
                /\ UNCHANGED <<pc, depth, deep>>
           ELSE Goto(r, "raised") /\ Leave(r) /\ UNCHANGED <<saved, todo>>
      BY <1>2 DEF SaveRead
    <2>1. k \in Key /\ environ[k] \in Val
      BY DEF TypeOK, Env
    <2>2. [saved[r] EXCEPT ![k] = environ[k]] \in Env
      BY <2>1, UpdateEnv DEF TypeOK
    <2>3. saved' \in [Req -> Env]
      BY <2>2 DEF TypeOK
    <2>4. pc' \in [Req -> Stage] /\ todo' \in [Req -> SUBSET Key]
      BY DEF TypeOK
    <2>5. depth' \in [Req -> Int] /\ deep' \in Int
      BY DEF TypeOK
    <2>7. mixed' \in BOOLEAN
      BY DEF TypeOK
    <2>6. UNCHANGED <<environ, stdout, kind, env, savedOut, pick, fault, out,
                      kid, envFile, torn>>
      BY <1>2 DEF SaveRead
    <2> QED
      BY <2>3, <2>4, <2>5, <2>6, <2>7 DEF TypeOK
  <1>3. CASE SaveStream(r)
    BY <1>3 DEF SaveStream, TypeOK, Copiers
  <1>4. CASE Clear(r)
    BY <1>4, PopItemType DEF Clear
  <1>5. CASE Update(r)
    BY <1>5, SetItemType DEF Update, TypeOK
  <1>6. CASE Redirect(r)
    BY <1>6 DEF Redirect, TypeOK
  <1>7. CASE Write(r)
    BY <1>7 DEF Write, TypeOK
  <1>8. CASE ScriptEnds(r)
    BY <1>8 DEF ScriptEnds, TypeOK, Fault
  <1>9. CASE RestoreStream(r)
    BY <1>9 DEF RestoreStream, TypeOK, Copiers
  <1>10. CASE ReClear(r)
    BY <1>10, PopItemType DEF ReClear
  <1>11. CASE ReUpdate(r)
    BY <1>11, SetItemType DEF ReUpdate, TypeOK
  <1>12. CASE Restored(r)
    BY <1>12 DEF Restored, TypeOK
  <1>13. CASE Refuse(r)
    BY <1>13 DEF Refuse, TypeOK, Fault
  <1> QED
    BY <1>1, <1>2, <1>3, <1>4, <1>5, <1>6, <1>7, <1>8, <1>9, <1>10, <1>11,
       <1>12, <1>13 DEF InProcess

LEMMA OtherType ==
    ASSUME TypeOK, NEW r \in Req, Accept(r) \/ Build(r) \/ Built(r) \/ InChild(r)
    PROVE  TypeOK'
  <1> USE DEF own, global, child, nesting, Goto, Stage
  <1>1. CASE Accept(r)
    <2>1. Allowed[r] \subseteq Kind
      BY AllowedOK
    <2>2. kind' \in [Req -> Kind]
      BY <1>1, <2>1 DEF Accept, TypeOK
    <2>3. todo' \in [Req -> SUBSET Key]
      BY <1>1, KeysType DEF Accept, TypeOK
    <2>4. torn' \subseteq Req
      BY <1>1 DEF Accept, TypeOK
    <2>5. pc' \in [Req -> Stage]
      BY <1>1 DEF Accept, TypeOK
    <2>6. UNCHANGED <<global, env, saved, savedOut, pick, fault, out, child, nesting>>
      BY <1>1 DEF Accept
    <2> QED
      BY <2>2, <2>3, <2>4, <2>5, <2>6 DEF TypeOK
  <1>2. CASE Build(r)
    <2> PICK k \in todo[r] :
           IF environ[k] # Unset
           THEN /\ env'  = [env EXCEPT ![r][k] = IF k \in Keep THEN environ[k] ELSE Unset]
                /\ todo' = [todo EXCEPT ![r] = @ \ {k}]
                /\ UNCHANGED pc
           ELSE Goto(r, "raised") /\ UNCHANGED <<env, todo>>
      BY <1>2 DEF Build
    <2> DEFINE v == IF k \in Keep THEN environ[k] ELSE Unset
    <2>1. k \in Key /\ v \in Val
      BY DEF TypeOK, Env, Val
    <2>2. [env[r] EXCEPT ![k] = v] \in Env
      BY <2>1, UpdateEnv DEF TypeOK
    <2>3. env' \in [Req -> Env]
      BY <2>2 DEF TypeOK
    <2> QED
      BY <1>2, <2>3 DEF Build, TypeOK
  <1>3. CASE Built(r)
    <2>1. [env[r] EXCEPT !["param"] = r] \in Env
      BY UpdateEnv DEF TypeOK, Key, Val
    <2>2. env' \in [Req -> Env]
      BY <1>3, <2>1 DEF Built, TypeOK
    <2>3. kind[r] \in {"python", "native", "elevated"}
      BY DEF TypeOK, Kind
    <2>4. pc' \in [Req -> Stage]
      BY <1>3, <2>3 DEF Built, TypeOK
    <2> QED
      BY <1>3, <2>2, <2>4 DEF Built, TypeOK
  <1>4. CASE InChild(r)
    BY <1>4 DEF InChild, Spawn, ChildWrites, ChildEnds, ChildTimeout, Prepare, Approve,
                KidReads, KidEnds, PromptEnds, PromptTimeout, TypeOK, Fault
  <1> QED
    BY <1>1, <1>2, <1>3, <1>4

LEMMA TypeNext == TypeOK /\ [Next]_vars => TypeOK'
  <1> SUFFICES ASSUME TypeOK, [Next]_vars PROVE TypeOK'
    OBVIOUS
  <1>1. CASE UNCHANGED vars
    BY <1>1 DEF vars, global, own, child, nesting, TypeOK
  <1>2. CASE Next
    BY <1>2, InProcessType, OtherType DEF Next
  <1> QED
    BY <1>1, <1>2

\* Requests, environments, streams and children keep their types for any
\* requests and any scripts.
THEOREM ExecutorTypeCorrect == Spec => []TypeOK
  BY TypeInit, TypeNext, PTL DEF Spec

-----------------------------------------------------------------------------
(* The discipline of nested runs.                                          *)

\* An action leaves a request where it is, but for the end of its script,
\* and with what it has.
Still(q) == /\ pc'[q] = pc[q] \/ (pc[q] = "run" /\ pc'[q] = "restore")
            /\ todo'[q] = todo[q] /\ pick'[q] = pick[q]
            /\ env'[q] = env[q] /\ saved'[q] = saved[q]
            /\ savedOut'[q] = savedOut[q] /\ depth'[q] = depth[q]

\* A step of the newest run keeps the discipline if it stays under way,
\* keeps what it saved and has left what there is afterwards.
LEMMA TopStep ==
    ASSUME NestInv, TypeOK', ~mixed, NEW r \in Req, r \in Active, r \in Active',
           depth[r] = deep, deep' = deep, \A q \in Req \ {r} : Still(q),
           depth'[r] = depth[r], saved'[r] = saved[r], savedOut'[r] = savedOut[r],
           Left(r, environ, stdout)'
    PROVE  Nested' /\ Chain'
  <1> Nested /\ Chain /\ TypeOK
    BY DEF NestInv
  <1>1. Active' = Active
    BY DEF Active, Still
  <1>2. \A q \in Req : /\ depth'[q] = depth[q] /\ saved'[q] = saved[q]
                       /\ savedOut'[q] = savedOut[q]
    BY DEF Still
  <1>3. Nested'
    <2>1. deep' \in Nat /\ Active \subseteq Req
      BY DEF Nested, Active
    <2>2. \A q \in Req : depth'[q] <= deep' /\ (depth'[q] > 0 <=> q \in Active')
      BY <1>1, <1>2 DEF Nested
    <2>3. \A q, s \in Active' : depth'[q] = depth'[s] => q = s
      BY <1>1, <1>2, <2>1 DEF Nested
    <2>4. \A n \in 1 .. deep' : \E q \in Active' : depth'[q] = n
      BY <1>1, <1>2, <2>1 DEF Nested
    <2> QED
      BY <2>1, <2>2, <2>3, <2>4 DEF Nested
  <1>4. deep > 0
    BY DEF Nested
  <1>5. \A q \in Active' : depth'[q] = 1 => saved'[q] = HostEnv /\ savedOut'[q] = Host
    BY <1>1, <1>2 DEF Chain, Active
  <1>6. \A q \in Active : depth[q] = deep => q = r
    BY DEF Nested
  <1>7. ASSUME NEW q \in Active', NEW s \in Active', depth'[s] = depth'[q] + 1
        PROVE  Left(q, saved[s], savedOut[s])'
    <2>1. q \in Req /\ s \in Req /\ q \in Active /\ s \in Active
      BY <1>1 DEF Active
    <2>2. depth[s] = depth[q] + 1 /\ depth[s] <= deep /\ depth[q] \in Int
      BY <1>2, <1>7, <2>1 DEF Nested, TypeOK
    <2>3. depth[q] < deep /\ q # r
      BY <2>2 DEF Nested
    <2>4. Left(q, saved[s], savedOut[s])
      BY <2>1, <2>2 DEF Chain
    <2>5. Still(q)
      BY <2>1, <2>3
    <2> QED
      BY <1>2, <2>1, <2>4, <2>5 DEF Left, Still, Filled
  <1>8. ASSUME NEW q \in Active', depth'[q] = deep' PROVE Left(q, environ, stdout)'
    <2>1. q = r
      BY <1>1, <1>2, <1>6, <1>8 DEF Active
    <2> QED
      BY <2>1
  <1>9. Chain'
    BY <1>4, <1>5, <1>7, <1>8 DEF Chain, Nested
  <1> QED
    BY <1>3, <1>9

\* A step that leaves the environment, the streams and the runs alone.
LEMMA AsideStep ==
    ASSUME NestInv, ~mixed, Active' = Active, UNCHANGED <<environ, stdout, deep>>,
           \A q \in Req : depth'[q] = depth[q], \A q \in Active : Still(q)
    PROVE  Nested' /\ Chain'
  <1> Nested /\ Chain /\ TypeOK /\ Active \subseteq Req
    BY DEF NestInv, Active
  <1>1. Nested'
    <2>1. deep' \in Nat /\ deep' = deep
      BY DEF Nested
    <2>2. \A q \in Req : depth'[q] <= deep' /\ (depth'[q] > 0 <=> q \in Active')
      BY <2>1 DEF Nested
    <2>3. \A q, s \in Active' : depth'[q] = depth'[s] => q = s
      BY DEF Nested
    <2>4. \A n \in 1 .. deep' : \E q \in Active' : depth'[q] = n
      BY <2>1 DEF Nested
    <2> QED
      BY <2>1, <2>2, <2>3, <2>4 DEF Nested
  <1>2. ASSUME NEW q \in Active, depth'[q] = deep PROVE Left(q, environ, stdout)'
    BY <1>2 DEF Chain, Still, Left, Filled
  <1>3. ASSUME NEW q \in Active, NEW s \in Active, depth'[s] = depth'[q] + 1
        PROVE  Left(q, saved[s], savedOut[s])'
    <2>1. Left(q, saved[s], savedOut[s])
      BY <1>3 DEF Chain
    <2>2. Still(q) /\ Still(s)
      OBVIOUS
    <2> QED
      BY <2>1, <2>2 DEF Still, Left, Filled
  <1>4. \A q \in Active : depth'[q] = 1 => saved'[q] = HostEnv /\ savedOut'[q] = Host
    BY DEF Chain, Still
  <1> QED
    BY <1>1, <1>2, <1>3, <1>4 DEF Chain

\* popitem() of the newest run finds what it chose, so that clear() ends
\* with an empty environment.
LEMMA PopItemLeft ==
    ASSUME NestInv, TypeOK', ~mixed, NEW r \in Req, depth[r] = deep,
           NEW stage, NEW next, NEW target,
           PopItem(r, stage, next, target),
           \/ stage = "clear" /\ next = "update" /\ target = env[r]
           \/ stage = "reclear" /\ next = "reupdate" /\ target = saved[r]
    PROVE  Nested' /\ Chain' /\ NoPick'
  <1> Nested /\ Chain /\ TypeOK /\ NoPick
    BY DEF NestInv
  <1>1. r \in Active /\ pc[r] = stage
    BY DEF PopItem, Active
  <1>2. Left(r, environ, stdout)
    BY <1>1 DEF Chain
  <1>3. /\ pick[r] = Unset \/ environ[pick[r]] # Unset
        /\ stdout = savedOut[r]
    BY <1>1, <1>2 DEF Left
  <1>4. UNCHANGED <<stdout, env, saved, savedOut, depth, deep>>
    BY DEF PopItem
  <1>5. \A q \in Req \ {r} : Still(q)
    <2>1. \A q \in Req \ {r} : pc'[q] = pc[q]
      BY DEF PopItem, Goto, TypeOK
    <2>2. \A q \in Req \ {r} : todo'[q] = todo[q]
      BY DEF PopItem, TypeOK
    <2>3. \A q \in Req \ {r} : pick'[q] = pick[q]
      BY DEF PopItem, TypeOK
    <2> QED
      BY <1>4, <2>1, <2>2, <2>3 DEF Still
  <1>6. CASE pick[r] = Unset /\ Keys(environ) = {}
    <2>1. /\ pc' = [pc EXCEPT ![r] = next] /\ todo' = [todo EXCEPT ![r] = Keys(target)]
          /\ pick' = [pick EXCEPT ![r] = Unset] /\ environ' = environ
      BY <1>6 DEF PopItem, Goto
    <2>2. pc'[r] = next /\ todo'[r] = Keys(target) /\ pick'[r] = Unset
      BY <2>1 DEF TypeOK
    <2>3. \A k \in Key : environ'[k] = Unset
      BY <1>6, <2>1 DEF Keys
    <2>4. Filled(environ', todo'[r], target)
      BY <2>2, <2>3 DEF Filled, Keys
    <2>5. Left(r, environ, stdout)' /\ r \in Active'
      BY <1>3, <1>4, <2>2, <2>4 DEF Left, Active
    <2>6. NoPick'
      BY <1>5, <2>2 DEF NoPick, Still
    <2> QED
      BY <1>1, <1>4, <1>5, <2>5, <2>6, TopStep
  <1>7. CASE pick[r] = Unset /\ Keys(environ) # {}
    <2>1. PICK k \in Keys(environ) : pick' = [pick EXCEPT ![r] = k]
      BY <1>7 DEF PopItem
    <2>2. environ' = environ /\ pc' = pc /\ todo' = todo
      BY <1>7 DEF PopItem
    <2>3. pick'[r] = k /\ environ[k] # Unset
      BY <2>1 DEF TypeOK, Keys
    <2>4. Left(r, environ, stdout)' /\ r \in Active'
      BY <1>1, <1>3, <1>4, <2>2, <2>3 DEF Left, Active
    <2>5. NoPick'
      BY <1>1, <1>5, <2>2 DEF NoPick, Still
    <2> QED
      BY <1>1, <1>4, <1>5, <2>4, <2>5, TopStep
  <1>8. CASE pick[r] # Unset
    <2>1. pick' = [pick EXCEPT ![r] = Unset] /\ pc' = pc /\ todo' = todo
      BY <1>3, <1>8 DEF PopItem
    <2>2. pick'[r] = Unset
      BY <2>1 DEF TypeOK
    <2>3. Left(r, environ, stdout)' /\ r \in Active'
      BY <1>1, <1>3, <1>4, <2>1, <2>2 DEF Left, Active
    <2>4. NoPick'
      BY <1>5, <2>1, <2>2 DEF NoPick, Still
    <2> QED
      BY <1>1, <1>4, <1>5, <2>3, <2>4, TopStep
  <1> QED
    BY <1>6, <1>7, <1>8

\* update() of the newest run.
LEMMA SetItemLeft ==
    ASSUME NestInv, TypeOK', ~mixed, NEW r \in Req, depth[r] = deep,
           NEW stage, NEW source,
           SetItem(r, stage, source),
           \/ stage = "update" /\ source = env[r]
           \/ stage = "reupdate" /\ source = saved[r]
    PROVE  Nested' /\ Chain' /\ NoPick'
  <1> Nested /\ Chain /\ TypeOK /\ NoPick
    BY DEF NestInv
  <1>1. r \in Active /\ pc[r] = stage
    BY DEF SetItem, Active
  <1>2. Left(r, environ, stdout)
    BY <1>1 DEF Chain
  <1>3. UNCHANGED <<stdout, pc, env, saved, savedOut, pick, depth, deep>>
    BY DEF SetItem
  <1>4. PICK k \in todo[r] : /\ environ' = [environ EXCEPT ![k] = source[k]]
                             /\ todo' = [todo EXCEPT ![r] = @ \ {k}]
    BY DEF SetItem
  <1>5. \A q \in Req \ {r} : Still(q)
    <2>1. \A q \in Req \ {r} : todo'[q] = todo[q]
      BY <1>4 DEF TypeOK
    <2> QED
      BY <1>3, <2>1 DEF Still
  <1>6. todo'[r] = todo[r] \ {k} /\ k \in Key
    BY <1>4 DEF TypeOK
  <1>7. Filled(environ, todo[r], source)
    BY <1>1, <1>2 DEF Left
  <1>8. Filled(environ', todo'[r], source)
    BY <1>4, <1>6, <1>7 DEF Filled, TypeOK, Env
  <1>9. Left(r, environ, stdout)' /\ r \in Active'
    BY <1>1, <1>2, <1>3, <1>8 DEF Left, Active
  <1>10. NoPick'
    BY <1>3 DEF NoPick
  <1> QED
    BY <1>1, <1>3, <1>5, <1>9, <1>10, TopStep

\* A run starts on top of the others.
LEMMA StartStep ==
    ASSUME NestInv, TypeOK', ~mixed, NEW r \in Req, SaveList(r)
    PROVE  Nested' /\ Chain' /\ NoPick'
  <1> Nested /\ Chain /\ TypeOK /\ NoPick /\ Active \subseteq Req
    BY DEF NestInv, Active
  <1>1. /\ pc[r] = "start" /\ pc'[r] = "save" /\ depth'[r] = deep + 1
        /\ saved'[r] = environ /\ savedOut'[r] = stdout /\ pick'[r] = pick[r]
        /\ deep' = deep + 1 /\ environ' = environ /\ stdout' = stdout
    BY DEF SaveList, Goto, global, TypeOK
  <1>2. \A q \in Req \ {r} : Still(q)
    <2>1. \A q \in Req \ {r} : pc'[q] = pc[q] /\ todo'[q] = todo[q]
      BY DEF SaveList, Goto, TypeOK
    <2>2. \A q \in Req \ {r} : saved'[q] = saved[q] /\ savedOut'[q] = savedOut[q]
      BY DEF SaveList, TypeOK
    <2>3. \A q \in Req \ {r} : depth'[q] = depth[q]
      BY DEF SaveList, TypeOK
    <2>4. env' = env /\ pick' = pick
      BY DEF SaveList
    <2> QED
      BY <2>1, <2>2, <2>3, <2>4 DEF Still
  <1>3. r \notin Active /\ Active' = Active \cup {r}
    BY <1>1, <1>2 DEF Active, Still
  <1>4. \A q \in Active : q # r /\ depth'[q] = depth[q] /\ depth[q] \in 1 .. deep
    BY <1>2, <1>3 DEF Still, Nested, TypeOK
  <1>5. deep \in Nat
    BY DEF Nested
  <1>6. Nested'
    <2>1. deep' \in Nat
      BY <1>1, <1>5
    <2>2. ASSUME NEW q \in Req
          PROVE  depth'[q] <= deep' /\ (depth'[q] > 0 <=> q \in Active')
      <3>1. CASE q = r
        BY <1>1, <1>3, <1>5, <3>1
      <3>2. CASE q # r
        <4>1. depth'[q] = depth[q] /\ depth[q] <= deep /\ depth[q] \in Int
          BY <1>2, <3>2 DEF Still, Nested, TypeOK
        <4>2. depth[q] > 0 <=> q \in Active
          BY DEF Nested
        <4> QED
          BY <1>1, <1>3, <1>5, <3>2, <4>1, <4>2
      <3> QED
        BY <3>1, <3>2
    <2>3. \A q, s \in Active' : depth'[q] = depth'[s] => q = s
      BY <1>1, <1>3, <1>4, <1>5 DEF Nested
    <2>4. ASSUME NEW n \in 1 .. deep' PROVE \E q \in Active' : depth'[q] = n
      <3>1. CASE n = deep + 1
        BY <1>1, <1>3, <3>1
      <3>2. CASE n # deep + 1
        <4>1. n \in 1 .. deep
          BY <1>1, <1>5, <3>2
        <4> QED
          BY <1>3, <1>4, <4>1 DEF Nested
      <3> QED
        BY <3>1, <3>2
    <2> QED
      BY <2>1, <2>2, <2>3, <2>4 DEF Nested
  <1>7. Left(r, environ, stdout)'
    BY <1>1 DEF Left
  <1>8. \A q \in Active' : depth'[q] = 1 => saved'[q] = HostEnv /\ savedOut'[q] = Host
    <2>1. \A q \in Active : depth'[q] = 1 => saved'[q] = HostEnv /\ savedOut'[q] = Host
      BY <1>2, <1>4 DEF Chain, Still
    <2>2. depth'[r] = 1 => saved'[r] = HostEnv /\ savedOut'[r] = Host
      BY <1>1, <1>5 DEF Chain
    <2> QED
      BY <1>3, <2>1, <2>2
  <1>9. ASSUME NEW q \in Active', depth'[q] = deep' PROVE Left(q, environ, stdout)'
    <2>1. q = r
      BY <1>1, <1>3, <1>4, <1>5, <1>9
    <2> QED
      BY <1>7, <2>1
  <1>10. ASSUME NEW q \in Active', NEW s \in Active', depth'[s] = depth'[q] + 1
         PROVE  Left(q, saved[s], savedOut[s])'
    <2>1. q \in Active
      <3>1. q # r
        BY <1>1, <1>3, <1>4, <1>5, <1>10
      <3> QED
        BY <1>3, <3>1
    <2>2. Still(q) /\ depth'[q] = depth[q]
      BY <1>2, <1>4, <2>1
    <2>3. CASE s = r
      <3>1. depth[q] = deep
        BY <1>1, <1>4, <1>5, <1>10, <2>1, <2>3
      <3>2. Left(q, environ, stdout)
        BY <2>1, <3>1 DEF Chain
      <3> QED
        BY <1>1, <2>2, <2>3, <3>2 DEF Left, Still, Filled
    <2>4. CASE s # r
      <3>1. s \in Active /\ Still(s) /\ depth[s] = depth[q] + 1
        BY <1>2, <1>3, <1>4, <1>10, <2>1, <2>4
      <3>2. Left(q, saved[s], savedOut[s])
        BY <2>1, <3>1 DEF Chain
      <3> QED
        BY <2>2, <3>1, <3>2 DEF Left, Still, Filled
    <2> QED
      BY <2>3, <2>4
  <1>11. deep' # 0
    BY <1>1, <1>5
  <1>12. NoPick'
    BY <1>1, <1>2 DEF NoPick, Still
  <1> QED
    BY <1>6, <1>8, <1>9, <1>10, <1>11, <1>12 DEF Chain

\* The newest run leaves, with everything as it saved it.
LEMMA LeaveStep ==
    ASSUME NestInv, ~mixed, NEW r \in Active, depth[r] = deep,
           depth' = [depth EXCEPT ![r] = 0], deep' = deep - 1,
           Active' = Active \ {r}, \A q \in Active \ {r} : Still(q),
           environ' = saved[r], stdout' = savedOut[r]
    PROVE  Nested' /\ Chain'
  <1> Nested /\ Chain /\ TypeOK /\ Active \subseteq Req
    BY DEF NestInv, Active
  <1>1. deep \in Nat /\ deep >= 1
    BY DEF Nested
  <1>2. depth'[r] = 0 /\ \A q \in Req \ {r} : depth'[q] = depth[q]
    BY DEF TypeOK
  <1>3. \A q \in Active \ {r} : depth[q] \in 1 .. deep - 1
    BY <1>1 DEF Nested, TypeOK
  <1>4. Nested'
    <2>1. deep' \in Nat
      BY <1>1
    <2>2. ASSUME NEW q \in Req
          PROVE  depth'[q] <= deep' /\ (depth'[q] > 0 <=> q \in Active')
      <3>1. CASE q = r
        BY <1>1, <1>2, <3>1
      <3>2. CASE q \in Active \ {r}
        BY <1>1, <1>2, <1>3, <3>2
      <3>3. CASE q \notin Active
        BY <1>1, <1>2, <3>3 DEF Nested, TypeOK
      <3> QED
        BY <3>1, <3>2, <3>3
    <2>3. \A q, s \in Active' : depth'[q] = depth'[s] => q = s
      BY <1>2 DEF Nested
    <2>4. ASSUME NEW n \in 1 .. deep' PROVE \E q \in Active' : depth'[q] = n
      <3>1. n \in 1 .. deep /\ n # deep
        BY <1>1
      <3> QED
        BY <1>2, <3>1 DEF Nested
    <2> QED
      BY <2>1, <2>2, <2>3, <2>4 DEF Nested
  <1>5. ASSUME deep' = 0 PROVE environ' = HostEnv /\ stdout' = Host
    <2>1. depth[r] = 1
      BY <1>1, <1>5
    <2> QED
      BY <2>1 DEF Chain
  <1>6. \A q \in Active' : depth'[q] = 1 => saved'[q] = HostEnv /\ savedOut'[q] = Host
    BY <1>2 DEF Chain, Still
  <1>7. ASSUME NEW q \in Active', depth'[q] = deep' PROVE Left(q, environ, stdout)'
    <2>1. q \in Active \ {r} /\ depth[r] = depth[q] + 1
      BY <1>1, <1>2, <1>7
    <2>2. Left(q, saved[r], savedOut[r])
      BY <2>1 DEF Chain
    <2> QED
      BY <2>1, <2>2 DEF Left, Still, Filled
  <1>8. ASSUME NEW q \in Active', NEW s \in Active', depth'[s] = depth'[q] + 1
        PROVE  Left(q, saved[s], savedOut[s])'
    <2>1. /\ q \in Active \ {r} /\ s \in Active \ {r}
          /\ depth[s] = depth[q] + 1 /\ Still(q) /\ Still(s)
      BY <1>2, <1>8
    <2>2. Left(q, saved[s], savedOut[s])
      BY <2>1 DEF Chain
    <2> QED
      BY <2>1, <2>2 DEF Left, Still, Filled
  <1> QED
    BY <1>4, <1>5, <1>6, <1>7, <1>8 DEF Chain

\* Each step of an in-process run.
LEMMA InProcessNests ==
    ASSUME NestInv, TypeOK', NEW r \in Req, InProcess(r), ~mixed'
    PROVE  Nested' /\ Chain' /\ NoPick'
  <1> TypeOK /\ NoPick
    BY DEF NestInv
  <1>1. CASE SaveList(r)
    <2>1. ~mixed
      BY <1>1 DEF SaveList
    <2> QED
      BY <1>1, <2>1, StartStep
  <1>2. CASE SaveRead(r)
    <2>1. ~mixed /\ depth[r] = deep
      BY <1>2 DEF SaveRead, Step, Leave
    <2>2. r \in Active /\ pc[r] = "save" /\ Left(r, environ, stdout)
      BY <1>2, <2>1 DEF SaveRead, Active, NestInv, Chain
    <2>3. environ = saved[r] /\ stdout = savedOut[r]
      BY <2>2 DEF Left
    <2>4. UNCHANGED <<environ, stdout, env, savedOut, pick>>
      BY <1>2 DEF SaveRead, global
    <2>5. PICK k \in todo[r] :
             IF environ[k] # Unset
             THEN /\ saved' = [saved EXCEPT ![r][k] = environ[k]]
                  /\ todo'  = [todo EXCEPT ![r] = @ \ {k}]
                  /\ Step(r)
                  /\ UNCHANGED <<pc, depth, deep>>
             ELSE Goto(r, "raised") /\ Leave(r) /\ UNCHANGED <<saved, todo>>
      BY <1>2 DEF SaveRead
    <2>6. CASE environ[k] # Unset
      <3>1. saved' = saved
        <4>1. saved' = [saved EXCEPT ![r] = [saved[r] EXCEPT ![k] = saved[r][k]]]
          BY <2>3, <2>5, <2>6
        <4>2. [saved[r] EXCEPT ![k] = saved[r][k]] = saved[r]
          BY DEF TypeOK, Env
        <4> QED
          BY <4>1, <4>2 DEF TypeOK
      <3>2. UNCHANGED <<pc, depth, deep>> /\ todo' = [todo EXCEPT ![r] = @ \ {k}]
        BY <2>5, <2>6
      <3>3. \A q \in Req \ {r} : todo'[q] = todo[q]
        BY <3>2 DEF TypeOK
      <3>4. \A q \in Req \ {r} : Still(q)
        BY <2>4, <3>1, <3>2, <3>3 DEF Still
      <3>5. r \in Active' /\ Left(r, environ, stdout)'
        BY <2>2, <2>3, <2>4, <3>1, <3>2 DEF Active, Left
      <3>6. NoPick'
        BY <2>4, <3>2 DEF NoPick
      <3> QED
        BY <2>1, <2>2, <2>4, <3>1, <3>2, <3>4, <3>5, <3>6, TopStep
    <2>7. CASE environ[k] = Unset
      <3>1. /\ pc' = [pc EXCEPT ![r] = "raised"] /\ UNCHANGED <<saved, todo>>
            /\ depth' = [depth EXCEPT ![r] = 0] /\ deep' = deep - 1
        BY <2>5, <2>7 DEF Goto, Leave
      <3>2. pc'[r] = "raised" /\ \A q \in Req \ {r} : pc'[q] = pc[q] /\ depth'[q] = depth[q]
        BY <3>1 DEF TypeOK
      <3>3. Active' = Active \ {r}
        BY <3>2 DEF Active
      <3>4. \A q \in Active \ {r} : Still(q)
        BY <2>4, <3>1, <3>2 DEF Still, Active
      <3>5. NoPick'
        BY <2>2, <2>4, <3>2 DEF NoPick
      <3> QED
        BY <2>1, <2>2, <2>3, <2>4, <3>1, <3>3, <3>4, <3>5, LeaveStep
    <2> QED
      BY <2>6, <2>7
  <1>3. CASE SaveStream(r)
    <2>1. ~mixed /\ depth[r] = deep
      BY <1>3 DEF SaveStream, Step
    <2>2. r \in Active /\ pc[r] = "save" /\ Left(r, environ, stdout)
      BY <1>3, <2>1 DEF SaveStream, Active, NestInv, Chain
    <2>3. stdout = savedOut[r] /\ pick[r] = Unset
      BY <2>2 DEF Left, NoPick
    <2>4. UNCHANGED <<environ, stdout, env, saved, todo, pick, depth, deep>>
      BY <1>3 DEF SaveStream, global
    <2>5. savedOut' = savedOut
      BY <1>3, <2>3 DEF SaveStream, TypeOK
    <2>6. pc'[r] = "clear" /\ \A q \in Req \ {r} : pc'[q] = pc[q]
      BY <1>3 DEF SaveStream, Goto, TypeOK
    <2>7. \A q \in Req \ {r} : Still(q)
      BY <2>4, <2>5, <2>6 DEF Still
    <2>8. r \in Active' /\ Left(r, environ, stdout)' /\ NoPick'
      BY <2>3, <2>4, <2>5, <2>6 DEF Active, Left, NoPick
    <2> QED
      BY <2>1, <2>2, <2>4, <2>5, <2>7, <2>8, TopStep
  <1>4. CASE Clear(r)
    <2>1. ~mixed /\ depth[r] = deep
      BY <1>4 DEF Clear, PopItem, Step
    <2> QED
      BY <1>4, <2>1, PopItemLeft DEF Clear
  <1>5. CASE Update(r)
    <2>1. ~mixed /\ depth[r] = deep
      BY <1>5 DEF Update, SetItem, Step
    <2> QED
      BY <1>5, <2>1, SetItemLeft DEF Update
  <1>6. CASE Redirect(r)
    <2>1. ~mixed /\ depth[r] = deep
      BY <1>6 DEF Redirect, Step
    <2>2. /\ r \in Active /\ pc[r] = "update" /\ todo[r] = {}
          /\ Left(r, environ, stdout)
      BY <1>6, <2>1 DEF Redirect, Active, NestInv, Chain
    <2>3. Filled(environ, {}, env[r])
      BY <2>2 DEF Left
    <2>4. environ = env[r]
      BY <2>3 DEF Filled, TypeOK, Env
    <2>5. /\ UNCHANGED <<environ, env, saved, savedOut, todo, pick, depth, deep>>
          /\ stdout' = r
      BY <1>6 DEF Redirect, own
    <2>6. pc'[r] = "run" /\ \A q \in Req \ {r} : pc'[q] = pc[q]
      BY <1>6 DEF Redirect, Goto, TypeOK
    <2>7. \A q \in Req \ {r} : Still(q)
      BY <2>5, <2>6 DEF Still
    <2>8. r \in Active' /\ Left(r, environ, stdout)' /\ NoPick'
      BY <2>2, <2>4, <2>5, <2>6 DEF Active, Left, NoPick
    <2> QED
      BY <2>1, <2>2, <2>5, <2>7, <2>8, TopStep
  <1>7. CASE Write(r) \/ ScriptEnds(r)
    <2>1. /\ UNCHANGED <<environ, stdout, env, saved, savedOut, todo, pick, depth,
                        deep, mixed>>
      BY <1>7 DEF Write, ScriptEnds, global, own, nesting
    <2>2. \A q \in Req : pc'[q] = pc[q] \/ (pc[q] = "run" /\ pc'[q] = "restore")
      BY <1>7 DEF Write, ScriptEnds, Goto, TypeOK
    <2>3. \A q \in Req : Still(q)
      BY <2>1, <2>2 DEF Still
    <2>4. Active' = Active /\ NoPick' /\ Active \subseteq Req
      BY <2>1, <2>2 DEF Active, NoPick
    <2> QED
      BY <2>1, <2>3, <2>4, AsideStep
  <1>8. CASE RestoreStream(r)
    <2>1. ~mixed /\ depth[r] = deep
      BY <1>8 DEF RestoreStream, Step
    <2>2. r \in Active /\ pc[r] \in {"undo", "restore"} /\ pick[r] = Unset
      BY <1>8 DEF RestoreStream, Active, NoPick
    <2>3. /\ UNCHANGED <<environ, env, saved, savedOut, todo, pick, depth, deep>>
          /\ stdout' = savedOut[r]
      BY <1>8 DEF RestoreStream, own
    <2>4. pc'[r] = "reclear" /\ \A q \in Req \ {r} : pc'[q] = pc[q]
      BY <1>8 DEF RestoreStream, Goto, TypeOK
    <2>5. \A q \in Req \ {r} : Still(q)
      BY <2>3, <2>4 DEF Still
    <2>6. r \in Active' /\ Left(r, environ, stdout)' /\ NoPick'
      BY <2>2, <2>3, <2>4 DEF Active, Left, NoPick
    <2> QED
      BY <2>1, <2>2, <2>3, <2>5, <2>6, TopStep
  <1>9. CASE ReClear(r)
    <2>1. ~mixed /\ depth[r] = deep
      BY <1>9 DEF ReClear, PopItem, Step
    <2> QED
      BY <1>9, <2>1, PopItemLeft DEF ReClear
  <1>10. CASE ReUpdate(r)
    <2>1. ~mixed /\ depth[r] = deep
      BY <1>10 DEF ReUpdate, SetItem, Step
    <2> QED
      BY <1>10, <2>1, SetItemLeft DEF ReUpdate
  <1>11. CASE Restored(r)
    <2>1. ~mixed /\ depth[r] = deep
      BY <1>11 DEF Restored, Leave, Step
    <2>2. /\ r \in Active /\ pc[r] = "reupdate" /\ todo[r] = {}
          /\ Left(r, environ, stdout)
      BY <1>11, <2>1 DEF Restored, Active, NestInv, Chain
    <2>3. Filled(environ, {}, saved[r]) /\ stdout = savedOut[r]
      BY <2>2 DEF Left
    <2>4. environ = saved[r]
      BY <2>3 DEF Filled, TypeOK, Env
    <2>5. /\ UNCHANGED <<environ, stdout, env, saved, savedOut, todo, pick>>
          /\ depth' = [depth EXCEPT ![r] = 0] /\ deep' = deep - 1
      BY <1>11 DEF Restored, global, own, Leave
    <2>6. /\ pc'[r] \in {"raised", "answered"}
          /\ \A q \in Req \ {r} : pc'[q] = pc[q] /\ depth'[q] = depth[q]
      BY <1>11, <2>5 DEF Restored, Goto, TypeOK
    <2>7. Active' = Active \ {r}
      BY <2>6 DEF Active
    <2>8. \A q \in Active \ {r} : Still(q)
      BY <2>5, <2>6 DEF Still, Active
    <2>9. NoPick'
      BY <2>2, <2>5, <2>6 DEF NoPick
    <2> QED
      BY <2>1, <2>2, <2>3, <2>4, <2>5, <2>7, <2>8, <2>9, LeaveStep
  <1>12. CASE Refuse(r)
    <2>1. ~mixed /\ depth[r] = deep
      BY <1>12 DEF Refuse, Step
    <2>2. /\ r \in Active /\ pc[r] = "update" /\ pick[r] = Unset
          /\ Left(r, environ, stdout)
      BY <1>12, <2>1 DEF Refuse, Active, NestInv, Chain, NoPick
    <2>3. stdout = savedOut[r]
      BY <2>2 DEF Left
    <2>4. UNCHANGED <<environ, stdout, env, saved, savedOut, todo, pick, depth, deep>>
      BY <1>12 DEF Refuse, global
    <2>5. pc'[r] = "undo" /\ \A q \in Req \ {r} : pc'[q] = pc[q]
      BY <1>12 DEF Refuse, Goto, TypeOK
    <2>6. \A q \in Req \ {r} : Still(q)
      BY <2>4, <2>5 DEF Still
    <2>7. r \in Active' /\ Left(r, environ, stdout)' /\ NoPick'
      BY <2>2, <2>3, <2>4, <2>5 DEF Active, Left, NoPick
    <2> QED
      BY <2>1, <2>2, <2>4, <2>6, <2>7, TopStep
  <1> QED
    BY <1>1, <1>2, <1>3, <1>4, <1>5, <1>6, <1>7, <1>8, <1>9, <1>10, <1>11, <1>12
       DEF InProcess

\* The other steps concern no run that is under way.
LEMMA OtherNests ==
    ASSUME NestInv, NEW r \in Req, ~mixed',
           Accept(r) \/ Build(r) \/ Built(r) \/ InChild(r)
    PROVE  Nested' /\ Chain'
  <1> TypeOK /\ Active \subseteq Req
    BY DEF NestInv, Active
  <1>1. /\ UNCHANGED <<environ, stdout, saved, savedOut, pick, depth, deep, mixed>>
        /\ \A q \in Req \ {r} : pc'[q] = pc[q] /\ todo'[q] = todo[q] /\ env'[q] = env[q]
        /\ pc'[r] = pc[r] \/ (r \notin Active /\ r \notin Active')
        /\ r \in Active => todo'[r] = todo[r] /\ env'[r] = env[r]
    <2> USE DEF global, own, child, nesting, Goto
    <2>1. CASE Accept(r)
      BY <2>1 DEF Accept, TypeOK, Active
    <2>2. CASE Build(r)
      <3>1. pc[r] = "build" /\ pc'[r] \in {"build", "raised"}
        BY <2>2 DEF Build, TypeOK
      <3>2. r \notin Active /\ r \notin Active'
        BY <3>1 DEF Active
      <3> QED
        BY <2>2, <3>2 DEF Build, TypeOK
    <2>3. CASE Built(r)
      <3>1. kind[r] \in {"python", "native", "elevated"}
        BY DEF TypeOK, Kind
      <3>2. pc[r] = "build" /\ pc'[r] \in {"start", "spawn", "prepare"}
        BY <2>3, <3>1 DEF Built, TypeOK
      <3>3. r \notin Active /\ r \notin Active'
        BY <3>2 DEF Active
      <3> QED
        BY <2>3, <3>3 DEF Built, TypeOK
    <2>4. CASE \/ Spawn(r) \/ ChildWrites(r) \/ ChildEnds(r) \/ ChildTimeout(r)
               \/ Prepare(r) \/ PromptEnds(r) \/ PromptTimeout(r)
      <3>1. /\ pc[r] \in {"spawn", "child", "prepare", "prompt"}
            /\ pc'[r] \in {"child", "answered", "prompt", "raised"}
        BY <2>4 DEF Spawn, ChildWrites, ChildEnds, ChildTimeout, Prepare, PromptEnds,
                    PromptTimeout, TypeOK
      <3>2. r \notin Active /\ r \notin Active'
        BY <3>1 DEF Active
      <3> QED
        BY <2>4, <3>2 DEF Spawn, ChildWrites, ChildEnds, ChildTimeout, Prepare,
                          PromptEnds, PromptTimeout, TypeOK
    <2>5. CASE Approve(r) \/ KidReads(r) \/ KidEnds(r)
      BY <2>5 DEF Approve, KidReads, KidEnds
    <2> QED
      BY <2>1, <2>2, <2>3, <2>4, <2>5 DEF InChild
  <1>2. Active' = Active
    BY <1>1 DEF Active
  <1>3. \A q \in Active : Still(q)
    <2> TAKE q \in Active
    <2>1. pc'[q] = pc[q] /\ todo'[q] = todo[q] /\ env'[q] = env[q]
      BY <1>1, <1>2
    <2> QED
      BY <1>1, <2>1 DEF Still
  <1> QED
    BY <1>1, <1>2, <1>3, AsideStep

LEMMA OtherNoPick ==
    ASSUME NestInv, NEW r \in Req, Accept(r) \/ Build(r) \/ Built(r) \/ InChild(r)
    PROVE  NoPick'
  <1> USE DEF global, own, child, nesting, Goto, NestInv
  <1>1. pick' = pick
    BY DEF Accept, Build, Built, InChild, Spawn, ChildWrites, ChildEnds, ChildTimeout,
           Prepare, Approve, KidReads, KidEnds, PromptEnds, PromptTimeout
  <1>2. \A q \in Req : pc'[q] = pc[q] \/ pc[q] \notin {"clear", "reclear"}
    BY DEF Accept, Build, Built, InChild, Spawn, ChildWrites, ChildEnds, ChildTimeout,
           Prepare, Approve, KidReads, KidEnds, PromptEnds, PromptTimeout, TypeOK
  <1> QED
    BY <1>1, <1>2 DEF NoPick

LEMMA InProcessNoPick == ASSUME NestInv, NEW r \in Req, InProcess(r) PROVE NoPick'
  <1> USE DEF global, own, child, nesting, Goto
  <1> TypeOK /\ NoPick
    BY DEF NestInv
  <1>1. ASSUME NEW stage \in {"clear", "reclear"}, NEW next, NEW target,
               PopItem(r, stage, next, target)
        PROVE  NoPick'
    <2>1. \A q \in Req \ {r} : pc'[q] = pc[q] /\ pick'[q] = pick[q]
      BY <1>1 DEF PopItem, TypeOK
    <2>2. pc'[r] = pc[r] \/ pick'[r] = Unset
      BY <1>1 DEF PopItem, TypeOK
    <2>3. pc[r] \in {"clear", "reclear"}
      BY <1>1 DEF PopItem
    <2> QED
      BY <2>1, <2>2, <2>3 DEF NoPick
  <1>2. CASE Clear(r) \/ ReClear(r)
    BY <1>1, <1>2 DEF Clear, ReClear
  <1>3. CASE ~(Clear(r) \/ ReClear(r))
    <2>1. pick' = pick
      BY <1>3 DEF InProcess, SaveList, SaveRead, SaveStream, Update, ReUpdate, SetItem,
                  Refuse, Redirect, Write, ScriptEnds, RestoreStream, Restored
    <2>2. \A q \in Req : pc'[q] = pc[q] \/ pc[q] \notin {"clear", "reclear"}
      <3> SUFFICES ASSUME NEW q \in Req, pc'[q] # pc[q]
                   PROVE  pc[q] \notin {"clear", "reclear"}
        OBVIOUS
      <3>1. q = r
        BY <1>3 DEF InProcess, SaveList, SaveRead, SaveStream, Update, ReUpdate,
                  SetItem, Refuse, Redirect, Write, ScriptEnds, RestoreStream, Restored, TypeOK
      <3> QED
        BY <1>3, <3>1 DEF InProcess, SaveList, SaveRead, SaveStream, Update, ReUpdate,
                  SetItem, Refuse, Redirect, Write, ScriptEnds, RestoreStream, Restored
    <2> QED
      BY <2>1, <2>2 DEF NoPick
  <1> QED
    BY <1>2, <1>3

-----------------------------------------------------------------------------
(* The theorems.                                                           *)

LEMMA NestInit == Init => NestInv
  <1> SUFFICES ASSUME Init PROVE NestInv
    OBVIOUS
  <1>1. Active = {}
    BY DEF Init, Active
  <1>2. Nested
    BY <1>1 DEF Init, Nested
  <1>3. Chain
    BY <1>1 DEF Init, Chain
  <1>4. NoPick
    BY DEF Init, NoPick
  <1> QED
    BY <1>2, <1>3, <1>4, TypeInit DEF NestInv

LEMMA NestNext == NestInv /\ [Next]_vars => NestInv'
  <1> SUFFICES ASSUME NestInv, [Next]_vars PROVE NestInv'
    OBVIOUS
  <1>1. TypeOK'
    BY TypeNext DEF NestInv
  <1>2. CASE UNCHANGED vars
    <2> USE <1>2 DEF vars, global, own, child, nesting
    <2>1. Active' = Active
      BY DEF Active
    <2>2. Nested' <=> Nested
      BY <2>1 DEF Nested
    <2>3. Chain' <=> Chain
      BY <2>1 DEF Chain, Left, Filled
    <2>4. NoPick' /\ (mixed' <=> mixed)
      BY DEF NestInv, NoPick
    <2> QED
      BY <1>1, <2>2, <2>3, <2>4 DEF NestInv
  <1>3. ASSUME NEW r \in Req, InProcess(r) PROVE NestInv'
    <2>1. NoPick'
      BY <1>3, InProcessNoPick
    <2>2. ~mixed' => Nested' /\ Chain'
      BY <1>1, <1>3, InProcessNests
    <2> QED
      BY <1>1, <2>1, <2>2 DEF NestInv
  <1>4. ASSUME NEW r \in Req, Accept(r) \/ Build(r) \/ Built(r) \/ InChild(r)
        PROVE  NestInv'
    <2>1. NoPick'
      BY <1>4, OtherNoPick
    <2>2. ~mixed' => Nested' /\ Chain'
      BY <1>4, OtherNests
    <2> QED
      BY <1>1, <2>1, <2>2 DEF NestInv
  <1> QED
    BY <1>2, <1>3, <1>4 DEF Next

\* However many in-process runs there were, if none went on while a later
\* one was under way, the agent ends up with its own environment and streams.
THEOREM NestedRunsRestore == Spec => []RestoresWhenNested
  <1>1. NestInv => RestoresWhenNested
    <2> SUFFICES ASSUME NestInv, ~mixed, Active = {} PROVE environ = HostEnv /\ stdout = Host
      BY DEF RestoresWhenNested, RestoresThem
    <2>1. Nested /\ Chain
      BY DEF NestInv
    <2>2. deep = 0
      <3>1. \A n \in 1 .. deep : FALSE
        BY <2>1 DEF Nested
      <3>2. deep \in Nat
        BY <2>1 DEF Nested
      <3>3. deep > 0 => deep \in 1 .. deep
        BY <3>2
      <3> QED
        BY <3>1, <3>2, <3>3
    <2> QED
      BY <2>1, <2>2 DEF Chain
  <1> QED
    BY <1>1, NestInit, NestNext, PTL DEF Spec

\* Under the same condition the newest run sees exactly its own environment.
THEOREM NewestRunOwnsEnviron == Spec => []OwnEnviron
  <1>1. NestInv => OwnEnviron
    <2> SUFFICES ASSUME NestInv, NEW r \in Req, ~mixed, pc[r] \in {"run", "restore"},
                        depth[r] = deep
                 PROVE  environ = env[r]
      BY DEF OwnEnviron
    <2>1. r \in Active
      BY DEF Active
    <2> QED
      BY <2>1 DEF NestInv, Chain, Left
  <1> QED
    BY <1>1, NestInit, NestNext, PTL DEF Spec

-----------------------------------------------------------------------------
(* Elevated children and their env files.                                  *)

\* The env file is there for as long as the prompt is up, and only a prompt
\* that is up or has been answered has a child.
KidInv ==
    /\ TypeOK
    /\ \A r \in Req : pc[r] = "prompt" => r \in envFile
    /\ \A r \in Req : kid[r] # "none" => pc[r] \in {"prompt", "answered"}
    /\ OnlyLateKidsFail

\* A step that concerns no prompt and no child.
LEMMA KidAside ==
    ASSUME KidInv, TypeOK', UNCHANGED child, NEW r \in Req,
           \A q \in Req \ {r} : pc'[q] = pc[q],
           pc[r] \notin {"prompt", "answered"}, pc'[r] # "prompt"
    PROVE  KidInv'
  <1>1. kid' = kid /\ envFile' = envFile
    BY DEF child
  <1>2. \A q \in Req : pc'[q] = "prompt" => q \in envFile'
    BY <1>1 DEF KidInv
  <1>3. kid[r] = "none"
    BY DEF KidInv
  <1>4. \A q \in Req : kid'[q] # "none" => pc'[q] \in {"prompt", "answered"}
    BY <1>1, <1>3 DEF KidInv
  <1>5. OnlyLateKidsFail'
    BY <1>1, <1>3 DEF KidInv, OnlyLateKidsFail
  <1> QED
    BY <1>2, <1>4, <1>5 DEF KidInv

LEMMA KidChild == ASSUME KidInv, TypeOK', NEW r \in Req, InChild(r) PROVE KidInv'
  <1> TypeOK
    BY DEF KidInv
  <1>1. CASE Spawn(r) \/ ChildWrites(r) \/ ChildEnds(r) \/ ChildTimeout(r)
    <2>1. /\ pc[r] \in {"spawn", "child"}
          /\ pc'[r] \in {"child", "answered", "raised"}
          /\ \A q \in Req \ {r} : pc'[q] = pc[q]
      BY <1>1 DEF Spawn, ChildWrites, ChildEnds, ChildTimeout, Goto, TypeOK
    <2>2. UNCHANGED child
      BY <1>1 DEF Spawn, ChildWrites, ChildEnds, ChildTimeout
    <2> QED
      BY <2>1, <2>2, KidAside
  <1>2. CASE Prepare(r)
    <2>1. /\ pc[r] = "prepare" /\ kid' = kid
          /\ \A q \in Req \ {r} : pc'[q] = pc[q]
          /\ \/ pc'[r] = "prompt" /\ envFile' = envFile \cup {r}
             \/ pc'[r] \in {"answered", "raised"} /\ envFile' = envFile
      BY <1>2 DEF Prepare, Goto, TypeOK
    <2>2. kid[r] = "none"
      BY <2>1 DEF KidInv
    <2>3. \A q \in Req : pc'[q] = "prompt" => q \in envFile'
      BY <2>1 DEF KidInv
    <2>4. \A q \in Req : kid'[q] # "none" => pc'[q] \in {"prompt", "answered"}
      BY <2>1, <2>2 DEF KidInv
    <2>5. OnlyLateKidsFail'
      BY <2>1, <2>2 DEF KidInv, OnlyLateKidsFail
    <2> QED
      BY <2>3, <2>4, <2>5 DEF KidInv
  <1>3. CASE Approve(r) \/ KidReads(r) \/ KidEnds(r)
    <2>1. /\ pc' = pc /\ envFile' = envFile
          /\ \A q \in Req \ {r} : kid'[q] = kid[q]
      BY <1>3 DEF Approve, KidReads, KidEnds, TypeOK
    <2>2. pc[r] \in {"prompt", "answered"}
      BY <1>3 DEF Approve, KidReads, KidEnds, KidInv
    <2>3. kid'[r] = "failed" => r \notin envFile
      BY <1>3 DEF Approve, KidReads, KidEnds, TypeOK
    <2>4. kid'[r] = "failed" => pc'[r] = "answered"
      BY <2>1, <2>2, <2>3 DEF KidInv
    <2>5. OnlyLateKidsFail'
      BY <2>1, <2>4 DEF KidInv, OnlyLateKidsFail
    <2>6. \A q \in Req : kid'[q] # "none" => pc'[q] \in {"prompt", "answered"}
      BY <2>1, <2>2 DEF KidInv
    <2> QED
      BY <2>1, <2>5, <2>6 DEF KidInv
  <1>4. CASE PromptEnds(r) \/ PromptTimeout(r)
    <2>1. /\ pc'[r] = "answered" /\ kid' = kid /\ envFile' = envFile \ {r}
          /\ \A q \in Req \ {r} : pc'[q] = pc[q]
      BY <1>4 DEF PromptEnds, PromptTimeout, Goto, TypeOK
    <2>2. OnlyLateKidsFail'
      BY <2>1 DEF KidInv, OnlyLateKidsFail
    <2> QED
      BY <2>1, <2>2 DEF KidInv
  <1> QED
    BY <1>1, <1>2, <1>3, <1>4 DEF InChild

LEMMA KidNext == KidInv /\ [Next]_vars => KidInv'
  <1> SUFFICES ASSUME KidInv, [Next]_vars PROVE KidInv'
    OBVIOUS
  <1>1. TypeOK /\ TypeOK'
    BY TypeNext DEF KidInv
  <1>2. CASE UNCHANGED vars
    BY <1>1, <1>2 DEF vars, child, KidInv, OnlyLateKidsFail
  <1>3. ASSUME NEW r \in Req, Accept(r) \/ Build(r) \/ Built(r) PROVE KidInv'
    <2>1. UNCHANGED child /\ \A q \in Req \ {r} : pc'[q] = pc[q]
      BY <1>1, <1>3 DEF Accept, Build, Built, Goto, TypeOK
    <2>2. kind[r] \in {"python", "native", "elevated"}
      BY <1>1 DEF TypeOK, Kind
    <2>3. pc[r] \in {"idle", "build"} /\ pc'[r] # "prompt"
      BY <1>1, <1>3, <2>2 DEF Accept, Build, Built, Goto, TypeOK
    <2> QED
      BY <1>1, <2>1, <2>3, KidAside
  <1>4. ASSUME NEW r \in Req, InProcess(r) PROVE KidInv'
    <2> USE DEF SaveList, SaveRead, SaveStream, Clear, ReClear, PopItem, Update, ReUpdate,
                SetItem, Refuse, Redirect, Write, ScriptEnds, RestoreStream, Restored, Goto
    <2>1. UNCHANGED child
      BY <1>4 DEF InProcess
    <2>2. \A q \in Req \ {r} : pc'[q] = pc[q]
      BY <1>1, <1>4 DEF InProcess, TypeOK
    <2>3. pc[r] \notin {"prompt", "answered"}
      BY <1>4 DEF InProcess
    <2>4. pc'[r] # "prompt"
      BY <1>1, <1>4, <2>3 DEF InProcess, TypeOK
    <2> QED
      BY <1>1, <2>1, <2>2, <2>3, <2>4, KidAside
  <1> QED
    BY <1>1, <1>2, <1>3, <1>4, KidChild DEF Next

\* The elevated child of a request that is not answered yet finds the env
\* file: _execute_elevated unlinks it only when the run is over for it.
THEOREM PromptedKidsFindTheirFile == Spec => []OnlyLateKidsFail
  <1>1. Init => KidInv
    BY TypeInit DEF Init, KidInv, OnlyLateKidsFail
  <1>2. KidInv => OnlyLateKidsFail
    BY DEF KidInv
  <1> QED
    BY <1>1, <1>2, KidNext, PTL DEF Spec

-----------------------------------------------------------------------------
(* Copies of os.environ.                                                   *)

\* A run that changes os.environ, or has filled it from a copy that was
\* torn, is not settled: what it shows others is not the agent's.
Settled(s) == pc[s] \notin Changing /\ (s \in torn => pc[s] = "save")

\* Whoever copies os.environ while a run is not settled is counted as torn;
\* nobody else misses a variable it has listed.
CopyInv ==
    /\ TypeOK
    /\ (\E s \in Active : ~Settled(s)) => Copiers \subseteq torn
    /\ \A r \in Copiers \ torn : \A k \in todo[r] : environ[k] # Unset
    /\ \A r \in Req : pc[r] = "raised" => r \in torn \/ fault[r] # "none"

\* A step that starts no copy and no change of os.environ; a step that
\* changes it is one of a run that is doing so.
LEMMA CopyQuiet ==
    ASSUME CopyInv, TypeOK', NEW r \in Req, torn' = torn,
           \A q \in Req : fault[q] # "none" => fault'[q] # "none",
           \A q \in Req \ {r} : pc'[q] = pc[q] /\ todo'[q] = todo[q],
           r \in Active' /\ ~Settled(r)' => r \in Active /\ ~Settled(r),
           r \in Copiers' => r \in Copiers /\ todo'[r] \subseteq todo[r],
           environ' = environ \/ (r \in Active /\ pc[r] \in Changing),
           pc'[r] = "raised" => r \in torn \/ fault'[r] # "none"
    PROVE  CopyInv'
  <1>1. Copiers' \subseteq Copiers
    BY DEF Copiers
  <1>2. ASSUME NEW s \in Active', ~Settled(s)' PROVE \E q \in Active : ~Settled(q)
    <2>1. CASE s = r
      BY <1>2, <2>1
    <2>2. CASE s # r
      <3>1. s \in Active /\ ~Settled(s)
        BY <1>2, <2>2 DEF Active, Settled
      <3> QED
        BY <3>1
    <2> QED
      BY <2>1, <2>2
  <1>3. (\E s \in Active' : ~Settled(s)') => Copiers' \subseteq torn'
    BY <1>1, <1>2 DEF CopyInv
  <1>4. ASSUME NEW q \in Copiers' \ torn', NEW k \in todo'[q] PROVE environ'[k] # Unset
    <2>1. q \in Copiers \ torn /\ k \in todo[q]
      BY <1>1 DEF Copiers
    <2>2. CASE environ' = environ
      BY <2>1, <2>2 DEF CopyInv
    <2>3. CASE r \in Active /\ pc[r] \in Changing
      BY <2>1, <2>3 DEF CopyInv, Settled
    <2> QED
      BY <2>2, <2>3
  <1>5. \A q \in Req : pc'[q] = "raised" => q \in torn' \/ fault'[q] # "none"
    BY DEF CopyInv
  <1> QED
    BY <1>3, <1>4, <1>5 DEF CopyInv

\* A copy begins: it is torn if a run is not settled.
LEMMA CopyStarts ==
    ASSUME CopyInv, TypeOK', NEW r \in Req, Accept(r) \/ SaveList(r)
    PROVE  CopyInv'
  <1> TypeOK
    BY DEF CopyInv
  <1>1. /\ environ' = environ /\ fault' = fault
        /\ torn' = IF Shaky THEN torn \cup {r} ELSE torn
        /\ \A q \in Req \ {r} : pc'[q] = pc[q] /\ todo'[q] = todo[q]
        /\ pc'[r] \in {"build", "save"} /\ todo'[r] = Keys(environ)
    BY DEF Accept, SaveList, Goto, global, TypeOK
  <1>2. Copiers' \subseteq Copiers \cup {r}
    BY <1>1 DEF Copiers
  <1>3. ASSUME NEW s \in Active', ~Settled(s)' PROVE s \in Active /\ ~Settled(s)
    <2>1. s \in Req /\ s # r
      BY <1>1, <1>3 DEF Active, Settled, Changing
    <2>2. pc'[s] = pc[s] /\ (s \in torn' <=> s \in torn)
      BY <1>1, <2>1
    <2> QED
      BY <1>3, <2>1, <2>2 DEF Active, Settled
  <1>4. (\E s \in Active' : ~Settled(s)') => Copiers' \subseteq torn'
    <2> SUFFICES ASSUME NEW s \in Active, ~Settled(s) PROVE Copiers' \subseteq torn'
      BY <1>3
    <2>1. Shaky
      BY DEF Shaky, Settled
    <2>2. Copiers \subseteq torn
      BY DEF CopyInv
    <2> QED
      BY <1>1, <1>2, <2>1, <2>2
  <1>5. ASSUME NEW q \in Copiers' \ torn', NEW k \in todo'[q] PROVE environ'[k] # Unset
    <2>1. CASE q = r
      BY <1>1, <2>1 DEF Keys
    <2>2. CASE q # r
      <3>1. q \in Copiers \ torn /\ k \in todo[q]
        BY <1>1, <1>2, <2>2 DEF Copiers
      <3> QED
        BY <1>1, <3>1 DEF CopyInv
    <2> QED
      BY <2>1, <2>2
  <1>6. \A q \in Req : pc'[q] = "raised" => q \in torn' \/ fault'[q] # "none"
    BY <1>1 DEF CopyInv
  <1> QED
    BY <1>4, <1>5, <1>6 DEF CopyInv

\* A change begins: every copy that is going on is torn.
LEMMA CopiesTorn ==
    ASSUME CopyInv, TypeOK', NEW r \in Req, SaveStream(r) \/ RestoreStream(r)
    PROVE  CopyInv'
  <1> TypeOK
    BY DEF CopyInv
  <1>1. /\ fault' = fault
        /\ \A q \in Req \ {r} : pc'[q] = pc[q]
        /\ pc'[r] \in {"clear", "reclear"} /\ Copiers \ {r} \subseteq torn' /\ torn \subseteq torn'
    BY DEF SaveStream, RestoreStream, Goto, own, TypeOK
  <1>2. Copiers' \subseteq torn'
    BY <1>1 DEF Copiers, Copying
  <1>3. \A q \in Req : pc'[q] = "raised" => q \in torn' \/ fault'[q] # "none"
    BY <1>1 DEF CopyInv
  <1> QED
    BY <1>2, <1>3 DEF CopyInv

LEMMA CopyNext == CopyInv /\ [Next]_vars => CopyInv'
  <1> SUFFICES ASSUME CopyInv, [Next]_vars PROVE CopyInv'
    OBVIOUS
  <1>1. TypeOK /\ TypeOK'
    BY TypeNext DEF CopyInv
  <1>2. CASE UNCHANGED vars
    BY <1>1, <1>2 DEF vars, global, own, CopyInv, Active, Settled, Copiers
  <1>3. ASSUME NEW r \in Req, Build(r) \/ SaveRead(r) PROVE CopyInv'
    <2> PICK k \in todo[r] : environ[k] = Unset \/ pc' = pc
      <3>1. CASE Build(r)
        BY <3>1 DEF Build
      <3>2. CASE SaveRead(r)
        BY <3>2 DEF SaveRead
      <3> QED
        BY <1>3, <3>1, <3>2
    <2>1. r \in Copiers
      BY <1>3 DEF Build, SaveRead, Copiers, Copying
    <2>2. /\ torn' = torn /\ environ' = environ /\ fault' = fault
          /\ \A q \in Req \ {r} : pc'[q] = pc[q] /\ todo'[q] = todo[q]
          /\ todo'[r] \subseteq todo[r] /\ pc'[r] \in {pc[r], "raised"}
          /\ pc[r] \in {"build", "save"}
      BY <1>1, <1>3 DEF Build, SaveRead, Goto, global, TypeOK
    <2>3. ASSUME pc'[r] = "raised" PROVE r \in torn
      BY <2>1, <2>2, <2>3 DEF CopyInv
    <2>4. r \in Active' /\ ~Settled(r)' => r \in Active /\ ~Settled(r)
      BY <2>2 DEF Active, Settled, Changing
    <2> QED
      BY <1>1, <2>1, <2>2, <2>3, <2>4, CopyQuiet
  <1>4. ASSUME NEW r \in Req, Built(r) PROVE CopyInv'
    <2>1. kind[r] \in {"python", "native", "elevated"}
      BY <1>1 DEF TypeOK, Kind
    <2>2. /\ torn' = torn /\ environ' = environ /\ fault' = fault /\ todo' = todo
          /\ \A q \in Req \ {r} : pc'[q] = pc[q]
          /\ pc'[r] \in {"start", "spawn", "prepare"}
      BY <1>1, <1>4, <2>1 DEF Built, Goto, global, TypeOK
    <2>3. r \notin Active' /\ r \notin Copiers'
      BY <2>2 DEF Active, Copiers, Copying
    <2> QED
      BY <1>1, <2>2, <2>3, CopyQuiet
  <1>5. ASSUME NEW r \in Req, InChild(r) PROVE CopyInv'
    <2>1. /\ torn' = torn /\ environ' = environ /\ todo' = todo
          /\ \A q \in Req \ {r} : pc'[q] = pc[q]
          /\ \A q \in Req : fault[q] # "none" => fault'[q] # "none"
      BY <1>1, <1>5 DEF InChild, Spawn, ChildWrites, ChildEnds, ChildTimeout, Prepare,
                        Approve, KidReads, KidEnds, PromptEnds, PromptTimeout, Goto,
                        global, own, TypeOK
    <2>2. \/ pc'[r] = pc[r]
          \/ pc'[r] \in {"child", "answered", "prompt"}
          \/ pc'[r] = "raised" /\ fault'[r] # "none"
      BY <1>1, <1>5 DEF InChild, Spawn, ChildWrites, ChildEnds, ChildTimeout, Prepare,
                        Approve, KidReads, KidEnds, PromptEnds, PromptTimeout, Goto,
                        TypeOK, own
    <2>3. pc'[r] = "raised" => r \in torn \/ fault'[r] # "none"
      BY <2>1, <2>2 DEF CopyInv
    <2>4. r \in Active' /\ ~Settled(r)' => r \in Active /\ ~Settled(r)
      BY <2>1, <2>2 DEF Active, Settled
    <2>5. r \in Copiers' => r \in Copiers
      BY <2>2 DEF Copiers, Copying
    <2> QED
      BY <1>1, <2>1, <2>3, <2>4, <2>5, CopyQuiet
  <1>6. ASSUME NEW r \in Req, Clear(r) \/ ReClear(r) \/ Update(r) \/ ReUpdate(r)
        PROVE  CopyInv'
    <2> USE DEF Clear, ReClear, PopItem, Update, ReUpdate, SetItem, Goto
    <2>1. torn' = torn /\ fault' = fault
      BY <1>6
    <2>2. \A q \in Req \ {r} : pc'[q] = pc[q] /\ todo'[q] = todo[q]
      BY <1>1, <1>6 DEF TypeOK
    <2>3. /\ pc[r] \in {"clear", "reclear", "update", "reupdate"}
          /\ pc'[r] \in {"clear", "reclear", "update", "reupdate"}
      BY <1>1, <1>6 DEF TypeOK
    <2>4. r \in Active /\ pc[r] \in Changing /\ ~Settled(r) /\ r \notin Copiers'
      BY <2>3 DEF Active, Changing, Settled, Copiers, Copying
    <2> QED
      BY <1>1, <2>1, <2>2, <2>3, <2>4, CopyQuiet
  <1>7. ASSUME NEW r \in Req,
               Refuse(r) \/ Redirect(r) \/ Write(r) \/ ScriptEnds(r) \/ Restored(r)
        PROVE  CopyInv'
    <2> USE DEF Refuse, Redirect, Write, ScriptEnds, Restored, Goto
    <2>1. /\ torn' = torn /\ environ' = environ /\ todo' = todo
          /\ \A q \in Req : fault[q] # "none" => fault'[q] # "none"
      BY <1>1, <1>7 DEF global, own, TypeOK
    <2>2. \A q \in Req \ {r} : pc'[q] = pc[q]
      BY <1>1, <1>7 DEF TypeOK
    <2>3. \/ pc[r] \in {"update", "run"} /\ pc'[r] \in {"run", "restore"}
          \/ pc[r] = "update" /\ pc'[r] = "undo"
          \/ pc[r] = "reupdate" /\ pc'[r] = "answered"
          \/ pc[r] = "reupdate" /\ pc'[r] = "raised" /\ fault[r] # "none"
      BY <1>1, <1>7 DEF TypeOK
    <2>4. r \in Active' /\ ~Settled(r)' => r \in Active /\ ~Settled(r)
      BY <2>1, <2>3 DEF Active, Settled, Changing
    <2>5. r \notin Copiers'
      BY <2>3 DEF Copiers, Copying
    <2> QED
      BY <1>1, <2>1, <2>2, <2>3, <2>4, <2>5, CopyQuiet
  <1> QED
    BY <1>1, <1>2, <1>3, <1>4, <1>5, <1>6, <1>7, CopyStarts, CopiesTorn DEF Next,
       InProcess

LEMMA CopyInit == Init => CopyInv
  <1> SUFFICES ASSUME Init PROVE CopyInv
    OBVIOUS
  <1>1. Active = {} /\ Copiers = {}
    BY DEF Init, Active, Copiers, Copying
  <1> QED
    BY <1>1, TypeInit DEF Init, CopyInv

-----------------------------------------------------------------------------
(* Faults and the way a script is run.                                     *)

\* Stages of each way to run a script.
Path(k) == CASE k = "python"   -> {"start", "save", "clear", "update", "undo", "run",
                                   "restore", "reclear", "reupdate"}
             [] k = "native"   -> {"spawn", "child"}
             [] k = "elevated" -> {"prepare", "prompt"}

\* Where request r is, and the fault it met, are those of its kind of script.
Fitting(r) ==
    /\ pc[r] \in Path(kind[r]) \cup {"idle", "build", "answered", "raised"}
    /\ fault[r] \in Silencing(kind[r]) \cup {"none"}
    /\ pc[r] = "idle" => fault[r] = "none"

FaultInv == TypeOK /\ \A r \in Req : Fitting(r)

LEMMA InProcessFault ==
    ASSUME FaultInv, NEW r \in Req, InProcess(r)
    PROVE  /\ kind' = kind /\ Fitting(r)'
           /\ \A q \in Req \ {r} : pc'[q] = pc[q] /\ fault'[q] = fault[q]
  <1> TypeOK /\ kind[r] \in {"python", "native", "elevated"} /\ Fitting(r)
    BY DEF FaultInv, TypeOK, Kind
  <1> USE DEF Goto, Path, Silencing
  <1>1. kind' = kind
    BY DEF InProcess, SaveList, SaveRead, SaveStream, Clear, ReClear, PopItem, Update,
           ReUpdate, SetItem, Refuse, Redirect, Write, ScriptEnds, RestoreStream, Restored, own
  <1>2. \A q \in Req \ {r} : pc'[q] = pc[q] /\ fault'[q] = fault[q]
    BY DEF InProcess, SaveList, SaveRead, SaveStream, Clear, ReClear, PopItem, Update,
           ReUpdate, SetItem, Refuse, Redirect, Write, ScriptEnds, RestoreStream, Restored,
           own, TypeOK
  <1>3. pc[r] \in Path("python")
    BY DEF InProcess, SaveList, SaveRead, SaveStream, Clear, ReClear, PopItem, Update,
           ReUpdate, SetItem, Refuse, Redirect, Write, ScriptEnds, RestoreStream, Restored
  <1>4. kind[r] = "python"
    BY <1>3 DEF Fitting
  <1>5. pc'[r] \in Path("python") \cup {"answered", "raised"}
    BY <1>3 DEF InProcess, SaveList, SaveRead, SaveStream, Clear, ReClear, PopItem,
                Update, ReUpdate, SetItem, Refuse, Redirect, Write, ScriptEnds,
                RestoreStream, Restored, TypeOK
  <1>6. fault'[r] \in {fault[r], "refused", "exit"}
    BY DEF InProcess, SaveList, SaveRead, SaveStream, Clear, ReClear, PopItem, Update,
           ReUpdate, SetItem, Refuse, Redirect, Write, ScriptEnds, RestoreStream, Restored,
           own, TypeOK
  <1>7. Fitting(r)'
    BY <1>1, <1>4, <1>5, <1>6 DEF Fitting
  <1> QED
    BY <1>1, <1>2, <1>7

LEMMA InChildFault ==
    ASSUME FaultInv, NEW r \in Req, InChild(r)
    PROVE  /\ kind' = kind /\ Fitting(r)'
           /\ \A q \in Req \ {r} : pc'[q] = pc[q] /\ fault'[q] = fault[q]
  <1> TypeOK /\ kind[r] \in {"python", "native", "elevated"} /\ Fitting(r)
    BY DEF FaultInv, TypeOK, Kind
  <1> USE DEF Goto, own
  <1>1. /\ kind' = kind
        /\ \A q \in Req \ {r} : pc'[q] = pc[q] /\ fault'[q] = fault[q]
    BY DEF InChild, Spawn, ChildWrites, ChildEnds, ChildTimeout, Prepare, Approve,
           KidReads, KidEnds, PromptEnds, PromptTimeout, TypeOK
  <1>2. CASE Spawn(r) \/ ChildWrites(r) \/ ChildEnds(r) \/ ChildTimeout(r)
    <2>1. /\ pc[r] \in {"spawn", "child"} /\ pc'[r] \in {"child", "answered", "raised"}
          /\ fault'[r] \in {fault[r], "refused", "output"}
      BY <1>2 DEF Spawn, ChildWrites, ChildEnds, ChildTimeout, TypeOK
    <2>2. kind[r] = "native"
      BY <2>1 DEF Fitting, Path
    <2> QED
      BY <1>1, <2>1, <2>2 DEF Fitting, Path, Silencing
  <1>3. CASE Prepare(r) \/ PromptEnds(r) \/ PromptTimeout(r)
    <2>1. /\ pc[r] \in {"prepare", "prompt"} /\ pc'[r] \in {"prompt", "answered", "raised"}
          /\ fault'[r] \in {fault[r], "files"}
      BY <1>3 DEF Prepare, PromptEnds, PromptTimeout, TypeOK
    <2>2. kind[r] = "elevated"
      BY <2>1 DEF Fitting, Path
    <2> QED
      BY <1>1, <2>1, <2>2 DEF Fitting, Path, Silencing
  <1>4. CASE Approve(r) \/ KidReads(r) \/ KidEnds(r)
    BY <1>1, <1>4 DEF Approve, KidReads, KidEnds, Fitting
  <1> QED
    BY <1>1, <1>2, <1>3, <1>4 DEF InChild

LEMMA FaultNext == FaultInv /\ [Next]_vars => FaultInv'
  <1> SUFFICES ASSUME FaultInv, [Next]_vars PROVE FaultInv'
    OBVIOUS
  <1>1. TypeOK /\ TypeOK'
    BY TypeNext DEF FaultInv
  <1>2. CASE UNCHANGED vars
    BY <1>1, <1>2 DEF vars, own, FaultInv, Fitting
  <1>3. ASSUME NEW r \in Req, InProcess(r) \/ InChild(r) PROVE FaultInv'
    BY <1>1, <1>3, InProcessFault, InChildFault DEF FaultInv, Fitting
  <1>4. ASSUME NEW r \in Req, Accept(r) PROVE FaultInv'
    <2>1. /\ pc[r] = "idle" /\ pc'[r] = "build" /\ fault' = fault
          /\ \A q \in Req \ {r} : pc'[q] = pc[q] /\ kind'[q] = kind[q]
      BY <1>1, <1>4 DEF Accept, Goto, TypeOK
    <2>2. fault[r] = "none"
      BY <2>1 DEF FaultInv, Fitting
    <2> QED
      BY <1>1, <2>1, <2>2 DEF FaultInv, Fitting
  <1>5. ASSUME NEW r \in Req, Build(r) \/ Built(r) PROVE FaultInv'
    <2>1. kind[r] \in {"python", "native", "elevated"}
      BY <1>1 DEF TypeOK, Kind
    <2>2. /\ fault' = fault /\ kind' = kind
          /\ \A q \in Req \ {r} : pc'[q] = pc[q]
      BY <1>1, <1>5 DEF Build, Built, Goto, TypeOK
    <2>3. pc'[r] \in Path(kind[r]) \cup {"build", "raised"} /\ pc'[r] # "idle"
      BY <1>1, <1>5, <2>1 DEF Build, Built, Goto, Path, TypeOK
    <2> QED
      BY <1>1, <2>2, <2>3 DEF FaultInv, Fitting
  <1> QED
    BY <1>2, <1>3, <1>4, <1>5 DEF Next

LEMMA FaultInit == Init => FaultInv
  BY TypeInit DEF Init, FaultInv, Fitting

\* A request that is never answered copied os.environ during a change of it,
\* or met a fault of its own kind of script, whatever the other threads of
\* the agent do meanwhile.
THEOREM SilenceHasOnlyTheseCauses == Spec => []SilenceHasACause
  <1>1. CopyInv /\ FaultInv => SilenceHasACause
    BY DEF CopyInv, FaultInv, Fitting, SilenceHasACause
  <1> QED
    BY <1>1, CopyInit, CopyNext, FaultInit, FaultNext, PTL DEF Spec

-----------------------------------------------------------------------------
(* The whitelisted variables.                                              *)

\* Stages in which the environment of the script has been built.
Made == {"start", "spawn", "child", "prepare", "prompt"} \cup
        {"save", "clear", "update", "undo", "run", "restore", "reclear", "reupdate"}

\* If every run is settled the path is the agent's, and if those below a run
\* are, so is the path that run will put back.
PathThere ==
    /\ (\A s \in Active : Settled(s)) => environ["path"] = Host
    /\ \A q \in Active : (\A s \in Active : depth[s] < depth[q] => Settled(s))
                         => saved[q]["path"] = Host

\* A copy that is not torn will have, or has, the agent's path.
PathCopied ==
    \A r \in Req \ torn :
        /\ pc[r] = "build" => "path" \in todo[r] \/ env[r]["path"] = Host
        /\ pc[r] \in Made => env[r]["path"] = Host

NoPrivate == \A r \in Req : env[r]["private"] = Unset

WhiteInv ==
    /\ NestInv /\ CopyInv /\ NoPrivate
    /\ ~mixed => PathThere /\ PathCopied

\* What a step does to the marks of other runs does not unsettle them.
LEMMA OthersSettled ==
    ASSUME NEW r \in Req, torn \subseteq torn', torn' \subseteq torn \cup Copiers \cup {r},
           \A q \in Req \ {r} : pc'[q] = pc[q]
    PROVE  \A q \in Active \ {r} : Settled(q)' <=> Settled(q)
  BY DEF Active, Settled, Copiers, Copying

\* A step of the newest run, which stays or leaves.
LEMMA PathBelow ==
    ASSUME WhiteInv, ~mixed, NEW r \in Active, depth[r] = deep,
           Active' = Active \/ Active' = Active \ {r}, saved' = saved,
           \A q \in Req \ {r} : depth'[q] = depth[q],
           r \in Active' => depth'[r] = depth[r],
           \A q \in Active \ {r} : Settled(q)' <=> Settled(q),
           (\A s \in Active' : Settled(s)') => environ'["path"] = Host
    PROVE  PathThere'
  <1> Active \subseteq Req /\ Nested /\ PathThere
    BY DEF Active, WhiteInv, NestInv
  <1> SUFFICES ASSUME NEW q \in Active',
                      \A s \in Active' : depth'[s] < depth'[q] => Settled(s)'
               PROVE  saved'[q]["path"] = Host
    BY DEF PathThere
  <1>1. q \in Active /\ depth'[q] = depth[q] /\ depth[q] <= deep
    BY DEF Nested
  <1>2. ASSUME NEW s \in Active, depth[s] < depth[q] PROVE Settled(s)
    <2>1. s # r
      BY <1>1, <1>2 DEF NestInv, WhiteInv, TypeOK
    <2>2. s \in Active' /\ depth'[s] = depth[s]
      BY <2>1
    <2> QED
      BY <1>1, <1>2, <2>1, <2>2
  <1> QED
    BY <1>1, <1>2 DEF PathThere

\* An in-process run builds nothing: its environment is built already.
LEMMA CopiedBefore ==
    ASSUME PathCopied, NEW r \in Req, torn \subseteq torn', env' = env,
           \A q \in Req \ {r} : pc'[q] = pc[q] /\ todo'[q] = todo[q],
           pc[r] \in Made, pc'[r] # "build"
    PROVE  PathCopied'
  BY DEF PathCopied

\* An in-process run starts.
LEMMA PathStart ==
    ASSUME WhiteInv, TypeOK', ~mixed, NEW r \in Req, SaveList(r)
    PROVE  PathThere'
  <1> /\ TypeOK /\ Nested /\ PathThere /\ Active \subseteq Req
    BY DEF Active, WhiteInv, NestInv
  <1>1. /\ pc[r] = "start" /\ pc'[r] = "save"
        /\ \A q \in Req \ {r} : pc'[q] = pc[q] /\ depth'[q] = depth[q] /\ saved'[q] = saved[q]
        /\ depth'[r] = deep + 1 /\ saved'[r] = environ /\ environ' = environ
        /\ torn \subseteq torn' /\ torn' \subseteq torn \cup {r}
    BY DEF SaveList, Goto, global, TypeOK
  <1>2. r \notin Active /\ Active' = Active \cup {r}
    BY <1>1 DEF Active
  <1>3. \A q \in Active : Settled(q)' <=> Settled(q)
    BY <1>1, <1>2, OthersSettled
  <1>4. (\A s \in Active : Settled(s)') => environ["path"] = Host
    BY <1>3 DEF PathThere
  <1>5. \A s \in Active : depth'[s] = depth[s] /\ depth[s] < deep + 1
    BY <1>1, <1>2 DEF Nested, TypeOK
  <1>6. ASSUME NEW q \in Active', \A s \in Active' : depth'[s] < depth'[q] => Settled(s)'
        PROVE  saved'[q]["path"] = Host
    <2>1. CASE q = r
      BY <1>1, <1>2, <1>4, <1>5, <1>6, <2>1
    <2>2. CASE q # r
      <3>1. q \in Active /\ saved'[q] = saved[q]
        BY <1>1, <1>2, <2>2
      <3>2. \A s \in Active : depth[s] < depth[q] => Settled(s)
        BY <1>2, <1>3, <1>5, <1>6, <3>1
      <3> QED
        BY <3>1, <3>2 DEF PathThere
    <2> QED
      BY <2>1, <2>2
  <1> QED
    BY <1>1, <1>2, <1>4, <1>6 DEF PathThere

LEMMA InProcessPath ==
    ASSUME WhiteInv, TypeOK', NEW r \in Req, InProcess(r), ~mixed'
    PROVE  PathThere' /\ PathCopied'
  <1> TypeOK /\ Active \subseteq Req
    BY DEF Active, WhiteInv, NestInv
  <1>1. ~mixed
    BY DEF InProcess, SaveList, SaveRead, SaveStream, Clear, ReClear, PopItem, Update,
           ReUpdate, SetItem, Refuse, Redirect, Write, ScriptEnds, RestoreStream, Restored, Step,
           Leave, nesting
  <1> Nested /\ Chain /\ PathThere /\ PathCopied
    BY <1>1 DEF WhiteInv, NestInv
  <1>2. CASE SaveList(r)
    <2>1. PathCopied'
      <3>1. /\ torn \subseteq torn' /\ env' = env /\ pc[r] = "start" /\ pc'[r] = "save"
            /\ \A q \in Req \ {r} : pc'[q] = pc[q] /\ todo'[q] = todo[q]
        BY <1>2 DEF SaveList, Goto, TypeOK
      <3> QED
        BY <3>1, CopiedBefore DEF Made
    <2> QED
      BY <1>1, <1>2, <2>1, PathStart
  <1>3. CASE SaveRead(r)
    <2>1. /\ pc[r] = "save" /\ env' = env /\ torn' = torn /\ environ' = environ
          /\ \A q \in Req \ {r} : pc'[q] = pc[q]
          /\ \A q \in Req \ {r} : todo'[q] = todo[q]
          /\ \A q \in Req \ {r} : depth'[q] = depth[q]
          /\ \/ pc'[r] = "save" /\ depth'[r] = depth[r]
             \/ pc'[r] = "raised"
      BY <1>3 DEF SaveRead, Goto, Leave, global, TypeOK
    <2>2. depth[r] = deep /\ r \in Active
      BY <1>3, <2>1 DEF SaveRead, Step, Leave, Active
    <2>3. saved' = saved
      <3>1. environ = saved[r]
        BY <2>1, <2>2 DEF Chain, Left
      <3>2. PICK k \in todo[r] : \/ saved' = saved
                                 \/ saved' = [saved EXCEPT ![r] = [saved[r] EXCEPT ![k] = environ[k]]]
        BY <1>3 DEF SaveRead
      <3>3. [saved[r] EXCEPT ![k] = environ[k]] = saved[r]
        BY <3>1 DEF TypeOK, Env
      <3> QED
        BY <3>2, <3>3 DEF TypeOK
    <2>4. /\ Active' = Active \/ Active' = Active \ {r}
          /\ r \in Active' => depth'[r] = depth[r]
      BY <2>1 DEF Active
    <2>5. \A q \in Active \ {r} : Settled(q)' <=> Settled(q)
      BY <2>1, OthersSettled
    <2>6. Settled(r)
      BY <2>1 DEF Settled, Changing
    <2>7. (\A s \in Active' : Settled(s)') => environ'["path"] = Host
      BY <2>1, <2>4, <2>5, <2>6 DEF PathThere
    <2>8. PathThere'
      BY <1>1, <2>1, <2>2, <2>3, <2>4, <2>5, <2>7, PathBelow
    <2> QED
      BY <2>1, <2>8, CopiedBefore DEF Made
  <1>4. CASE SaveStream(r) \/ RestoreStream(r)
    <2> USE DEF SaveStream, RestoreStream
    <2>1. /\ pc[r] \in {"save", "undo", "restore"} /\ pc'[r] \in {"clear", "reclear"}
          /\ env' = env /\ environ' = environ /\ saved' = saved /\ depth' = depth
          /\ todo' = todo
          /\ torn \subseteq torn' /\ torn' \subseteq torn \cup Copiers
          /\ \A q \in Req \ {r} : pc'[q] = pc[q]
      BY <1>4 DEF Goto, global, own, TypeOK
    <2>2. depth[r] = deep /\ r \in Active
      BY <1>4, <2>1 DEF Step, Active
    <2>3. Active' = Active /\ ~Settled(r)'
      BY <2>1 DEF Active, Settled, Changing
    <2>4. \A q \in Active \ {r} : Settled(q)' <=> Settled(q)
      BY <2>1, OthersSettled
    <2>5. PathThere'
      BY <1>1, <2>1, <2>2, <2>3, <2>4, PathBelow
    <2> QED
      BY <2>1, <2>5, CopiedBefore DEF Made
  <1>5. CASE Clear(r) \/ ReClear(r) \/ Update(r) \/ ReUpdate(r) \/ Refuse(r)
    <2> USE DEF Clear, ReClear, Update, ReUpdate, Refuse, PopItem, SetItem
    <2>1. /\ pc[r] \in Changing /\ pc'[r] \in Changing
          /\ env' = env /\ saved' = saved /\ depth' = depth /\ torn' = torn
          /\ \A q \in Req \ {r} : pc'[q] = pc[q]
          /\ \A q \in Req \ {r} : todo'[q] = todo[q]
      BY <1>5 DEF Goto, TypeOK, Changing
    <2>2. depth[r] = deep /\ r \in Active /\ Active' = Active /\ ~Settled(r)'
      BY <1>5, <2>1 DEF Step, Active, Settled, Changing
    <2>3. \A q \in Active \ {r} : Settled(q)' <=> Settled(q)
      BY <2>1, OthersSettled
    <2>4. PathThere'
      BY <1>1, <2>1, <2>2, <2>3, PathBelow
    <2> QED
      BY <2>1, <2>4, CopiedBefore DEF Made, Changing
  <1>6. CASE Redirect(r)
    <2>1. /\ pc[r] = "update" /\ pc'[r] = "run" /\ todo[r] = {} /\ environ' = environ
          /\ env' = env /\ saved' = saved /\ depth' = depth /\ torn' = torn /\ todo' = todo
          /\ \A q \in Req \ {r} : pc'[q] = pc[q]
      BY <1>6 DEF Redirect, Goto, own, TypeOK
    <2>2. depth[r] = deep /\ r \in Active /\ Active' = Active
      BY <1>6, <2>1 DEF Redirect, Step, Active
    <2>3. \A q \in Active \ {r} : Settled(q)' <=> Settled(q)
      BY <2>1, OthersSettled
    <2>4. Settled(r)' => environ'["path"] = Host
      <3>1. Filled(environ, {}, env[r])
        BY <2>1, <2>2 DEF Chain, Left
      <3>2. environ["path"] = env[r]["path"]
        BY <3>1 DEF Filled, Key
      <3>3. Settled(r)' => r \notin torn
        BY <2>1 DEF Settled
      <3> QED
        BY <2>1, <3>2, <3>3 DEF PathCopied, Made
    <2>5. PathThere'
      BY <1>1, <2>1, <2>2, <2>3, <2>4, PathBelow
    <2> QED
      BY <2>1, <2>5, CopiedBefore DEF Made
  <1>7. CASE Write(r) \/ ScriptEnds(r)
    <2> USE DEF Write, ScriptEnds
    <2>1. /\ pc[r] = "run" /\ pc'[r] \in {"run", "restore"} /\ environ' = environ
          /\ env' = env /\ saved' = saved /\ depth' = depth /\ torn' = torn /\ todo' = todo
          /\ \A q \in Req \ {r} : pc'[q] = pc[q]
      BY <1>7 DEF Goto, global, own, nesting, TypeOK
    <2>2. Active' = Active /\ (Settled(r)' <=> Settled(r))
      BY <2>1 DEF Active, Settled, Changing
    <2>3. \A q \in Active : Settled(q)' <=> Settled(q)
      BY <2>1, <2>2, OthersSettled
    <2>4. PathThere'
      BY <2>1, <2>2, <2>3 DEF PathThere
    <2> QED
      BY <2>1, <2>4, CopiedBefore DEF Made
  <1>8. CASE Restored(r)
    <2>1. /\ pc[r] = "reupdate" /\ pc'[r] \in {"raised", "answered"} /\ todo[r] = {}
          /\ environ' = environ /\ env' = env /\ saved' = saved /\ torn' = torn /\ todo' = todo
          /\ \A q \in Req \ {r} : pc'[q] = pc[q] /\ depth'[q] = depth[q]
      BY <1>8 DEF Restored, Leave, Goto, global, own, TypeOK
    <2>2. depth[r] = deep /\ r \in Active /\ Active' = Active \ {r}
      BY <1>8, <2>1 DEF Restored, Leave, Step, Active
    <2>3. \A q \in Active \ {r} : Settled(q)' <=> Settled(q)
      BY <2>1, OthersSettled
    <2>4. environ["path"] = saved[r]["path"]
      <3>1. Filled(environ, {}, saved[r])
        BY <2>1, <2>2 DEF Chain, Left
      <3> QED
        BY <3>1 DEF Filled, Key
    <2>5. ASSUME \A s \in Active' : Settled(s)' PROVE environ'["path"] = Host
      <3>1. \A s \in Active : depth[s] < depth[r] => Settled(s)
        BY <2>2, <2>3, <2>5 DEF TypeOK
      <3> QED
        BY <2>1, <2>2, <2>4, <3>1 DEF PathThere
    <2>6. PathThere'
      BY <1>1, <2>1, <2>2, <2>3, <2>5, PathBelow
    <2> QED
      BY <2>1, <2>6, CopiedBefore DEF Made
  <1> QED
    BY <1>2, <1>3, <1>4, <1>5, <1>6, <1>7, <1>8 DEF InProcess

\* The steps that build an environment, and those of child processes.
LEMMA OtherPath ==
    ASSUME WhiteInv, TypeOK', NEW r \in Req, ~mixed',
           Accept(r) \/ Build(r) \/ Built(r) \/ InChild(r)
    PROVE  PathThere' /\ PathCopied'
  <1> TypeOK /\ Active \subseteq Req
    BY DEF Active, WhiteInv, NestInv
  <1>1. /\ environ' = environ /\ saved' = saved /\ depth' = depth /\ mixed' = mixed
        /\ \A q \in Req \ {r} : pc'[q] = pc[q]
        /\ torn \subseteq torn' /\ torn' \subseteq torn \cup {r}
    BY DEF Accept, Build, Built, InChild, Spawn, ChildWrites, ChildEnds, ChildTimeout,
           Prepare, Approve, KidReads, KidEnds, PromptEnds, PromptTimeout, Goto, global,
           own, nesting, TypeOK
  <1>2. /\ pc[r] \in {"idle", "build", "spawn", "child", "prepare", "prompt"} \/ pc'[r] = pc[r]
        /\ pc[r] \in {"idle", "build", "spawn", "child", "prepare", "prompt"} \/ torn' = torn
        /\ pc'[r] \in {"build", "raised", "start", "spawn", "child", "prepare", "prompt",
                      "answered"} \/ pc'[r] = pc[r]
    <2>1. kind[r] \in {"python", "native", "elevated"}
      BY DEF TypeOK, Kind
    <2> QED
      BY <2>1 DEF Accept, Build, Built, InChild, Spawn, ChildWrites, ChildEnds,
                  ChildTimeout, Prepare, Approve, KidReads, KidEnds, PromptEnds,
                  PromptTimeout, Goto, TypeOK
  <1>3. Active' = Active
    BY <1>1, <1>2 DEF Active
  <1>4. \A q \in Active : Settled(q)' <=> Settled(q)
    <2>1. \A q \in Active \ {r} : Settled(q)' <=> Settled(q)
      BY <1>1, OthersSettled
    <2>2. r \in Active => (Settled(r)' <=> Settled(r))
      BY <1>1, <1>2 DEF Active, Settled
    <2> QED
      BY <2>1, <2>2
  <1> PathThere /\ PathCopied
    BY <1>1 DEF WhiteInv
  <1>5. PathThere'
    BY <1>1, <1>3, <1>4 DEF PathThere
  <1>6. Host # Unset
    BY ReqOK
  <1>7. CASE Accept(r)
    <2>1. /\ pc'[r] = "build" /\ todo'[r] = Keys(environ) /\ env' = env
          /\ torn' = IF Shaky THEN torn \cup {r} ELSE torn
          /\ \A q \in Req \ {r} : todo'[q] = todo[q]
      BY <1>7 DEF Accept, Goto, TypeOK
    <2>2. ASSUME r \notin torn' PROVE "path" \in todo'[r]
      <3>1. \A s \in Active : Settled(s)
        BY <2>1, <2>2 DEF Shaky, Settled
      <3> QED
        BY <1>6, <2>1, <3>1 DEF PathThere, Keys, Key
    <2>3. PathCopied'
      BY <1>1, <2>1, <2>2 DEF PathCopied, Made
    <2> QED
      BY <1>5, <2>3
  <1>8. CASE Build(r)
    <2>1. PICK k \in todo[r] :
             IF environ[k] # Unset
             THEN /\ env'  = [env EXCEPT ![r][k] = IF k \in Keep THEN environ[k] ELSE Unset]
                  /\ todo' = [todo EXCEPT ![r] = @ \ {k}]
                  /\ UNCHANGED pc
             ELSE Goto(r, "raised") /\ UNCHANGED <<env, todo>>
      BY <1>8 DEF Build
    <2>2. pc[r] = "build" /\ torn' = torn
      BY <1>8 DEF Build
    <2>3. ASSUME r \notin torn PROVE environ["path"] = Host
      <3>1. \A s \in Active : Settled(s)
        BY <2>2, <2>3 DEF WhiteInv, CopyInv, Copiers, Copying
      <3> QED
        BY <3>1 DEF PathThere
    <2>4. CASE environ[k] # Unset
      <3>1. /\ \A q \in Req \ {r} : env'[q] = env[q] /\ todo'[q] = todo[q]
            /\ pc'[r] = "build" /\ todo'[r] = todo[r] \ {k}
        BY <2>1, <2>2, <2>4 DEF TypeOK
      <3>2. ASSUME r \notin torn, "path" \notin todo'[r] PROVE env'[r]["path"] = Host
        <4>1. CASE k = "path"
          <5>1. env[r] \in [Key -> Val] /\ "path" \in Key /\ k \in Keep
            BY <4>1 DEF TypeOK, Env, Key, Keep
          <5> QED
            BY <2>1, <2>3, <2>4, <3>2, <4>1, <5>1 DEF TypeOK
        <4>2. CASE k # "path"
          <5>1. env[r]["path"] = Host
            BY <2>2, <3>1, <3>2, <4>2 DEF PathCopied
          <5>2. env[r] \in [Key -> Val] /\ env'[r] = [env[r] EXCEPT ![k] = IF k \in Keep THEN environ[k] ELSE Unset]
            BY <2>1, <2>4 DEF TypeOK, Env
          <5> QED
            BY <4>2, <5>1, <5>2 DEF Key
        <4> QED
          BY <4>1, <4>2
      <3>3. PathCopied'
        BY <1>1, <2>2, <3>1, <3>2 DEF PathCopied, Made
      <3> QED
        BY <1>5, <3>3
    <2>5. CASE environ[k] = Unset
      <3>1. env' = env /\ todo' = todo /\ pc'[r] = "raised"
        BY <2>1, <2>5 DEF Goto, TypeOK
      <3>2. PathCopied'
        BY <1>1, <2>2, <3>1 DEF PathCopied, Made
      <3> QED
        BY <1>5, <3>2
    <2> QED
      BY <2>4, <2>5
  <1>9. CASE Built(r)
    <2>1. /\ pc[r] = "build" /\ todo[r] = {} /\ todo' = todo /\ torn' = torn
          /\ \A q \in Req \ {r} : env'[q] = env[q]
          /\ env'[r] = [env[r] EXCEPT !["param"] = r]
      BY <1>9 DEF Built, TypeOK
    <2>2. env'[r]["path"] = env[r]["path"]
      BY <2>1 DEF TypeOK, Env, Key
    <2>3. kind[r] \in {"python", "native", "elevated"}
      BY DEF TypeOK, Kind
    <2>4. pc'[r] # "build"
      BY <1>9, <2>3 DEF Built, Goto, TypeOK
    <2>5. PathCopied'
      BY <1>1, <2>1, <2>2, <2>4 DEF PathCopied
    <2> QED
      BY <1>5, <2>5
  <1>10. CASE InChild(r)
    <2>1. env' = env /\ todo' = todo /\ torn' = torn
      BY <1>10 DEF InChild, Spawn, ChildWrites, ChildEnds, ChildTimeout, Prepare,
                   Approve, KidReads, KidEnds, PromptEnds, PromptTimeout, own
    <2>2. \/ pc'[r] = pc[r]
          \/ pc[r] \in {"spawn", "child", "prepare", "prompt"} /\ pc'[r] # "build"
      BY <1>10 DEF InChild, Spawn, ChildWrites, ChildEnds, ChildTimeout, Prepare,
                   Approve, KidReads, KidEnds, PromptEnds, PromptTimeout, Goto, TypeOK
    <2>3. PathCopied'
      BY <1>1, <2>1, <2>2 DEF PathCopied, Made
    <2> QED
      BY <1>5, <2>3
  <1> QED
    BY <1>7, <1>8, <1>9, <1>10

LEMMA NoPrivateNext == ASSUME NoPrivate, TypeOK, [Next]_vars PROVE NoPrivate'
  <1>1. CASE env' = env
    BY <1>1 DEF NoPrivate
  <1>2. CASE UNCHANGED vars
    BY <1>1, <1>2 DEF vars, own
  <1>3. ASSUME NEW r \in Req, Build(r), env' # env PROVE NoPrivate'
    <2>1. PICK k \in todo[r] :
             env' = [env EXCEPT ![r] = [env[r] EXCEPT ![k] = IF k \in Keep THEN environ[k] ELSE Unset]]
      BY <1>3 DEF Build
    <2>2. k = "private" => k \notin Keep
      BY DEF Keep
    <2>3. env[r] \in [Key -> Val] /\ "private" \in Key
      BY DEF TypeOK, Env, Key
    <2>4. env'[r]["private"] = Unset
      BY <2>1, <2>2, <2>3 DEF TypeOK, NoPrivate
    <2> QED
      BY <2>1, <2>4 DEF TypeOK, NoPrivate
  <1>4. ASSUME NEW r \in Req, Built(r) PROVE NoPrivate'
    <2>1. env' = [env EXCEPT ![r] = [env[r] EXCEPT !["param"] = r]]
      BY <1>4 DEF Built
    <2>2. env[r] \in [Key -> Val] /\ "private" \in Key
      BY DEF TypeOK, Env, Key
    <2>3. env'[r]["private"] = Unset
      BY <2>1, <2>2 DEF TypeOK, NoPrivate
    <2> QED
      BY <2>1, <2>3 DEF TypeOK, NoPrivate
  <1>5. ASSUME NEW r \in Req, Accept(r) \/ InProcess(r) \/ InChild(r) PROVE env' = env
    BY <1>5 DEF Accept, InProcess, SaveList, SaveRead, SaveStream, Clear, ReClear,
                PopItem, Update, ReUpdate, SetItem, Refuse, Redirect, Write, ScriptEnds,
                RestoreStream, Restored, InChild, Spawn, ChildWrites, ChildEnds,
                ChildTimeout, Prepare, Approve, KidReads, KidEnds, PromptEnds,
                PromptTimeout, own
  <1> QED
    BY <1>1, <1>2, <1>3, <1>4, <1>5 DEF Next

LEMMA WhiteNext == WhiteInv /\ [Next]_vars => WhiteInv'
  <1> SUFFICES ASSUME WhiteInv, [Next]_vars PROVE WhiteInv'
    OBVIOUS
  <1>1. NestInv' /\ CopyInv' /\ TypeOK /\ TypeOK'
    BY NestNext, CopyNext DEF WhiteInv, NestInv
  <1>2. NoPrivate'
    BY <1>1, NoPrivateNext DEF WhiteInv
  <1>3. ASSUME ~mixed' PROVE PathThere' /\ PathCopied'
    <2>1. CASE UNCHANGED vars
      <3> USE <2>1 DEF vars, global, own, nesting
      <3>1. Active' = Active /\ \A s : Settled(s)' <=> Settled(s)
        BY DEF Active, Settled
      <3>2. PathThere' <=> PathThere
        BY <3>1 DEF PathThere
      <3>3. PathCopied' <=> PathCopied
        BY DEF PathCopied
      <3> QED
        BY <1>3, <3>2, <3>3 DEF WhiteInv
    <2>2. CASE Next
      BY <1>1, <1>3, <2>2, InProcessPath, OtherPath DEF Next
    <2> QED
      BY <2>1, <2>2
  <1> QED
    BY <1>1, <1>2, <1>3 DEF WhiteInv

LEMMA WhiteInit == Init => WhiteInv
  <1> SUFFICES ASSUME Init PROVE WhiteInv
    OBVIOUS
  <1>1. Active = {}
    BY DEF Init, Active
  <1>2. PathThere
    BY <1>1 DEF Init, PathThere, HostEnv, Key
  <1>3. PathCopied
    BY DEF Init, PathCopied, Made
  <1>4. NoPrivate
    BY DEF Init, NoPrivate, Empty, Key
  <1> QED
    BY <1>2, <1>3, <1>4, NestInit, CopyInit DEF WhiteInv

\* Every script's environment holds none of the agent's other variables, and
\* has the whitelisted ones unless it was copied during a change or one run
\* has gone on while a later one was under way.
THEOREM EnvironmentsAreWhitelists == Spec => []EnvIsWhitelist
  <1>1. WhiteInv => EnvIsWhitelist
    BY DEF WhiteInv, NoPrivate, PathCopied, Made, EnvIsWhitelist
  <1> QED
    BY <1>1, WhiteInit, WhiteNext, PTL DEF Spec

-----------------------------------------------------------------------------
(* The streams and the buffers.                                            *)

\* Stages of a request whose buffer does not exist yet.
Earlier == {"idle", "build", "start", "spawn", "child", "prepare", "prompt"}

\* A run whose script is being run.
Printing(q) == q \in Active /\ pc[q] \in {"run", "restore"}

\* The stream o is one a run below depth d may have put there, and none
\* that is older than a script which is being run.
Fits(o, d) ==
    /\ o = Host \/ (o \in Active /\ depth[o] < d)
    /\ \A q \in Active : Printing(q) /\ depth[q] < d => o \in Active /\ depth[q] <= depth[o]

\* The present stream fits above all runs, and what a run saved fits below it.
StreamsFit == /\ Fits(stdout, deep + 1)
              /\ \A r \in Active : Fits(savedOut[r], depth[r])

BuffersFit ==
    /\ \A r \in Req : pc[r] \in Earlier => out[r] = {}
    /\ \A r \in Active : \A q \in out[r] : q \in Active /\ depth[q] <= depth[r]

StreamInv == NestInv /\ (~mixed => StreamsFit /\ BuffersFit)

\* A stream still fits when runs other than those below d have changed.
LEMMA FitsStill ==
    ASSUME NEW o, NEW d, NEW r, Fits(o, d),
           \A q \in Active : depth[q] < d => q \in Active' /\ depth'[q] = depth[q],
           \A q \in Active' : depth'[q] < d /\ Printing(q)' => q \in Active /\ Printing(q),
           \A q \in Active' \cap Active : depth'[q] = depth[q]
    PROVE  Fits(o, d)'
  <1>1. o = Host \/ (o \in Active' /\ depth'[o] < d)
    BY DEF Fits
  <1>2. ASSUME NEW q \in Active', Printing(q)', depth'[q] < d
        PROVE  o \in Active' /\ depth'[q] <= depth'[o]
    <2>1. q \in Active /\ Printing(q) /\ depth[q] = depth'[q]
      BY <1>2
    <2>2. o \in Active /\ depth[q] <= depth[o]
      BY <1>2, <2>1 DEF Fits
    <2>3. depth[o] < d
      BY <2>2, ReqOK DEF Fits, Active
    <2> QED
      BY <2>1, <2>2, <2>3
  <1> QED
    BY <1>1, <1>2 DEF Fits

\* A step of the newest run, which stays or leaves, and writes no line.
LEMMA StreamTop ==
    ASSUME StreamInv, TypeOK', ~mixed, NEW r \in Active, depth[r] = deep,
           Active' = Active \/ Active' = Active \ {r},
           \A q \in Req \ {r} : pc'[q] = pc[q] /\ depth'[q] = depth[q],
           r \in Active' => depth'[r] = depth[r],
           savedOut' = savedOut, out' = out, pc'[r] \notin Earlier,
           Fits(stdout, deep + 1)'
    PROVE  StreamsFit' /\ BuffersFit'
  <1> Active \subseteq Req /\ TypeOK /\ Nested /\ StreamsFit /\ BuffersFit
    BY DEF Active, StreamInv, NestInv
  <1>1. \A q \in Active' : q \in Active /\ depth'[q] = depth[q] /\ depth[q] <= deep
    BY DEF Nested
  <1>2. \A q \in Active \ {r} : q \in Active' /\ depth[q] < deep
    BY DEF Nested, TypeOK
  <1>3. ASSUME NEW s \in Active' PROVE Fits(savedOut[s], depth[s])'
    <2>1. Fits(savedOut[s], depth[s])
      BY <1>1 DEF StreamsFit
    <2>2. \A q \in Active : depth[q] < depth[s] => q # r
      BY <1>1 DEF TypeOK
    <2>3. \A q \in Active : depth[q] < depth[s] => q \in Active' /\ depth'[q] = depth[q]
      BY <1>1, <1>2, <2>2
    <2>4. \A q \in Active' : depth'[q] < depth[s] /\ Printing(q)' => q \in Active /\ Printing(q)
      BY <1>1, <2>2 DEF Printing
    <2>5. \A q \in Active' \cap Active : depth'[q] = depth[q]
      BY <1>1
    <2>6. savedOut'[s] = savedOut[s] /\ depth'[s] = depth[s]
      BY <1>1
    <2> QED
      BY <2>1, <2>3, <2>4, <2>5, <2>6, FitsStill
  <1>4. \A q \in Req : pc'[q] \in Earlier => out'[q] = {}
    BY DEF BuffersFit
  <1>5. ASSUME NEW s \in Active', NEW q \in out'[s] PROVE q \in Active' /\ depth'[q] <= depth'[s]
    <2>1. q \in Active /\ depth[q] <= depth[s]
      BY <1>1, <1>5 DEF BuffersFit
    <2>2. q = r => s = r
      BY <1>1, <1>2, <2>1 DEF Nested, TypeOK
    <2>3. q \in Active'
      BY <1>2, <1>5, <2>1, <2>2
    <2> QED
      BY <1>1, <2>1, <2>3
  <1> QED
    BY <1>3, <1>4, <1>5 DEF StreamsFit, BuffersFit

\* The present stream, when the newest run leaves it alone and stays.
LEMMA StreamKept ==
    ASSUME StreamInv, TypeOK', ~mixed, NEW r \in Active, depth[r] = deep,
           Active' = Active, deep' = deep, stdout' = stdout, depth' = depth,
           \A q \in Req \ {r} : pc'[q] = pc[q], ~Printing(r)'
    PROVE  Fits(stdout, deep + 1)'
  <1>1. Fits(stdout, deep + 1) /\ Active \subseteq Req
    BY DEF StreamInv, StreamsFit, Active
  <1>2. \A q \in Active' : Printing(q)' => Printing(q)
    BY <1>1 DEF Printing
  <1> QED
    BY <1>1, <1>2, FitsStill

\* The present stream, when the newest run leaves.
LEMMA StreamLeft ==
    ASSUME StreamInv, TypeOK', ~mixed, NEW r \in Active, depth[r] = deep,
           Active' = Active \ {r}, deep' = deep - 1, stdout' = stdout, stdout = savedOut[r],
           \A q \in Req \ {r} : pc'[q] = pc[q] /\ depth'[q] = depth[q]
    PROVE  Fits(stdout, deep + 1)'
  <1>1. Fits(stdout, deep) /\ Active \subseteq Req /\ deep' + 1 = deep
    <2>1. Fits(savedOut[r], depth[r])
      BY DEF StreamInv, StreamsFit
    <2>2. deep \in Int
      BY DEF StreamInv, NestInv, TypeOK
    <2>3. deep' + 1 = deep /\ Active \subseteq Req
      BY <2>2 DEF Active
    <2>4. Fits(stdout, deep)
      BY <2>1
    <2> QED
      BY <2>3, <2>4
  <1>2. \A q \in Active \ {r} : q \in Active' /\ depth'[q] = depth[q]
    BY <1>1
  <1>3. \A q \in Active' : Printing(q)' => q \in Active /\ Printing(q)
    BY <1>1 DEF Printing
  <1>4. \A q \in Active : depth[q] < deep => q # r
    BY DEF StreamInv, NestInv, TypeOK
  <1> QED
    BY <1>1, <1>2, <1>3, <1>4, FitsStill

\* An in-process run starts.
LEMMA StreamStart ==
    ASSUME StreamInv, TypeOK', ~mixed, NEW r \in Req, SaveList(r)
    PROVE  StreamsFit' /\ BuffersFit'
  <1> Active \subseteq Req /\ TypeOK /\ Nested /\ StreamsFit /\ BuffersFit
    BY DEF Active, StreamInv, NestInv
  <1>1. /\ pc[r] = "start" /\ pc'[r] = "save" /\ out' = out /\ stdout' = stdout
        /\ \A q \in Req \ {r} : /\ pc'[q] = pc[q] /\ depth'[q] = depth[q]
                               /\ savedOut'[q] = savedOut[q]
        /\ depth'[r] = deep + 1 /\ savedOut'[r] = stdout /\ deep' = deep + 1
    BY DEF SaveList, Goto, global, TypeOK
  <1>2. deep \in Nat /\ Active' = Active \cup {r} /\ r \notin Active
    BY <1>1 DEF Active, Nested
  <1>3. /\ \A q \in Active : q \in Active' /\ depth'[q] = depth[q] /\ depth[q] <= deep
        /\ \A q \in Active' : Printing(q)' => q \in Active /\ Printing(q)
    BY <1>1, <1>2 DEF Nested, Printing
  <1>4. ASSUME NEW s \in Active PROVE Fits(savedOut[s], depth[s])'
    <2>1. Fits(savedOut[s], depth[s]) /\ savedOut'[s] = savedOut[s] /\ depth'[s] = depth[s]
      BY <1>1, <1>2 DEF StreamsFit
    <2> QED
      BY <1>3, <2>1, FitsStill
  <1>5. Fits(savedOut[r], depth[r])'
    <2>1. Fits(stdout, deep + 1) /\ savedOut'[r] = stdout /\ depth'[r] = deep + 1
      BY <1>1 DEF StreamsFit
    <2> QED
      BY <1>3, <2>1, FitsStill
  <1>6. Fits(stdout, deep + 1)'
    <2>1. stdout = Host \/ (stdout \in Active' /\ depth'[stdout] < deep' + 1)
      <3>1. stdout = Host \/ (stdout \in Active /\ depth[stdout] < deep + 1)
        BY DEF StreamsFit, Fits
      <3>2. stdout \in Active => depth[stdout] \in Int
        BY DEF TypeOK
      <3> QED
        BY <1>1, <1>2, <1>3, <3>1, <3>2
    <2>2. ASSUME NEW q \in Active', Printing(q)'
          PROVE  stdout \in Active' /\ depth'[q] <= depth'[stdout]
      <3>1. q \in Active /\ Printing(q) /\ depth[q] < deep + 1
        BY <1>2, <1>3, <2>2 DEF TypeOK
      <3>2. stdout \in Active /\ depth[q] <= depth[stdout]
        BY <3>1 DEF StreamsFit, Fits
      <3> QED
        BY <1>3, <3>1, <3>2
    <2> QED
      BY <1>1, <2>1, <2>2 DEF Fits
  <1>7. ASSUME NEW s \in Active', NEW q \in out'[s] PROVE q \in Active' /\ depth'[q] <= depth'[s]
    <2>1. s # r
      BY <1>1, <1>7 DEF BuffersFit, Earlier
    <2>2. q \in Active /\ depth[q] <= depth[s]
      BY <1>1, <1>2, <1>7, <2>1 DEF BuffersFit
    <2> QED
      BY <1>2, <1>3, <2>1, <2>2
  <1>8. \A q \in Req : pc'[q] \in Earlier => out'[q] = {}
    BY <1>1 DEF BuffersFit, Earlier
  <1> QED
    BY <1>2, <1>4, <1>5, <1>6, <1>7, <1>8 DEF StreamsFit, BuffersFit

\* The script writes a line: to a buffer of a run that is as new or newer.
LEMMA StreamWrite ==
    ASSUME StreamInv, TypeOK', ~mixed, NEW r \in Req, Write(r)
    PROVE  StreamsFit' /\ BuffersFit'
  <1> Active \subseteq Req /\ TypeOK /\ Nested /\ StreamsFit /\ BuffersFit
    BY DEF Active, StreamInv, NestInv
  <1>1. UNCHANGED <<pc, stdout, savedOut, depth, deep>> /\ pc[r] = "run"
    BY DEF Write, global, own, nesting
  <1>2. Active' = Active /\ r \in Active /\ \A q : Printing(q)' <=> Printing(q)
    BY <1>1 DEF Active, Printing
  <1>3. StreamsFit'
    BY <1>1, <1>2 DEF StreamsFit, Fits
  <1>4. stdout \in Active /\ depth[r] <= depth[stdout]
    <2>1. Printing(r) /\ depth[r] < deep + 1
      BY <1>1, <1>2 DEF Printing, Nested, TypeOK
    <2> QED
      BY <1>2, <2>1 DEF StreamsFit, Fits
  <1>5. out' = [out EXCEPT ![stdout] = @ \cup {r}]
    BY <1>4 DEF Write
  <1>6. \A q \in Req : pc'[q] \in Earlier => out'[q] = {}
    <2>1. pc[stdout] \notin Earlier
      BY <1>4 DEF Active, Earlier
    <2> QED
      BY <1>1, <1>5, <2>1 DEF BuffersFit, TypeOK
  <1>7. ASSUME NEW s \in Active, NEW q \in out'[s] PROVE q \in Active /\ depth[q] <= depth[s]
    <2>1. q \in out[s] \/ (s = stdout /\ q = r)
      BY <1>5, <1>7 DEF TypeOK
    <2> QED
      BY <1>2, <1>4, <2>1 DEF BuffersFit
  <1> QED
    BY <1>1, <1>2, <1>3, <1>6, <1>7 DEF BuffersFit

\* A step that leaves the runs, the streams and the buffers alone.
LEMMA StreamAside ==
    ASSUME StreamInv, ~mixed, UNCHANGED <<stdout, savedOut, out, depth, deep>>, Active' = Active,
           \A q \in Active : Printing(q)' <=> Printing(q),
           \A q \in Req : pc'[q] \in Earlier => pc[q] \in Earlier
    PROVE  StreamsFit' /\ BuffersFit'
  BY DEF StreamInv, StreamsFit, Fits, BuffersFit

LEMMA InProcessStream ==
    ASSUME StreamInv, TypeOK', NEW r \in Req, InProcess(r), ~mixed'
    PROVE  StreamsFit' /\ BuffersFit'
  <1> TypeOK /\ Active \subseteq Req
    BY DEF Active, StreamInv, NestInv
  <1>1. ~mixed
    BY DEF InProcess, SaveList, SaveRead, SaveStream, Clear, ReClear, PopItem, Update,
           ReUpdate, SetItem, Refuse, Redirect, Write, ScriptEnds, RestoreStream, Restored, Step,
           Leave, nesting
  <1> Nested /\ Chain /\ StreamsFit
    BY <1>1 DEF StreamInv, NestInv
  <1>2. ASSUME r \in Active, depth[r] = deep, Active' = Active, deep' = deep, stdout' = stdout,
               savedOut' = savedOut, out' = out, depth' = depth,
               \A q \in Req \ {r} : pc'[q] = pc[q],
               pc'[r] \in {"save", "clear", "update", "undo", "reclear", "reupdate"}
        PROVE  StreamsFit' /\ BuffersFit'
    <2>1. ~Printing(r)' /\ pc'[r] \notin Earlier
      BY <1>2 DEF Printing, Earlier
    <2>2. Fits(stdout, deep + 1)'
      BY <1>1, <1>2, <2>1, StreamKept
    <2> QED
      BY <1>1, <1>2, <2>1, <2>2, StreamTop
  <1>3. ASSUME r \in Active, depth[r] = deep, Active' = Active \ {r}, deep' = deep - 1,
               stdout' = stdout, stdout = savedOut[r], savedOut' = savedOut, out' = out,
               \A q \in Req \ {r} : pc'[q] = pc[q] /\ depth'[q] = depth[q],
               pc'[r] \in {"raised", "answered"}
        PROVE  StreamsFit' /\ BuffersFit'
    <2>1. pc'[r] \notin Earlier
      BY <1>3 DEF Earlier
    <2>2. Fits(stdout, deep + 1)'
      BY <1>1, <1>3, StreamLeft
    <2> QED
      BY <1>1, <1>3, <2>1, <2>2, StreamTop
  <1>4. CASE SaveRead(r)
    <2>1. /\ pc[r] = "save" /\ stdout' = stdout /\ savedOut' = savedOut /\ out' = out
          /\ \A q \in Req \ {r} : pc'[q] = pc[q] /\ depth'[q] = depth[q]
          /\ \/ pc' = pc /\ depth' = depth /\ deep' = deep
             \/ pc'[r] = "raised" /\ deep' = deep - 1
      BY <1>4 DEF SaveRead, Goto, Leave, global, TypeOK
    <2>2. depth[r] = deep /\ r \in Active
      BY <1>4, <2>1 DEF SaveRead, Step, Leave, Active
    <2>3. stdout = savedOut[r]
      BY <2>1, <2>2 DEF Chain, Left
    <2>5. CASE pc' = pc /\ depth' = depth /\ deep' = deep
      <3>1. Active' = Active
        BY <2>5 DEF Active
      <3> QED
        BY <1>2, <2>1, <2>2, <2>5, <3>1
    <2>6. CASE pc'[r] = "raised" /\ deep' = deep - 1
      <3>1. Active' = Active \ {r}
        BY <2>1, <2>6 DEF Active
      <3> QED
        BY <1>3, <2>1, <2>2, <2>3, <2>6, <3>1
    <2> QED
      BY <2>1, <2>5, <2>6
  <1>5. CASE SaveStream(r)
    <2>1. /\ pc[r] = "save" /\ pc'[r] = "clear" /\ stdout' = stdout /\ out' = out
          /\ depth' = depth /\ deep' = deep /\ savedOut' = [savedOut EXCEPT ![r] = stdout]
          /\ \A q \in Req \ {r} : pc'[q] = pc[q]
      BY <1>5 DEF SaveStream, Goto, global, TypeOK
    <2>2. depth[r] = deep /\ r \in Active /\ Active' = Active
      BY <1>5, <2>1 DEF SaveStream, Step, Active
    <2>3. stdout = savedOut[r]
      BY <2>1, <2>2 DEF Chain, Left
    <2>4. savedOut' = savedOut
      BY <2>1, <2>3 DEF TypeOK
    <2> QED
      BY <1>2, <2>1, <2>2, <2>4
  <1>6. CASE Clear(r) \/ ReClear(r) \/ Update(r) \/ ReUpdate(r) \/ Refuse(r)
    <2> USE DEF Clear, ReClear, Update, ReUpdate, Refuse, PopItem, SetItem
    <2>1. /\ pc[r] \in {"clear", "update", "reclear", "reupdate"}
          /\ pc'[r] \in {"clear", "update", "undo", "reclear", "reupdate"}
          /\ UNCHANGED <<stdout, savedOut, out, depth, deep>>
          /\ \A q \in Req \ {r} : pc'[q] = pc[q]
      BY <1>6 DEF Goto, global, TypeOK
    <2>2. depth[r] = deep /\ r \in Active /\ Active' = Active
      BY <1>6, <2>1 DEF Step, Active
    <2> QED
      BY <1>2, <2>1, <2>2
  <1>7. CASE Redirect(r)
    <2>1. /\ pc[r] = "update" /\ pc'[r] = "run" /\ stdout' = r
          /\ UNCHANGED <<savedOut, out, depth, deep>>
          /\ \A q \in Req \ {r} : pc'[q] = pc[q]
      BY <1>7 DEF Redirect, Goto, own, TypeOK
    <2>2. depth[r] = deep /\ r \in Active /\ Active' = Active
      BY <1>7, <2>1 DEF Redirect, Step, Active
    <2>3. Fits(stdout, deep + 1)'
      BY <2>1, <2>2 DEF Fits, Nested, TypeOK
    <2>4. pc'[r] \notin Earlier
      BY <2>1 DEF Earlier
    <2> QED
      BY <1>1, <2>1, <2>2, <2>3, <2>4, StreamTop
  <1>8. CASE RestoreStream(r)
    <2>1. /\ pc[r] \in {"undo", "restore"} /\ pc'[r] = "reclear" /\ stdout' = savedOut[r]
          /\ UNCHANGED <<savedOut, out, depth, deep>>
          /\ \A q \in Req \ {r} : pc'[q] = pc[q]
      BY <1>8 DEF RestoreStream, Goto, own, TypeOK
    <2>2. depth[r] = deep /\ r \in Active /\ Active' = Active
      BY <1>8, <2>1 DEF RestoreStream, Step, Active
    <2>3. Fits(savedOut[r], deep)
      BY <2>2 DEF StreamsFit
    <2>4. Fits(stdout, deep + 1)'
      <3>1. stdout' = Host \/ (stdout' \in Active /\ depth[stdout'] < deep + 1)
        BY <2>1, <2>3 DEF Fits, TypeOK
      <3>2. ASSUME NEW q \in Active, Printing(q)'
            PROVE  stdout' \in Active /\ depth[q] <= depth[stdout']
        <4>1. q # r /\ Printing(q)
          BY <2>1, <3>2 DEF Printing
        <4>2. depth[q] < deep
          BY <2>2, <4>1 DEF Nested, TypeOK
        <4> QED
          BY <2>1, <2>3, <4>1, <4>2 DEF Fits
      <3> QED
        BY <2>1, <2>2, <3>1, <3>2 DEF Fits
    <2>5. pc'[r] \notin Earlier
      BY <2>1 DEF Earlier
    <2> QED
      BY <1>1, <2>1, <2>2, <2>4, <2>5, StreamTop
  <1>9. CASE ScriptEnds(r)
    <2>1. /\ pc[r] = "run" /\ pc'[r] = "restore"
          /\ UNCHANGED <<stdout, savedOut, out, depth, deep>>
          /\ \A q \in Req \ {r} : pc'[q] = pc[q]
      BY <1>9 DEF ScriptEnds, Goto, global, nesting, TypeOK
    <2>2. Active' = Active /\ \A q \in Active : Printing(q)' <=> Printing(q)
      BY <2>1 DEF Active, Printing
    <2>3. \A q \in Req : pc'[q] \in Earlier => pc[q] \in Earlier
      BY <2>1 DEF Earlier
    <2> QED
      BY <1>1, <2>1, <2>2, <2>3, StreamAside
  <1>10. CASE Restored(r)
    <2>1. /\ pc[r] = "reupdate" /\ pc'[r] \in {"raised", "answered"}
          /\ UNCHANGED <<stdout, savedOut, out>> /\ deep' = deep - 1
          /\ \A q \in Req \ {r} : pc'[q] = pc[q] /\ depth'[q] = depth[q]
      BY <1>10 DEF Restored, Leave, Goto, global, own, TypeOK
    <2>2. depth[r] = deep /\ r \in Active /\ Active' = Active \ {r}
      BY <1>10, <2>1 DEF Restored, Leave, Step, Active
    <2>3. stdout = savedOut[r]
      BY <2>1, <2>2 DEF Chain, Left
    <2> QED
      BY <1>3, <2>1, <2>2, <2>3
  <1> QED
    BY <1>1, <1>4, <1>5, <1>6, <1>7, <1>8, <1>9, <1>10, StreamStart, StreamWrite DEF
       InProcess

LEMMA OtherStream ==
    ASSUME StreamInv, NEW r \in Req, ~mixed',
           Accept(r) \/ Build(r) \/ Built(r) \/ InChild(r)
    PROVE  StreamsFit' /\ BuffersFit'
  <1> TypeOK /\ Active \subseteq Req
    BY DEF Active, StreamInv, NestInv
  <1>1. /\ UNCHANGED <<stdout, savedOut, out, depth, deep, mixed>>
        /\ \A q \in Req \ {r} : pc'[q] = pc[q]
    BY DEF Accept, Build, Built, InChild, Spawn, ChildWrites, ChildEnds, ChildTimeout,
           Prepare, Approve, KidReads, KidEnds, PromptEnds, PromptTimeout, Goto, global,
           own, nesting, TypeOK
  <1>2. \/ pc'[r] = pc[r]
        \/ /\ pc[r] \in {"idle", "build", "spawn", "child", "prepare", "prompt"}
           /\ pc'[r] \in {"build", "raised", "start", "spawn", "child", "prepare", "prompt",
                         "answered"}
    <2>1. kind[r] \in {"python", "native", "elevated"}
      BY DEF TypeOK, Kind
    <2> QED
      BY <2>1 DEF Accept, Build, Built, InChild, Spawn, ChildWrites, ChildEnds,
                  ChildTimeout, Prepare, Approve, KidReads, KidEnds, PromptEnds,
                  PromptTimeout, Goto, TypeOK
  <1>3. Active' = Active
    BY <1>1, <1>2 DEF Active
  <1>4. \A q \in Active : Printing(q)' <=> Printing(q)
    BY <1>1, <1>2, <1>3 DEF Printing
  <1>5. \A q \in Req : pc'[q] \in Earlier => pc[q] \in Earlier
    BY <1>1, <1>2 DEF Earlier
  <1> QED
    BY <1>1, <1>3, <1>4, <1>5, StreamAside

LEMMA StreamNext == StreamInv /\ [Next]_vars => StreamInv'
  <1> SUFFICES ASSUME StreamInv, [Next]_vars PROVE StreamInv'
    OBVIOUS
  <1>1. NestInv' /\ TypeOK'
    BY NestNext DEF StreamInv, NestInv
  <1>2. ASSUME ~mixed' PROVE StreamsFit' /\ BuffersFit'
    <2>1. CASE UNCHANGED vars
      <3> USE <2>1 DEF vars, global, own, nesting
      <3>1. Active' = Active /\ \A q : Printing(q)' <=> Printing(q)
        BY DEF Active, Printing
      <3>2. \A q \in Req : pc'[q] \in Earlier => pc[q] \in Earlier
        OBVIOUS
      <3> QED
        BY <1>2, <3>1, <3>2, StreamAside
    <2>2. CASE Next
      BY <1>1, <1>2, <2>2, InProcessStream, OtherStream DEF Next
    <2> QED
      BY <2>1, <2>2
  <1> QED
    BY <1>1, <1>2 DEF StreamInv

LEMMA StreamInit == Init => StreamInv
  <1> SUFFICES ASSUME Init PROVE StreamInv
    OBVIOUS
  <1>1. Active = {}
    BY DEF Init, Active
  <1>2. StreamsFit
    BY <1>1 DEF Init, StreamsFit, Fits
  <1>3. BuffersFit
    BY <1>1 DEF Init, BuffersFit
  <1> QED
    BY <1>2, <1>3, NestInit DEF StreamInv

\* While no run goes on under a later one, sys.stdout is the agent's or that
\* of a run under way, and a buffer gets lines of its own run and older ones.
THEOREM BuffersHoldOlderLines == Spec => []BuffersNest
  <1>1. StreamInv => BuffersNest
    BY DEF StreamInv, StreamsFit, Fits, BuffersFit, BuffersNest
  <1> QED
    BY <1>1, StreamInit, StreamNext, PTL DEF Spec

=============================================================================
