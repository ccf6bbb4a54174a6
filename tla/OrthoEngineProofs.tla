-------------------------- MODULE OrthoEngineProofs --------------------------
(***************************************************************************)
(* First what holds of the primer alone, for every set of atlases, every   *)
(* keep set, any unreadable atlas and any number of failed reads and       *)
(* expired touches.  Then the engine, which uses its primer only in the    *)
(* ways that Primer allows, for every configuration, position and event    *)
(* bound: what was shown of a primer so holds inside the agent.  Last, the *)
(* engine gives up its position or its warm files only for a cause.        *)
(***************************************************************************)
EXTENDS OrthoEngine, TLAPS

-----------------------------------------------------------------------------
(* Types.                                                                  *)

LEMMA KeepsAreAtlases ==
    ASSUME NEW k \in Keeps \cup {<<>>} PROVE ToSet(k) \subseteq Atlas
  <1>1. k \in Seq(Atlas)
    <2>1. CASE k \in Keeps
      BY <2>1, PrimerConstants DEF PrimerConstants
    <2>2. CASE k = <<>>
      BY <2>2
    <2> QED
      BY <2>1, <2>2
  <1> QED
    BY <1>1 DEF ToSet

LEMMA PrimerTypeInit == PrimerInit => PrimerTypeOK
  <1> SUFFICES ASSUME PrimerInit PROVE PrimerTypeOK
    OBVIOUS
  <1>1. path \in Atlas
    BY PrimerConstants DEF PrimerInit, PrimerConstants
  <1>2. 0 \in 0..MaxMishaps
    BY PrimerConstants DEF PrimerConstants
  <1> QED
    BY <1>1, <1>2 DEF PrimerInit, PrimerTypeOK

LEMMA PrimerTypeNext ==
    ASSUME PrimerTypeOK, [PrimerNext]_primerVars PROVE PrimerTypeOK'
  <1> USE DEF PrimerTypeOK
  <1>a. \A k \in Keeps \cup {<<>>} : ToSet(k) \subseteq Atlas
    BY KeepsAreAtlases
  <1>b. ToSet(order) \subseteq Atlas
    BY <1>a
  <1>m. ASSUME mishaps < MaxMishaps PROVE mishaps + 1 \in 0..MaxMishaps
    BY <1>m, PrimerConstants DEF PrimerConstants
  <1>1. ASSUME NEW k \in Keeps, Schedule(k) PROVE PrimerTypeOK'
    BY <1>1, <1>a DEF Schedule
  <1>2. CASE ClearPending
    BY <1>2 DEF ClearPending
  <1>3. CASE ReplacePrimer
    BY <1>3 DEF ReplacePrimer
  <1>4. CASE StopPrimer
    BY <1>4 DEF StopPrimer
  <1>5. CASE Take
    <2>1. PICK p \in pending : pending' = pending \ {p} /\ path' = p
                               /\ full' = (p \notin warm)
      BY <1>5 DEF Take
    <2> QED
      BY <1>5, <1>b, <2>1 DEF Take
  <1>6. CASE Record
    <2>1. mishaps' \in 0..MaxMishaps
      BY <1>6, <1>m DEF Record, ReadOk, ReadFails
    <2> QED
      BY <1>6, <2>1 DEF Record
  <1>7. CASE WorkerExit
    BY <1>7 DEF WorkerExit
  <1>8. CASE Age
    BY <1>8, <1>m DEF Age
  <1>9. CASE UNCHANGED primerVars
    BY <1>9 DEF primerVars
  <1> QED
    BY <1>1, <1>2, <1>3, <1>4, <1>5, <1>6, <1>7, <1>8, <1>9
       DEF PrimerNext, WorkerStep

\* Every variable of the primer keeps its type, and what is queued comes from
\* the keep set of the last schedule().
THEOREM PrimerTypeCorrect == PrimerSpec => []PrimerTypeOK
  BY PrimerTypeInit, PrimerTypeNext, PTL DEF PrimerSpec

-----------------------------------------------------------------------------
(* The warm map.                                                           *)

\* What makes the three properties inductive: only the worker adds to the
\* warm map, so what it reads in full is cold until the read is recorded;
\* what it touches was warm, and if schedule() dropped it since, it is the
\* only atlas that can come back uninvited.
WarmInv ==
    /\ PrimerTypeOK
    /\ primed \subseteq warm
    /\ WarmIsPrimedOrOvertaken
    /\ AtMostOneStray
    /\ worker = "reading" =>
         /\ full => path \notin warm
         /\ ~full => path \in warm \cup overtaken
         /\ path \notin ToSet(order) => warm \ ToSet(order) \subseteq {path}

LEMMA WarmInit == PrimerInit => WarmInv
  BY PrimerTypeInit DEF PrimerInit, WarmInv, WarmIsPrimedOrOvertaken, AtMostOneStray

LEMMA WarmNext ==
    ASSUME WarmInv, [PrimerNext]_primerVars PROVE WarmInv'
  <1> USE DEF WarmInv, WarmIsPrimedOrOvertaken, AtMostOneStray
  <1>0. PrimerTypeOK /\ PrimerTypeOK'
    BY PrimerTypeNext
  <1>1. ASSUME NEW k \in Keeps, Schedule(k) PROVE WarmInv'
    BY <1>0, <1>1 DEF Schedule
  <1>2. CASE ClearPending
    BY <1>0, <1>2 DEF ClearPending
  <1>3. CASE ReplacePrimer
    BY <1>0, <1>3 DEF ReplacePrimer
  <1>4. CASE StopPrimer
    BY <1>0, <1>4 DEF StopPrimer
  <1>5. CASE Take
    <2>1. PICK p \in pending : path' = p /\ full' = (p \notin warm)
      BY <1>5 DEF Take
    <2>2. p \in ToSet(order)
      BY <1>0, <2>1 DEF PrimerTypeOK
    <2> QED
      BY <1>0, <1>5, <2>1, <2>2 DEF Take
  <1>6. CASE Record
    <2>1. CASE ReadOk
      BY <1>0, <1>6, <2>1 DEF Record, ReadOk
    <2>2. CASE ReadFails
      BY <1>0, <1>6, <2>2 DEF Record
    <2> QED
      BY <1>6, <2>1, <2>2 DEF Record
  <1>7. CASE WorkerExit
    BY <1>0, <1>7 DEF WorkerExit
  <1>8. CASE Age
    BY <1>0, <1>8 DEF Age
  <1>9. CASE UNCHANGED primerVars
    BY <1>0, <1>9 DEF primerVars
  <1> QED
    BY <1>1, <1>2, <1>3, <1>4, <1>5, <1>6, <1>7, <1>8, <1>9
       DEF PrimerNext, WorkerStep

LEMMA WarmInvariant == PrimerSpec => []WarmInv
  BY WarmInit, WarmNext, PTL DEF PrimerSpec

\* An atlas is warm without a full read since its last drop only when the
\* drop overtook a touch of it.
THEOREM WarmNeedsAPrime == PrimerSpec => []WarmIsPrimedOrOvertaken
  <1>1. WarmInv => WarmIsPrimedOrOvertaken
    BY DEF WarmInv
  <1> QED
    BY <1>1, WarmInvariant, PTL

\* Outside the keep set at most one atlas is warm, whatever the number of
\* atlases that left it.
THEOREM OneStray == PrimerSpec => []AtMostOneStray
  <1>1. WarmInv => AtMostOneStray
    BY DEF WarmInv
  <1> QED
    BY <1>1, WarmInvariant, PTL

\* No atlas is read in full while it counts as primed.
THEOREM NoSecondPrime == PrimerSpec => []FullReadsAreNeeded
  <1>1. WarmInv => FullReadsAreNeeded
    BY DEF WarmInv, FullReadsAreNeeded
  <1> QED
    BY <1>1, WarmInvariant, PTL

-----------------------------------------------------------------------------
(* The engine.                                                             *)

\* What the refinement needs: the types, and that the engine stops its
\* primer last.
EngineInv ==
    /\ TypeOK
    /\ stopping <=> epc = "closed"

LEMMA EngineInit == Init => EngineInv /\ OfflineIsQuiet
  <1> SUFFICES ASSUME Init PROVE EngineInv /\ OfflineIsQuiet
    OBVIOUS
  <1>1. PrimerTypeOK
    BY PrimerTypeInit DEF Init
  <1>2. 0 \in 0..MaxEvents
    BY EngineConstants DEF EngineConstants
  <1> QED
    BY <1>1, <1>2 DEF Init, EngineInv, TypeOK, OfflineIsQuiet, PrimerInit

\* Whatever a reload does to the primer is a replacement or nothing.
LEMMA ReloadIsPrimer ==
    ASSUME TypeOK, Reload
    PROVE  /\ ReplacePrimer \/ UNCHANGED primerVars
           /\ cfg' \in Config /\ sample' \in Position \cup {NoSample}
           /\ silent' \in BOOLEAN /\ lastKeep' \in Keeps \cup {<<>>}
           /\ state' \in {"SIM_OFFLINE", "IDLE", "ACTIVE"}
  BY DEF Reload, Rebuild, TypeOK, feedVars

\* One step of the agent is one step of its primer, or none.
LEMMA EngineSimulates ==
    ASSUME EngineInv, [Next]_vars PROVE [PrimerNext]_primerVars
  <1> USE DEF EngineInv
  <1>1. CASE TickBegin
    <2>1. ~stopping
      BY <1>1 DEF TickBegin
    <2>2. ReplacePrimer \/ UNCHANGED primerVars
      BY <1>1, ReloadIsPrimer DEF TickBegin
    <2> QED
      BY <2>1, <2>2 DEF PrimerNext
  <1>2. CASE CheckAge
    <2>1. ~stopping
      BY <1>2 DEF CheckAge
    <2>2. ReplacePrimer \/ ClearPending \/ UNCHANGED primerVars
      BY <1>2, ReloadIsPrimer DEF CheckAge, Enter
    <2> QED
      BY <2>1, <2>2 DEF PrimerNext
  <1>3. CASE MountGate
    BY <1>3 DEF MountGate
  <1>4. CASE Plan
    <2>1. ~stopping
      BY <1>4 DEF Plan
    <2>2. CASE sample = NoSample
      BY <1>4, <2>2 DEF Plan
    <2>3. CASE sample # NoSample
      <3>1. KeepAt[sample][cfg.tuning] \in Keeps
        BY <2>3, EngineConstants DEF EngineConstants, TypeOK
      <3> QED
        BY <1>4, <2>1, <2>3, <3>1 DEF Plan, PrimerNext
    <2> QED
      BY <2>2, <2>3
  <1>5. CASE Close
    BY <1>5 DEF Close, PrimerNext
  <1>6. CASE WorkerMoves
    BY <1>6 DEF WorkerMoves, PrimerNext
  <1>7. CASE TimePasses
    BY <1>7 DEF TimePasses, PrimerNext
  <1>8. CASE World
    BY <1>8 DEF World, Sample, Silence, ConfigChanges, DriveGoes, DriveComes,
                StopSignal
  <1>9. CASE UNCHANGED vars
    BY <1>9 DEF vars
  <1> QED
    BY <1>1, <1>2, <1>3, <1>4, <1>5, <1>6, <1>7, <1>8, <1>9 DEF Next, EngineStep

LEMMA EngineNext ==
    ASSUME EngineInv, [Next]_vars PROVE EngineInv'
  <1> USE DEF EngineInv
  <1>0. PrimerTypeOK'
    BY EngineSimulates, PrimerTypeNext DEF TypeOK
  <1>m. ASSUME events < MaxEvents PROVE events + 1 \in 0..MaxEvents
    BY <1>m, EngineConstants DEF EngineConstants, TypeOK
  <1>1. CASE TickBegin
    <2>1. TypeOK'
      BY <1>0, <1>1, ReloadIsPrimer DEF TickBegin, GotoE, TypeOK, worldVars, feedVars
    <2>2. stopping' = stopping
      BY <1>1, ReloadIsPrimer DEF TickBegin, ReplacePrimer, primerVars
    <2> QED
      BY <1>1, <2>1, <2>2 DEF TickBegin, GotoE
  <1>2. CASE CheckAge
    <2>1. TypeOK'
      BY <1>0, <1>2, ReloadIsPrimer
         DEF CheckAge, GotoE, Enter, TypeOK, worldVars, feedVars
    <2>2. stopping' = stopping
      BY <1>2, ReloadIsPrimer
         DEF CheckAge, Enter, ClearPending, ReplacePrimer, primerVars
    <2> QED
      BY <1>2, <2>1, <2>2 DEF CheckAge, GotoE
  <1>3. CASE MountGate
    BY <1>0, <1>3 DEF MountGate, GotoE, TypeOK, worldVars, feedVars, primerVars
  <1>4. CASE Plan
    <2>1. sample # NoSample => KeepAt[sample][cfg.tuning] \in Keeps
      BY EngineConstants DEF EngineConstants, TypeOK
    <2> QED
      BY <1>0, <1>4, <2>1
         DEF Plan, GotoE, Schedule, TypeOK, worldVars, feedVars, primerVars
  <1>5. CASE Close
    BY <1>0, <1>5 DEF Close, GotoE, StopPrimer, TypeOK, worldVars, feedVars
  <1>6. CASE WorkerMoves
    BY <1>0, <1>6 DEF WorkerMoves, WorkerStep, Take, Record, WorkerExit, TypeOK,
                      worldVars, feedVars, engineVars
  <1>7. CASE TimePasses
    BY <1>0, <1>7 DEF TimePasses, Age, TypeOK, worldVars, feedVars, engineVars
  <1>8. CASE World
    <2>1. /\ UNCHANGED <<primerVars, engineVars>>
          /\ UNCHANGED events \/ Happens
      BY <1>8 DEF World, Sample, Silence, ConfigChanges, DriveGoes, DriveComes,
                  StopSignal
    <2>2. events' \in 0..MaxEvents
      BY <2>1, <1>m DEF Happens, TypeOK
    <2>3. /\ sample' \in Position \cup {NoSample} /\ silent' \in BOOLEAN
          /\ drive' \in BOOLEAN /\ saved' \in Config /\ stop' \in BOOLEAN
      BY <1>8 DEF World, Sample, Silence, ConfigChanges, DriveGoes, DriveComes,
                  StopSignal, TypeOK, feedVars
    <2> QED
      BY <1>0, <2>1, <2>2, <2>3 DEF TypeOK, engineVars, primerVars
  <1>9. CASE UNCHANGED vars
    BY <1>0, <1>9 DEF vars, TypeOK, worldVars, feedVars, engineVars, primerVars
  <1> QED
    BY <1>1, <1>2, <1>3, <1>4, <1>5, <1>6, <1>7, <1>8, <1>9 DEF Next, EngineStep

\* An agent goes offline through _enter or through a rebuild, and nothing
\* but a plan, which leaves SIM_OFFLINE, fills the queue.
LEMMA OfflineNext ==
    ASSUME EngineInv, OfflineIsQuiet, [Next]_vars PROVE OfflineIsQuiet'
  <1> USE DEF OfflineIsQuiet
  <1>r. ASSUME Reload PROVE OfflineIsQuiet'
    BY <1>r DEF Reload, Rebuild, ReplacePrimer, primerVars
  <1>1. CASE TickBegin
    BY <1>1, <1>r DEF TickBegin, primerVars
  <1>2. CASE CheckAge
    BY <1>2, <1>r DEF CheckAge, Enter, ClearPending, primerVars
  <1>3. CASE MountGate
    BY <1>3 DEF MountGate, primerVars
  <1>4. CASE Plan
    BY <1>4 DEF Plan, primerVars
  <1>5. CASE Close
    BY <1>5 DEF Close, StopPrimer
  <1>6. CASE WorkerMoves
    BY <1>6 DEF WorkerMoves, WorkerStep, Take, Record, WorkerExit, engineVars
  <1>7. CASE TimePasses
    BY <1>7 DEF TimePasses, Age, engineVars
  <1>8. CASE World
    BY <1>8 DEF World, Sample, Silence, ConfigChanges, DriveGoes, DriveComes,
                StopSignal, engineVars, primerVars
  <1>9. CASE UNCHANGED vars
    BY <1>9 DEF vars, engineVars, primerVars
  <1> QED
    BY <1>1, <1>2, <1>3, <1>4, <1>5, <1>6, <1>7, <1>8, <1>9 DEF Next, EngineStep

\* Every variable of the agent keeps its type.
THEOREM EngineTypeCorrect == Spec => []TypeOK
  <1>1. EngineInv => TypeOK
    BY DEF EngineInv
  <1>2. Spec => []EngineInv
    BY EngineInit, EngineNext, PTL DEF Spec
  <1> QED
    BY <1>1, <1>2, PTL

\* An offline agent has no queued work, whichever way it went offline.
THEOREM EngineOfflineIsQuiet == Spec => []OfflineIsQuiet
  <1>1. Init => EngineInv /\ OfflineIsQuiet
    BY EngineInit
  <1>2. EngineInv /\ OfflineIsQuiet /\ [Next]_vars => (EngineInv /\ OfflineIsQuiet)'
    BY EngineNext, OfflineNext
  <1> QED
    BY <1>1, <1>2, PTL DEF Spec

\* Refinement: the agent's primer is used as Primer specifies.
THEOREM EngineUsesThePrimer == Spec => PrimerSpec
  <1>1. Init => PrimerInit
    BY DEF Init
  <1>2. Spec => []EngineInv
    BY EngineInit, EngineNext, PTL DEF Spec
  <1>3. EngineInv /\ [Next]_vars => [PrimerNext]_primerVars
    BY EngineSimulates
  <1> QED
    BY <1>1, <1>2, <1>3, PTL DEF Spec, PrimerSpec

\* What a reload does to the warm map.
LEMMA ReloadForgets ==
    ASSUME Reload PROVE warm' = warm \/ cfg.endpoint # cfg'.endpoint
  BY DEF Reload, Rebuild, primerVars

\* "the cache is left exactly as-is": whatever the feed, the drive, the
\* operator and the worker do, an atlas leaves the warm map because a plan
\* dropped it, because reading it failed, or because an endpoint changed.
THEOREM EngineForgetsOnlyForCause == Spec => ForgetsOnlyForCause
  <1> DEFINE Cause(p) ==
          \/ lastKeep' # lastKeep /\ p \notin ToSet(lastKeep')
          \/ worker = "reading" /\ worker' = "idle" /\ path = p
          \/ epc = "plan" /\ p \notin ToSet(order')
          \/ cfg.endpoint # cfg'.endpoint
  <1>1. ASSUME [Next]_vars, NEW p \in warm \ warm' PROVE Cause(p)
    <2>1. CASE TickBegin
      BY <1>1, <2>1, ReloadForgets DEF TickBegin, primerVars
    <2>2. CASE CheckAge
      BY <1>1, <2>2, ReloadForgets DEF CheckAge, Enter, ClearPending, primerVars
    <2>3. CASE Plan
      <3>1. epc = "plan" /\ Schedule(KeepAt[sample][cfg.tuning])
        BY <1>1, <2>3 DEF Plan, primerVars
      <3> QED
        BY <1>1, <3>1 DEF Schedule
    <2>4. CASE MountGate \/ Close
      BY <1>1, <2>4 DEF MountGate, Close, StopPrimer, primerVars
    <2>5. CASE WorkerMoves
      BY <1>1, <2>5 DEF WorkerMoves, WorkerStep, Take, Record, WorkerExit
    <2>6. CASE TimePasses
      BY <1>1, <2>6 DEF TimePasses, Age
    <2>7. CASE World
      BY <1>1, <2>7 DEF World, Sample, Silence, ConfigChanges, DriveGoes, DriveComes,
                  StopSignal, primerVars
    <2>8. CASE UNCHANGED vars
      BY <1>1, <2>8 DEF vars, primerVars
    <2> QED
      BY <1>1, <2>1, <2>2, <2>3, <2>4, <2>5, <2>6, <2>7, <2>8 DEF Next, EngineStep
  <1>2. [Next]_vars => [\A p \in warm \ warm' : Cause(p)]_vars
    BY <1>1
  <1> QED
    BY <1>2, PTL DEF Spec, ForgetsOnlyForCause

=============================================================================
