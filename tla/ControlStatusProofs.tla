------------------------- MODULE ControlStatusProofs -------------------------
(* Proofs about ControlStatus, for any slaves and any bounds. *)
EXTENDS ControlStatus, FiniteSetTheorems, TLAPS

\* What a refresh shows is a card for each stored slave and no other.
LEMMA CardsTyped ==
    ASSUME TypeOK, NEW ids \in SUBSET Slave
    PROVE  Cards(ids) \in [Slave -> States \cup {NoCard}]
  BY DEF TypeOK, Cards, States

LEMMA CardsCurrent ==
    ASSUME TypeOK, NEW ids \in SUBSET Slave, NEW s \in ids, cache[s] # NoEntry
    PROVE  Cards(ids)[s] = cache[s]
  BY DEF TypeOK, Cards

\* The window, the poller and the cache keep their types.
THEOREM StatusTypeCorrect == Spec => []TypeOK
<1>1. Init => TypeOK
  <2> SUFFICES ASSUME Init PROVE TypeOK
    OBVIOUS
  <2>1. cache \in [Slave -> States \cup {NoEntry}] /\ stored \subseteq Slave
    BY DEF Init, States
  <2>2. shown \in [Slave -> States \cup {NoCard}]
    BY DEF Init, Cards, States
  <2>3. sharing \subseteq Slave
    BY DEF Init
  <2> QED
    <3>1. life \in [Slave -> {"down", "up", "flying"}] /\ events \in 0..MaxEvents
      BY StatusConstants DEF Init, StatusConstants
    <3>2. /\ pushing \in [Slave -> Nat] /\ pushes \in Nat
          /\ unused \subseteq Slave \ stored /\ todo \subseteq Slave
      BY DEF Init
    <3>3. /\ hasKey \in BOOLEAN /\ refresh \in BOOLEAN
          /\ polling \in {"idle", "answered", "notify"} /\ verdict \in States
          /\ target \in Slave \cup {NoSlave}
          /\ (target = NoSlave <=> polling # "answered")
      BY DEF Init, States
    <3> QED
      BY <2>1, <2>2, <2>3, <3>1, <3>2, <3>3 DEF TypeOK
<1>2. TypeOK /\ [Next]_vars => TypeOK'
  <2> SUFFICES ASSUME TypeOK, [Next]_vars PROVE TypeOK'
    OBVIOUS
  <2> USE DEF TypeOK
  <2>1. CASE TickStart
    BY <2>1 DEF TickStart, pushVars, storeVars, worldVars
  <2>2. CASE Call
    <3>1. PICK s \in todo : /\ target' = s /\ todo' = todo \ {s}
                            /\ \/ verdict' = Truth(s) /\ UNCHANGED events
                               \/ verdict' \in {"offline", "error"} /\ Happens
      BY <2>2 DEF Call
    <3>2. verdict' \in States
      BY <3>1 DEF Truth, States
    <3>3. events' \in 0..MaxEvents
      BY <3>1, StatusConstants DEF Happens, StatusConstants
    <3>4. target' \in Slave /\ target' # NoSlave
      BY <3>1, StatusConstants DEF StatusConstants
    <3> QED
      BY <2>2, <3>1, <3>2, <3>3, <3>4 DEF Call, pushVars, storeVars
  <2>3. CASE Store
    <3>1. cache' \in [Slave -> States \cup {NoEntry}]
      BY <2>3 DEF Store
    <3>2. polling' \in {"idle", "notify"} /\ target' = NoSlave /\ verdict' \in States
      BY <2>3 DEF Store, Forget, States
    <3> QED
      BY <2>3, <3>1, <3>2 DEF Store, pushVars, storeVars, worldVars
  <2>4. CASE Notify
    BY <2>4 DEF Notify, pushVars, storeVars, worldVars
  <2>5. CASE Drain
    <3>1. shown' \in [Slave -> States \cup {NoCard}]
      BY <2>5, CardsTyped DEF Drain
    <3> QED
      BY <2>5, <3>1 DEF Drain, pollVars, pushVars, storeVars, worldVars
  <2>6. ASSUME NEW ids \in SUBSET Slave, PushTo(ids)  PROVE TypeOK'
    <3>1. cache' \in [Slave -> States \cup {NoEntry}]
      BY <2>6 DEF PushTo, States
    <3>2. pushing' \in [Slave -> Nat] /\ pushes' \in Nat
      <4>1. Cardinality(ids) \in Nat
        BY <2>6, StatusConstants, FS_Subset, FS_CardinalityType DEF StatusConstants
      <4> QED
        BY <2>6, <4>1 DEF PushTo
    <3> QED
      BY <2>6, <3>1, <3>2 DEF PushTo, pollVars, storeVars, worldVars
  <2>7. CASE SyncClick
    BY <2>7, <2>6 DEF SyncClick
  <2>8. CASE SyncAll
    BY <2>8, <2>6 DEF SyncAll
  <2>9. CASE ChangeKey
    <3>1. events' \in 0..MaxEvents
      BY <2>9, StatusConstants DEF ChangeKey, Happens, StatusConstants
    <3> QED
      BY <2>9, <3>1 DEF ChangeKey, pushVars
  <2>10. ASSUME NEW s \in Slave, AddSlave(s)  PROVE TypeOK'
    <3>1. stored' \subseteq Slave /\ unused' \subseteq Slave \ stored'
      BY <2>10 DEF AddSlave
    <3>2. shown' \in [Slave -> States \cup {NoCard}]
      BY <2>10, <3>1, CardsTyped DEF AddSlave
    <3> QED
      BY <2>10, <3>1, <3>2 DEF AddSlave, pollVars, pushVars, worldVars
  <2>11. ASSUME NEW s \in Slave, DeleteSlave(s)  PROVE TypeOK'
    <3>1. stored' \subseteq Slave /\ unused \subseteq Slave \ stored'
      BY <2>11 DEF DeleteSlave
    <3>2. shown' \in [Slave -> States \cup {NoCard}]
      BY <2>11, <3>1, CardsTyped DEF DeleteSlave
    <3> QED
      BY <2>11, <3>1, <3>2 DEF DeleteSlave, pollVars, pushVars, worldVars
  <2>12. ASSUME NEW s \in Slave, PushEnds(s)  PROVE TypeOK'
    <3>1. pushing' \in [Slave -> Nat]
      BY <2>12 DEF PushEnds
    <3> QED
      BY <2>12, <3>1 DEF PushEnds, pollVars, storeVars, worldVars
  <2>13. CASE World
    <3>1. PICK s \in Slave :
            \/ /\ \E l \in {"down", "up", "flying"} : life' = [life EXCEPT ![s] = l]
               /\ UNCHANGED sharing
            \/ /\ hasKey /\ sharing' = sharing \cup {s}
               /\ UNCHANGED life
      BY <2>13 DEF World
    <3>2. life' \in [Slave -> {"down", "up", "flying"}] /\ sharing' \subseteq Slave
      BY <3>1
    <3>3. events' \in 0..MaxEvents
      BY <2>13, StatusConstants DEF World, Happens, StatusConstants
    <3> QED
      BY <2>13, <3>2, <3>3 DEF World, pollVars, pushVars, storeVars
  <2>14. CASE UNCHANGED vars
    BY <2>14 DEF vars
  <2> QED
    BY <2>1, <2>2, <2>3, <2>4, <2>5, <2>7, <2>8, <2>9, <2>10, <2>11, <2>12,
       <2>13, <2>14 DEF Next, Poll, Window
<1> QED
  BY <1>1, <1>2, PTL DEF Spec

\* No update is lost between the poller, the workers and the window: whoever
\* changes the cache leaves a refresh due, or is about to ask for one.
THEOREM CardsAreCurrent == Spec => []ShownIsCurrent
<1>1. Init => ShownIsCurrent
  BY DEF Init, ShownIsCurrent
<1>2. TypeOK /\ ShownIsCurrent /\ [Next]_vars => ShownIsCurrent'
  <2> SUFFICES ASSUME TypeOK, ShownIsCurrent, [Next]_vars,
                      ~refresh', polling' # "notify",
                      NEW s \in stored', cache'[s] # NoEntry
               PROVE  shown'[s] = cache'[s]
    BY DEF ShownIsCurrent
  <2>1. CASE TickStart
    BY <2>1 DEF TickStart, ShownIsCurrent, storeVars
  <2>2. CASE Call
    BY <2>2 DEF Call, ShownIsCurrent, storeVars
  <2>3. CASE Store
    <3>1. cache' = [cache EXCEPT ![target] = verdict] /\ verdict = cache[target]
      BY <2>3 DEF Store
    <3>2. cache' = cache
      BY <3>1 DEF TypeOK
    <3>3. polling # "notify" /\ shown' = shown /\ stored' = stored /\ refresh' = refresh
      BY <2>3 DEF Store, storeVars
    <3> QED
      BY <3>2, <3>3 DEF ShownIsCurrent
  <2>4. CASE Notify
    BY <2>4 DEF Notify
  <2>5. CASE Drain
    BY <2>5, CardsCurrent DEF Drain, storeVars, TypeOK
  <2>6. CASE SyncClick \/ SyncAll
    BY <2>6 DEF SyncClick, SyncAll, PushTo
  <2>7. CASE ChangeKey
    BY <2>7 DEF ChangeKey, TypeOK
  <2>8. ASSUME NEW n \in Slave, AddSlave(n) \/ DeleteSlave(n)
        PROVE  shown'[s] = cache'[s]
    <3>1. shown' = Cards(stored') /\ cache' = cache /\ stored' \subseteq Slave
      BY <2>8 DEF AddSlave, DeleteSlave, TypeOK
    <3> QED
      BY <3>1, CardsCurrent
  <2>9. ASSUME NEW n \in Slave, PushEnds(n)  PROVE shown'[s] = cache'[s]
    BY <2>9 DEF PushEnds
  <2>10. CASE World
    BY <2>10 DEF World, ShownIsCurrent, pollVars, storeVars
  <2>11. CASE UNCHANGED vars
    BY <2>11 DEF vars, ShownIsCurrent
  <2> QED
    BY <2>1, <2>2, <2>3, <2>4, <2>5, <2>6, <2>7, <2>8, <2>9, <2>10, <2>11
       DEF Next, Poll, Window
<1> QED
  BY <1>1, <1>2, StatusTypeCorrect, PTL DEF Spec

=============================================================================
