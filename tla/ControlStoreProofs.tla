-------------------------- MODULE ControlStoreProofs --------------------------
(***************************************************************************)
(* Control's store keeps its promise for every set of ids, names and       *)
(* scripts and any number of faults.                                       *)
(***************************************************************************)
EXTENDS ControlStore, TLAPS

Slaves == [SlaveId -> Detail \cup {Absent}]

-----------------------------------------------------------------------------
(* Types.                                                                  *)

LEMMA LoadTypes ==
    ASSUME TypeOK, Load
    PROVE  /\ slaves' \in Slaves /\ bats' \in Bats /\ hidden' \subseteq Script
           /\ behind' \in BOOLEAN
           /\ gone' \in [Registry -> {"no", "leaving", "gone"}]
           /\ faults' \in Nat
  <1>1. NoSlaves \in Slaves /\ NoBats \in Bats
    BY DEF NoSlaves, NoBats, Slaves, Bats
  <1>2. batsFile.bats \in Bats /\ batsFile.hidden \subseteq Script
    BY DEF TypeOK
  <1>3. slavesFile \in Slaves
    BY DEF TypeOK, Slaves
  <1>4. gone' \in [Registry -> {"no", "leaving", "gone"}]
    BY DEF Load, TypeOK
  <1>5. behind' \in BOOLEAN
    BY DEF Load
  <1>6. faults' \in Nat
    BY DEF Load, TypeOK, Fault
  <1> QED
    BY <1>1, <1>2, <1>3, <1>4, <1>5, <1>6 DEF Load

LEMMA StoreTypeInit == Init => TypeOK
  <1>1. NoSlaves \in Slaves /\ NoBats \in Bats
    BY DEF NoSlaves, NoBats, Slaves, Bats
  <1> SUFFICES ASSUME Init PROVE TypeOK
    OBVIOUS
  <1>2. batsFile \in [bats : Bats, hidden : SUBSET Script]
    BY <1>1 DEF Init
  <1>3. slaves \in Slaves /\ bats \in Bats /\ slavesFile \in Slaves
    BY <1>1 DEF Init
  <1>4. queue \in Seq(Announcement)
    BY DEF Init
  <1>5. gone \in [Registry -> {"no", "leaving", "gone"}]
    BY DEF Init
  <1> QED
    BY <1>2, <1>3, <1>4, <1>5 DEF Init, TypeOK, Slaves

LEMMA PutSlaveTypes ==
    ASSUME TypeOK, NEW i \in SlaveId, NEW d \in Detail, PutSlave(i, d),
           phase = "app", asking' \in Announcement \cup {Nobody}
    PROVE  TypeOK'
  BY DEF TypeOK, PutSlave, Saves, fileVars

LEMMA PutBatTypes ==
    ASSUME TypeOK, NEW b \in BatId, PutBat(b) PROVE TypeOK'
  <1>1. PICK n \in Script, T \in Chosen :
          /\ bats' = [bats EXCEPT ![b] = [script |-> n, targets |-> T]]
          /\ Readmit(n)
    BY DEF PutBat
  <1>2. [script |-> n, targets |-> T] \in Bat
    BY <1>1 DEF Bat, Target, Chosen
  <1>3. bats' \in Bats
    BY <1>1, <1>2 DEF TypeOK, Bats
  <1>4. gone' \in [Registry -> {"no", "leaving", "gone"}]
    BY <1>1 DEF Readmit, TypeOK
  <1> QED
    BY <1>3, <1>4 DEF TypeOK, PutBat, Saves, Free, fileVars

LEMMA StripTargets ==
    ASSUME NEW x \in Bats, NEW b \in BatId, x[b] # Absent,
           x[b].targets # Everyone, NEW S
    PROVE  [x[b] EXCEPT !.targets = @ \ S] \in Bat
  BY DEF Bats, Bat, Target

LEMMA StoreTypeNext == TypeOK /\ [Next]_vars => TypeOK'
  <1> SUFFICES ASSUME TypeOK, [Next]_vars PROVE TypeOK'
    OBVIOUS
  <1>1. NoSlaves \in Slaves /\ NoBats \in Bats
    BY DEF NoSlaves, NoBats, Slaves, Bats
  <1>2. CASE SaveSlaves
    BY <1>2 DEF SaveSlaves, TypeOK, memVars
  <1>3. CASE SaveBats
    <2>1. gone' \in [Registry -> {"no", "leaving", "gone"}]
      BY <1>3 DEF SaveBats, Settle, TypeOK
    <2>2. batsFile' \in [bats : Bats, hidden : SUBSET Script]
      BY <1>3 DEF SaveBats, TypeOK
    <2>3. behind' \in BOOLEAN
      BY <1>3 DEF SaveBats
    <2>4. /\ slaves' \in Slaves /\ bats' \in Bats /\ hidden' \subseteq Script
          /\ slavesFile' \in Slaves /\ phase' \in {"down", "seed", "app"}
          /\ saving' = "no" /\ queue' \in Seq(Announcement)
          /\ asking' \in Announcement \cup {Nobody} /\ faults' \in Nat
      BY <1>3 DEF SaveBats, TypeOK, memVars, Slaves
    <2> QED
      BY <2>1, <2>2, <2>3, <2>4 DEF TypeOK, Slaves
  <1>4. CASE SaveFails
    <2>1. /\ slaves' \in Slaves /\ bats' \in Bats /\ hidden' \subseteq Script
          /\ phase' \in {"down", "seed", "app"}
      BY <1>4, <1>1 DEF SaveFails, TypeOK, memVars, Slaves
    <2>2. behind' \in BOOLEAN
      BY <1>4 DEF SaveFails
    <2>3. /\ slavesFile' \in Slaves /\ saving' = "no" /\ faults' \in Nat
          /\ batsFile' \in [bats : Bats, hidden : SUBSET Script]
          /\ queue' \in Seq(Announcement)
          /\ asking' \in Announcement \cup {Nobody}
          /\ gone' \in [Registry -> {"no", "leaving", "gone"}]
      BY <1>4 DEF SaveFails, TypeOK, fileVars, Fault, Slaves
    <2> QED
      BY <2>1, <2>2, <2>3 DEF TypeOK, Slaves
  <1>5. CASE Start
    BY <1>5, LoadTypes DEF Start, TypeOK, fileVars, Slaves
  <1>6. CASE Seed
    <2>1. PICK n \in Missing, b \in BatId :
            bats' = [bats EXCEPT ![b] = [script |-> n, targets |-> Everyone]]
      BY <1>6 DEF Seed
    <2>2. [script |-> n, targets |-> Everyone] \in Bat
      BY <2>1 DEF Bat, Target, Missing, Script
    <2>3. bats' \in Bats
      BY <2>1, <2>2 DEF TypeOK, Bats
    <2> QED
      BY <1>6, <2>3 DEF Seed, Saves, Free, TypeOK, fileVars
  <1>7. CASE OpenWindow
    <2>1. /\ slaves' \in Slaves /\ bats' \in Bats /\ hidden' \subseteq Script
          /\ gone' \in [Registry -> {"no", "leaving", "gone"}]
          /\ faults' \in Nat
      BY <1>7, LoadTypes DEF OpenWindow
    <2>2. behind' \in BOOLEAN
      BY <1>7, LoadTypes DEF OpenWindow
    <2>3. /\ slavesFile' \in Slaves /\ phase' = "app" /\ saving' = "no"
          /\ batsFile' \in [bats : Bats, hidden : SUBSET Script]
          /\ queue' \in Seq(Announcement)
          /\ asking' \in Announcement \cup {Nobody}
      BY <1>7 DEF OpenWindow, Free, TypeOK, fileVars, Slaves
    <2> QED
      BY <2>1, <2>2, <2>3 DEF TypeOK, Slaves
  <1>8. CASE Stop
    <2>1. gone' \in [Registry -> {"no", "leaving", "gone"}]
      BY <1>8 DEF Stop, TypeOK
    <2>2. behind' \in BOOLEAN
      BY <1>8 DEF Stop
    <2>3. /\ slaves' \in Slaves /\ bats' \in Bats /\ hidden' = {}
          /\ phase' = "down" /\ saving' = "no"
          /\ queue' \in Seq(Announcement) /\ asking' = Nobody
      BY <1>8, <1>1 DEF Stop
    <2>4. /\ slavesFile' \in Slaves /\ faults' \in Nat
          /\ batsFile' \in [bats : Bats, hidden : SUBSET Script]
      BY <1>8 DEF Stop, TypeOK, fileVars, Slaves
    <2> QED
      BY <2>1, <2>2, <2>3, <2>4 DEF TypeOK, Slaves
  <1>9. CASE Ask
    BY <1>9 DEF Ask, TypeOK, memVars, fileVars
  <1>10. CASE Decline
    BY <1>10 DEF Decline, TypeOK, memVars, fileVars
  <1>11. CASE \E a \in Announcement : Announce(a)
    BY <1>11 DEF Announce, TypeOK, memVars, fileVars
  <1>12. ASSUME NEW i \in SlaveId, Accept(i) PROVE TypeOK'
    <2>1. [name |-> asking.name, host |-> asking.host, auto |-> TRUE] \in Detail
      BY <1>12 DEF Accept, TypeOK, Announcement, Detail
    <2> QED
      BY <1>12, <2>1, PutSlaveTypes DEF Accept, Free
  <1>13. ASSUME NEW i \in SlaveId, AddSlave(i) \/ UpdateSlave(i) PROVE TypeOK'
    <2>1. PICK n \in Name, h \in Host :
            PutSlave(i, [name |-> n, host |-> h, auto |-> FALSE])
      BY <1>13 DEF AddSlave, UpdateSlave
    <2>2. [name |-> n, host |-> h, auto |-> FALSE] \in Detail
      BY DEF Detail
    <2>3. phase = "app" /\ asking' \in Announcement \cup {Nobody}
      BY <1>13 DEF AddSlave, UpdateSlave, Free, TypeOK
    <2> QED
      BY <2>1, <2>2, <2>3, PutSlaveTypes
  <1>14. ASSUME NEW i \in SlaveId, DeleteSlave(i) PROVE TypeOK'
    <2>1. bats' \in Bats
      <3> SUFFICES ASSUME NEW b \in BatId PROVE bats'[b] \in Bat \cup {Absent}
        BY <1>14 DEF DeleteSlave, Bats
      <3> QED
        BY <1>14, StripTargets DEF DeleteSlave, TypeOK, Bats
    <2> QED
      BY <1>14, <2>1 DEF DeleteSlave, Saves, Free, TypeOK, fileVars
  <1>15. ASSUME NEW b \in BatId, AddBatfile(b) \/ UpdateBatfile(b)
         PROVE TypeOK'
    BY <1>15, PutBatTypes DEF AddBatfile, UpdateBatfile
  <1>16. ASSUME NEW b \in BatId, DeleteBatfile(b) PROVE TypeOK'
    <2>1. gone' \in [Registry -> {"no", "leaving", "gone"}]
      BY <1>16 DEF DeleteBatfile, Leave, TypeOK
    <2>2. hidden' \subseteq Script
      BY <1>16 DEF DeleteBatfile, TypeOK, Script
    <2>3. bats' \in Bats
      BY <1>16 DEF DeleteBatfile, TypeOK, Bats
    <2> QED
      BY <1>16, <2>1, <2>2, <2>3 DEF DeleteBatfile, Saves, Free, TypeOK, fileVars
  <1>17. CASE UNCHANGED vars
    BY <1>17 DEF vars, TypeOK
  <1> QED
    BY <1>2, <1>3, <1>4, <1>5, <1>6, <1>7, <1>8, <1>9, <1>10, <1>11, <1>12,
       <1>13, <1>14, <1>15, <1>16, <1>17 DEF Next, Disk, Run, Operator

\* The store, its files and the announcements keep their types.
THEOREM StoreTypeCorrect == Spec => []TypeOK
  BY StoreTypeInit, StoreTypeNext, PTL DEF Spec

-----------------------------------------------------------------------------
(* Deletions.                                                              *)

NamesOf(x) == {x[b].script : b \in {c \in BatId : x[c] # Absent}}

\* A deletion on its way to the disk is complete in memory, one that arrived
\* is complete in both.
GoneInv ==
    \A n \in Registry :
        /\ gone[n] = "leaving" => /\ phase = "app"
                                 /\ n \in hidden /\ n \notin NamesOf(bats)
        /\ gone[n] = "gone" =>
             /\ n \in batsFile.hidden /\ n \notin NamesOf(batsFile.bats)
             /\ n \notin NamesOf(bats)
             /\ phase # "down" => n \in hidden

LEMMA NoNames == NamesOf(NoBats) = {}
  BY DEF NamesOf, NoBats

LEMMA GoneInit == Init => GoneInv
  BY DEF Init, GoneInv

LEMMA LoadGone ==
    ASSUME TypeOK, GoneInv, Load, UNCHANGED batsFile, phase # "app"
    PROVE  \A n \in Registry :
             /\ gone'[n] # "leaving"
             /\ gone'[n] = "gone" =>
                  /\ n \in batsFile'.hidden /\ n \notin NamesOf(batsFile'.bats)
                  /\ n \notin NamesOf(bats') /\ n \in hidden'
  BY DEF Load, GoneInv, TypeOK

LEMMA GoneNext == TypeOK /\ GoneInv /\ [Next]_vars => GoneInv'
  <1> SUFFICES ASSUME TypeOK, GoneInv, [Next]_vars PROVE GoneInv'
    OBVIOUS
  <1> SUFFICES ASSUME NEW n \in Registry
               PROVE  /\ gone'[n] = "leaving" =>
                            /\ phase' = "app"
                            /\ n \in hidden' /\ n \notin NamesOf(bats')
                      /\ gone'[n] = "gone" =>
                            /\ n \in batsFile'.hidden
                            /\ n \notin NamesOf(batsFile'.bats)
                            /\ n \notin NamesOf(bats')
                            /\ phase' # "down" => n \in hidden'
    BY DEF GoneInv
  <1>1. CASE SaveSlaves
    BY <1>1 DEF SaveSlaves, GoneInv, memVars
  <1>2. CASE SaveBats
    <2>1. gone'[n] # "leaving"
      BY <1>2 DEF SaveBats, Settle
    <2>2. gone'[n] = "gone" => gone[n] \in {"leaving", "gone"}
      BY <1>2 DEF SaveBats, Settle
    <2>3. phase # "down"
      BY <1>2 DEF SaveBats, TypeOK
    <2> QED
      BY <1>2, <2>1, <2>2, <2>3 DEF SaveBats, GoneInv, memVars
  <1>3. CASE SaveFails
    BY <1>3, NoNames DEF SaveFails, GoneInv, memVars, fileVars
  <1>4. CASE Start \/ OpenWindow
    <2>1. Load /\ UNCHANGED batsFile /\ phase # "app"
      BY <1>4 DEF Start, OpenWindow, Free, fileVars
    <2> QED
      BY <2>1, LoadGone
  <1>5. CASE Seed
    <2>1. PICK m \in Missing, b \in BatId :
            bats' = [bats EXCEPT ![b] = [script |-> m, targets |-> Everyone]]
      BY <1>5 DEF Seed
    <2>2. NamesOf(bats') \subseteq NamesOf(bats) \cup {m}
      BY <2>1 DEF NamesOf, TypeOK, Bats
    <2>3. gone[n] = "gone" => n # m
      BY <1>5, <2>1 DEF GoneInv, Missing, Seed, Free
    <2> QED
      BY <1>5, <2>2, <2>3 DEF Seed, Free, Saves, GoneInv, fileVars
  <1>6. CASE Stop
    BY <1>6, NoNames DEF Stop, GoneInv, fileVars
  <1>7. CASE Ask \/ Decline \/ \E a \in Announcement : Announce(a)
    BY <1>7 DEF Ask, Decline, Announce, GoneInv, memVars, fileVars
  <1>8. CASE \E i \in SlaveId : Accept(i) \/ AddSlave(i) \/ UpdateSlave(i)
    BY <1>8 DEF Accept, AddSlave, UpdateSlave, PutSlave, Saves, GoneInv, fileVars
  <1>9. ASSUME NEW i \in SlaveId, DeleteSlave(i)
        PROVE  UNCHANGED <<gone, phase, hidden, batsFile>>
               /\ NamesOf(bats') = NamesOf(bats)
    <2>1. \A b \in BatId : /\ bats'[b] = Absent <=> bats[b] = Absent
                           /\ bats[b] # Absent => bats'[b].script = bats[b].script
      <3> SUFFICES ASSUME NEW b \in BatId
                   PROVE  /\ bats'[b] = Absent <=> bats[b] = Absent
                          /\ bats[b] # Absent => bats'[b].script = bats[b].script
        OBVIOUS
      <3>1. bats'[b] = IF bats[b] = Absent \/ bats[b].targets = Everyone
                       THEN bats[b]
                       ELSE [bats[b] EXCEPT !.targets = @ \ {i}]
        BY <1>9 DEF DeleteSlave
      <3>2. CASE bats[b] = Absent \/ bats[b].targets = Everyone
        BY <3>1, <3>2
      <3>3. CASE bats[b] # Absent /\ bats[b].targets # Everyone
        <4>1. bats[b] \in Bat
          BY <3>3 DEF TypeOK, Bats
        <4>2. bats'[b] \in Bat
          <5>1. bats \in Bats
            BY DEF TypeOK
          <5>2. [bats[b] EXCEPT !.targets = @ \ {i}] \in Bat
            BY <3>3, <5>1, StripTargets
          <5> QED
            BY <3>1, <3>3, <5>2
        <4>3. bats'[b] # Absent
          BY <4>2, StoreConstants DEF StoreConstants
        <4>4. bats'[b].script = bats[b].script
          BY <3>1, <3>3, <4>1 DEF Bat
        <4> QED
          BY <3>3, <4>3, <4>4
      <3> QED
        BY <3>2, <3>3
    <2>2. NamesOf(bats') = NamesOf(bats)
      BY <2>1 DEF NamesOf
    <2> QED
      BY <1>9, <2>2 DEF DeleteSlave, Saves, fileVars
  <1>10. ASSUME NEW b \in BatId, AddBatfile(b) \/ UpdateBatfile(b)
         PROVE  /\ UNCHANGED <<phase, hidden, batsFile>>
                /\ gone'[n] # "no" => /\ gone'[n] = gone[n]
                                      /\ n \in NamesOf(bats') => n \in NamesOf(bats)
    <2>1. PICK m \in Script, T \in Chosen :
            /\ bats' = [bats EXCEPT ![b] = [script |-> m, targets |-> T]]
            /\ Readmit(m)
      BY <1>10 DEF AddBatfile, UpdateBatfile, PutBat
    <2>2. NamesOf(bats') \subseteq NamesOf(bats) \cup {m}
      BY <2>1 DEF NamesOf, TypeOK, Bats
    <2>3. gone'[n] # "no" => gone'[n] = gone[n] /\ n # m
      BY <2>1 DEF Readmit
    <2> QED
      BY <1>10, <2>2, <2>3 DEF AddBatfile, UpdateBatfile, PutBat, Saves, fileVars
  <1>11. ASSUME NEW b \in BatId, DeleteBatfile(b)
         PROVE  /\ UNCHANGED <<phase, batsFile>> /\ phase = "app"
                /\ hidden \subseteq hidden' /\ NamesOf(bats') \subseteq NamesOf(bats)
                /\ gone'[n] # gone[n] =>
                     /\ gone'[n] = "leaving"
                     /\ n \in hidden' /\ n \notin NamesOf(bats')
    <2>1. bats' = [bats EXCEPT ![b] = Absent]
      BY <1>11 DEF DeleteBatfile
    <2>2. NamesOf(bats') \subseteq NamesOf(bats)
      BY <2>1 DEF NamesOf, TypeOK, Bats
    <2>3. ASSUME gone'[n] # gone[n]
          PROVE  /\ gone'[n] = "leaving" /\ n = bats[b].script
                 /\ \A c \in BatId \ {b} : bats[c] # Absent => bats[c].script # n
      BY <1>11, <2>3 DEF DeleteBatfile, Leave
    <2>4. gone'[n] # gone[n] => n \notin NamesOf(bats')
      BY <2>1, <2>3 DEF NamesOf, TypeOK, Bats
    <2>5. gone'[n] # gone[n] => n \in hidden'
      BY <1>11, <2>3 DEF DeleteBatfile
    <2> QED
      BY <1>11, <2>2, <2>3, <2>4, <2>5 DEF DeleteBatfile, Saves, Free, fileVars
  <1>12. CASE UNCHANGED vars
    BY <1>12 DEF vars, GoneInv
  <1>13. ASSUME NEW i \in SlaveId, DeleteSlave(i)
         PROVE  /\ gone'[n] = "leaving" =>
                      /\ phase' = "app"
                      /\ n \in hidden' /\ n \notin NamesOf(bats')
                /\ gone'[n] = "gone" =>
                      /\ n \in batsFile'.hidden
                      /\ n \notin NamesOf(batsFile'.bats)
                      /\ n \notin NamesOf(bats')
                      /\ phase' # "down" => n \in hidden'
    BY <1>13, <1>9 DEF GoneInv
  <1>14. ASSUME NEW b \in BatId,
                AddBatfile(b) \/ UpdateBatfile(b) \/ DeleteBatfile(b)
         PROVE  /\ gone'[n] = "leaving" =>
                      /\ phase' = "app"
                      /\ n \in hidden' /\ n \notin NamesOf(bats')
                /\ gone'[n] = "gone" =>
                      /\ n \in batsFile'.hidden
                      /\ n \notin NamesOf(batsFile'.bats)
                      /\ n \notin NamesOf(bats')
                      /\ phase' # "down" => n \in hidden'
    <2>1. CASE AddBatfile(b) \/ UpdateBatfile(b)
      BY <2>1, <1>10 DEF GoneInv
    <2>2. CASE DeleteBatfile(b)
      BY <2>2, <1>11 DEF GoneInv
    <2> QED
      BY <1>14, <2>1, <2>2
  <1> QED
    BY <1>1, <1>2, <1>3, <1>4, <1>5, <1>6, <1>7, <1>8, <1>12, <1>13, <1>14
       DEF Next, Disk, Run, Operator

\* A standard script whose deletion reached the disk is never seeded again,
\* whatever is edited, fails or restarts.
THEOREM DeletedStaysDeleted == Spec => []RemovedStaysGone
  <1>1. GoneInv => RemovedStaysGone
    BY DEF GoneInv, RemovedStaysGone, NamesOf, Names
  <1> QED
    BY <1>1, StoreTypeInit, StoreTypeNext, GoneInit, GoneNext, PTL DEF Spec

-----------------------------------------------------------------------------
(* Registrations.                                                          *)

Once(x) ==
    \A i, j \in SlaveId :
        /\ i # j /\ x[i] # Absent /\ x[j] # Absent /\ x[i].auto /\ x[j].auto
        => x[i].name # x[j].name /\ x[i].host # x[j].host

\* While the operator is asked, nobody who registered is the one asked about.
OnceInv ==
    /\ Once(slaves) /\ Once(slavesFile)
    /\ asking # Nobody =>
         /\ phase = "app"
         /\ \A i \in SlaveId :
               slaves[i] # Absent /\ slaves[i].auto =>
                   slaves[i].name # asking.name /\ slaves[i].host # asking.host

LEMMA NoSlavesOnce == Once(NoSlaves)
  BY DEF Once, NoSlaves

LEMMA OnceInit == Init => OnceInv
  BY NoSlavesOnce DEF Init, OnceInv

LEMMA OnceNext == TypeOK /\ OnceInv /\ [Next]_vars => OnceInv'
  <1> SUFFICES ASSUME TypeOK, OnceInv, [Next]_vars PROVE OnceInv'
    OBVIOUS
  <1>1. CASE SaveSlaves \/ SaveBats
    BY <1>1 DEF SaveSlaves, SaveBats, OnceInv, memVars
  <1>2. CASE SaveFails
    BY <1>2, NoSlavesOnce
       DEF SaveFails, OnceInv, Once, memVars, fileVars
  <1>3. CASE Start \/ OpenWindow
    <2>1. Once(slaves')
      BY <1>3, NoSlavesOnce DEF Start, OpenWindow, Load, OnceInv
    <2>2. asking' = Nobody
      BY <1>3 DEF Start, OpenWindow, Free, OnceInv
    <2> QED
      BY <1>3, <2>1, <2>2 DEF Start, OpenWindow, OnceInv, fileVars
  <1>4. CASE Seed
    BY <1>4 DEF Seed, Saves, OnceInv, fileVars
  <1>5. CASE Stop
    BY <1>5, NoSlavesOnce DEF Stop, OnceInv, fileVars
  <1>6. CASE Ask
    <2>1. asking' # Nobody => phase = "app" /\ ~Known(asking')
      BY <1>6 DEF Ask, Free
    <2> QED
      BY <1>6, <2>1 DEF Ask, Known, OnceInv, memVars, fileVars
  <1>7. CASE Decline \/ \E a \in Announcement : Announce(a)
    BY <1>7 DEF Decline, Announce, OnceInv, memVars, fileVars
  <1>8. ASSUME NEW i \in SlaveId, Accept(i) PROVE OnceInv'
    <2> DEFINE d == [name |-> asking.name, host |-> asking.host, auto |-> TRUE]
    <2>1. slaves' = [slaves EXCEPT ![i] = d]
      BY <1>8 DEF Accept, PutSlave
    <2>2. /\ d.name = asking.name /\ d.host = asking.host /\ asking # Nobody
      BY <1>8 DEF Accept
    <2> HIDE DEF d
    <2>3. Once(slaves')
      BY <2>1, <2>2 DEF OnceInv, Once, TypeOK
    <2> QED
      BY <1>8, <2>3 DEF Accept, PutSlave, Saves, OnceInv, fileVars
  <1>9. ASSUME NEW i \in SlaveId, AddSlave(i) \/ UpdateSlave(i)
        PROVE  OnceInv'
    <2>1. PICK n \in Name, h \in Host :
            PutSlave(i, [name |-> n, host |-> h, auto |-> FALSE])
      BY <1>9 DEF AddSlave, UpdateSlave
    <2> DEFINE d == [name |-> n, host |-> h, auto |-> FALSE]
    <2>2. slaves' = [slaves EXCEPT ![i] = d]
      BY <2>1 DEF PutSlave
    <2>3. ~d.auto
      OBVIOUS
    <2>4. UNCHANGED <<asking, phase, slavesFile>>
      BY <1>9, <2>1 DEF AddSlave, UpdateSlave, PutSlave, Saves, fileVars
    <2> HIDE DEF d
    <2>5. Once(slaves')
      BY <2>2, <2>3 DEF OnceInv, Once, TypeOK
    <2> QED
      BY <2>2, <2>3, <2>4, <2>5 DEF OnceInv, TypeOK
  <1>10. ASSUME NEW i \in SlaveId, DeleteSlave(i) PROVE OnceInv'
    <2>1. slaves' = [slaves EXCEPT ![i] = Absent]
      BY <1>10 DEF DeleteSlave
    <2>2. Once(slaves')
      BY <2>1 DEF OnceInv, Once, TypeOK
    <2> QED
      BY <1>10, <2>2 DEF DeleteSlave, Saves, OnceInv, fileVars
  <1>11. CASE \E b \in BatId :
                AddBatfile(b) \/ UpdateBatfile(b) \/ DeleteBatfile(b)
    BY <1>11 DEF AddBatfile, UpdateBatfile, PutBat, DeleteBatfile, Saves,
                 OnceInv, fileVars
  <1>12. CASE UNCHANGED vars
    BY <1>12 DEF vars, OnceInv
  <1> QED
    BY <1>1, <1>2, <1>3, <1>4, <1>5, <1>6, <1>7, <1>8, <1>9, <1>10, <1>11,
       <1>12 DEF Next, Disk, Run, Operator

\* However often a slave announces itself, and whatever the operator does
\* meanwhile, it registers once.
THEOREM SlavesRegisterOnce == Spec => []RegisteredOnce
  <1>1. OnceInv => RegisteredOnce
    BY DEF OnceInv, Once, RegisteredOnce
  <1> QED
    BY <1>1, StoreTypeInit, StoreTypeNext, OnceInit, OnceNext, PTL DEF Spec

-----------------------------------------------------------------------------
(* The promise.                                                            *)

\* A script with a list of targets stays one.
LEMMA StripListed ==
    ASSUME NEW x \in Bats, NEW ids \in SUBSET SlaveId, NEW b \in BatId,
           x[b] # Absent, x[b].targets # Everyone
    PROVE  LET r == [script |-> x[b].script, targets |-> x[b].targets \cap ids]
           IN  r \in Bat /\ r # Absent /\ r.targets # Everyone
  <1> DEFINE r == [script |-> x[b].script, targets |-> x[b].targets \cap ids]
  <1>1. x[b] \in Bat
    BY DEF Bats
  <1>2. x[b].script \in Script /\ x[b].targets \in SUBSET SlaveId
    BY <1>1 DEF Bat, Target
  <1>3. r \in Bat
    BY <1>2 DEF Bat, Target
  <1>4. r # Absent
    BY <1>3, StoreConstants DEF StoreConstants
  <1>5. r.targets # Everyone
    BY <1>2, StoreConstants DEF StoreConstants
  <1> QED
    BY <1>3, <1>4, <1>5

LEMMA StripAt ==
    ASSUME NEW x \in Bats, NEW ids \in SUBSET SlaveId, NEW b \in BatId
    PROVE  /\ Strip(x, ids)[b] =
                IF x[b] = Absent \/ x[b].targets = Everyone THEN x[b]
                ELSE [script |-> x[b].script, targets |-> x[b].targets \cap ids]
           /\ Strip(x, ids)[b] \in Bat \cup {Absent}
  <1>1. CASE x[b] = Absent \/ x[b].targets = Everyone
    BY <1>1 DEF Strip, Bats
  <1>2. CASE x[b] # Absent /\ x[b].targets # Everyone
    <2>1. x[b] \in Bat
      BY <1>2 DEF Bats
    <2>2. x[b] = [script |-> x[b].script, targets |-> x[b].targets]
      BY <2>1 DEF Bat
    <2>3. Strip(x, ids)[b]
            = [script |-> x[b].script, targets |-> x[b].targets \cap ids]
      BY <1>2, <2>2 DEF Strip
    <2> QED
      BY <1>2, <2>3, StripListed
  <1> QED
    BY <1>1, <1>2

LEMMA StripType ==
    ASSUME NEW x \in Bats, NEW ids \in SUBSET SlaveId
    PROVE  Strip(x, ids) \in Bats
  <1>1. \A b \in BatId : Strip(x, ids)[b] \in Bat \cup {Absent}
    BY StripAt
  <1> QED
    BY <1>1 DEF Strip, Bats

\* Two tables look alike when they agree on the ids that exist.
LEMMA StripSame ==
    ASSUME NEW x \in Bats, NEW y \in Bats,
           NEW ids \in SUBSET SlaveId, NEW jds \in SUBSET SlaveId,
           \A b \in BatId :
             /\ x[b] = Absent <=> y[b] = Absent
             /\ x[b] # Absent =>
                  /\ x[b].script = y[b].script
                  /\ x[b].targets = Everyone <=> y[b].targets = Everyone
                  /\ x[b].targets # Everyone =>
                       x[b].targets \cap ids = y[b].targets \cap jds
    PROVE  Strip(x, ids) = Strip(y, jds)
  <1>1. ASSUME NEW b \in BatId PROVE Strip(x, ids)[b] = Strip(y, jds)[b]
    <2>1. Strip(x, ids)[b] =
            IF x[b] = Absent \/ x[b].targets = Everyone THEN x[b]
            ELSE [script |-> x[b].script, targets |-> x[b].targets \cap ids]
      BY StripAt
    <2>2. Strip(y, jds)[b] =
            IF y[b] = Absent \/ y[b].targets = Everyone THEN y[b]
            ELSE [script |-> y[b].script, targets |-> y[b].targets \cap jds]
      BY StripAt
    <2>3. CASE x[b] = Absent
      BY <2>1, <2>2, <2>3
    <2>4. CASE x[b] # Absent /\ x[b].targets = Everyone
      <3>1. y[b] # Absent /\ y[b].targets = Everyone /\ x[b].script = y[b].script
        BY <2>4
      <3>2. x[b] \in Bat /\ y[b] \in Bat
        BY <2>4, <3>1 DEF Bats
      <3>3. x[b] = y[b]
        BY <2>4, <3>1, <3>2 DEF Bat
      <3> QED
        BY <2>1, <2>2, <2>4, <3>1, <3>3
    <2>5. CASE x[b] # Absent /\ x[b].targets # Everyone
      BY <2>1, <2>2, <2>5
    <2> QED
      BY <2>3, <2>4, <2>5
  <1> QED
    BY <1>1 DEF Strip

LEMMA StripTwice ==
    ASSUME NEW x \in Bats,
           NEW ids \in SUBSET SlaveId, NEW jds \in SUBSET SlaveId,
           \A b \in BatId : x[b] # Absent /\ x[b].targets # Everyone
                => x[b].targets \cap jds \subseteq ids
    PROVE  Strip(Strip(x, ids), jds) = Strip(x, jds)
  <1> SUFFICES ASSUME NEW y, y = Strip(x, ids)
               PROVE  Strip(y, jds) = Strip(x, jds)
    OBVIOUS
  <1>1. y \in Bats
    BY StripType
  <1>2. ASSUME NEW b \in BatId
        PROVE  /\ y[b] = Absent <=> x[b] = Absent
               /\ y[b] # Absent =>
                    /\ y[b].script = x[b].script
                    /\ y[b].targets = Everyone <=> x[b].targets = Everyone
                    /\ y[b].targets # Everyone =>
                         y[b].targets \cap jds = x[b].targets \cap jds
    <2>1. CASE x[b] = Absent \/ x[b].targets = Everyone
      <3>1. y[b] = x[b]
        BY <2>1 DEF Strip
      <3> QED
        BY <2>1, <3>1
    <2>2. CASE x[b] # Absent /\ x[b].targets # Everyone
      <3> DEFINE r == [script |-> x[b].script, targets |-> x[b].targets \cap ids]
      <3>1. y[b] = r
        BY <2>2, StripAt
      <3>2. r # Absent /\ r.targets # Everyone
        BY <2>2, <3>1, StripListed
      <3>3. x[b].targets \cap jds \subseteq ids
        BY <2>2
      <3>4. (x[b].targets \cap ids) \cap jds = x[b].targets \cap jds
        BY <3>3
      <3> QED
        BY <2>2, <3>1, <3>2, <3>4
    <2> QED
      BY <2>1, <2>2
  <1> QED
    BY <1>1, <1>2, StripSame

\* Unless a save was refused, memory and files agree when nothing is being
\* saved, and what is being saved concerns the slaves or the scripts alone.
SaveInv ==
    /\ phase = "down" => ~behind
    /\ phase # "down" /\ ~behind /\ saving = "no" =>
         slaves = slavesFile /\ bats = batsFile.bats /\ hidden = batsFile.hidden
    /\ ~behind /\ saving = "slaves" =>
         \/ slaves = slavesFile
         \/ Table(slaves, batsFile.bats, batsFile.hidden)
              = Table(slaves, bats, hidden)
    /\ saving = "bats" => slavesFile = slaves

\* A slave that a script on disk is for, and that exists, is on disk.
FileInv ==
    \A b \in BatId : batsFile.bats[b] # Absent /\ batsFile.bats[b].targets # Everyone
        => batsFile.bats[b].targets \cap Fleet(slaves) \subseteq Fleet(slavesFile)

PromiseInv == TypeOK /\ SaveInv /\ FileInv

LEMMA FleetType == ASSUME NEW x PROVE Fleet(x) \in SUBSET SlaveId
  BY DEF Fleet

LEMMA PromiseInit == Init => SaveInv /\ FileInv /\ Promise!Init
  <1> SUFFICES ASSUME Init PROVE SaveInv /\ FileInv /\ Promise!Init
    OBVIOUS
  <1>1. SaveInv
    BY DEF Init, SaveInv
  <1>2. FileInv
    BY DEF Init, FileInv, NoBats
  <1>3. /\ Live = Table(NoSlaves, NoBats, {}) /\ Kept = Live /\ behind = FALSE
    BY DEF Init, Live, Kept
  <1> QED
    BY <1>1, <1>2, <1>3
       DEF Promise!Init, Promise!Table, Promise!Strip, Promise!Fleet,
           Promise!NoSlaves, Promise!NoBats, Table, Strip, Fleet, NoSlaves, NoBats

\* The instance's operators are the module's.
LEMMA SameTable ==
    ASSUME NEW s, NEW x, NEW h
    PROVE  Promise!Table(s, x, h) = Table(s, x, h)
  BY DEF Promise!Table, Promise!Strip, Promise!Fleet, Table, Strip, Fleet

\* A step of the disk, as the promise sees it.
LEMMA SaveSlavesKeeps ==
    ASSUME PromiseInv, SaveSlaves PROVE [Promise!Next]_(Promise!vars)
  <1>1. Live' = Live /\ behind' = behind
    BY DEF SaveSlaves, memVars, Live, Table, Strip, Fleet, PromiseInv, TypeOK
  <1>2. Kept' = Table(slaves, batsFile.bats, batsFile.hidden)
    BY DEF SaveSlaves, Kept
  <1>3. phase # "down"
    BY DEF SaveSlaves, PromiseInv, TypeOK
  <1>4. Live = Table(slaves, bats, hidden)
    BY <1>3 DEF Live
  <1>5. CASE ~behind /\ slaves = slavesFile
    BY <1>1, <1>2, <1>5 DEF Kept, Promise!vars
  <1>6. CASE ~behind /\ slaves # slavesFile
    <2>1. Kept' = Live
      BY <1>2, <1>4, <1>6 DEF SaveSlaves, PromiseInv, SaveInv
    <2>2. behind' = FALSE
      BY <1>1, <1>6 DEF PromiseInv, TypeOK
    <2> QED
      BY <1>1, <2>1, <2>2 DEF Promise!Next, Promise!Keep
  <1>7. CASE behind
    <2>1. Strip(Strip(batsFile.bats, Fleet(slavesFile)), Fleet(slaves))
            = Strip(batsFile.bats, Fleet(slaves))
      BY StripTwice, FleetType DEF PromiseInv, FileInv, TypeOK
    <2>2. Kept' = Table(Live.slaves, Kept.bats, Kept.hidden)
      BY <1>2, <1>4, <2>1 DEF Table, Kept
    <2> QED
      BY <1>1, <1>7, <2>2, SameTable DEF Promise!Next, Promise!KeepSlaves
  <1> QED
    BY <1>5, <1>6, <1>7

LEMMA SaveBatsKeeps ==
    ASSUME PromiseInv, SaveBats PROVE Promise!Keep
  <1>1. phase # "down" /\ phase' # "down" /\ slavesFile = slaves
    BY DEF SaveBats, PromiseInv, SaveInv, TypeOK
  <1>2. Live' = Live /\ Live = Table(slaves, bats, hidden)
    BY <1>1 DEF SaveBats, memVars, Live
  <1>3. Kept' = Table(slaves, bats, hidden)
    BY <1>1 DEF SaveBats, Kept
  <1>4. behind' = FALSE
    BY DEF SaveBats
  <1> QED
    BY <1>2, <1>3, <1>4 DEF Promise!Keep

LEMMA SaveFailsKeeps ==
    ASSUME PromiseInv, SaveFails PROVE Promise!Refuse \/ Promise!Reopen
  <1>1. Kept' = Kept
    BY DEF SaveFails, fileVars, Kept
  <1>2. CASE phase = "app"
    <2>1. Live' = Live /\ behind' = TRUE
      BY <1>2 DEF SaveFails, memVars, Live
    <2> QED
      BY <1>1, <2>1 DEF Promise!Refuse
  <1>3. CASE phase = "seed"
    <2>1. phase' = "down" /\ behind' = FALSE
      BY <1>3 DEF SaveFails
    <2> QED
      BY <1>1, <2>1 DEF Promise!Reopen, Live
  <1> QED
    BY <1>2, <1>3 DEF SaveFails

\* Reading the files back.
LEMMA LoadKeeps ==
    ASSUME PromiseInv, Load, UNCHANGED fileVars, phase' # "down"
    PROVE  Promise!Reopen \/ Promise!ReopenBlind
  <1> DEFINE F == batsFile.bats
  <1>1. Kept' = Kept
    BY DEF fileVars, Kept
  <1>2. Live' = Table(slaves', bats', hidden')
    BY DEF Live
  <1>3. CASE /\ slaves' = slavesFile /\ behind' = FALSE
             /\ bats' = batsFile.bats /\ hidden' = batsFile.hidden
    BY <1>1, <1>2, <1>3 DEF Promise!Reopen, Kept
  <1>4. CASE /\ slaves' = NoSlaves /\ behind' = TRUE
             /\ bats' = batsFile.bats /\ hidden' = batsFile.hidden
    <2>1. Fleet(NoSlaves) = {}
      BY DEF Fleet, NoSlaves
    <2>2. Strip(Strip(F, Fleet(slavesFile)), {}) = Strip(F, {})
      BY StripTwice, FleetType DEF PromiseInv, TypeOK
    <2>3. Live' = Table(NoSlaves, Kept.bats, Kept.hidden)
      BY <1>2, <1>4, <2>1, <2>2 DEF Table, Kept
    <2> QED
      BY <1>1, <1>4, <2>3, SameTable
         DEF Promise!ReopenBlind, Promise!NoSlaves, NoSlaves
  <1>5. CASE /\ slaves' \in {slavesFile, NoSlaves} /\ behind' = TRUE
             /\ bats' = NoBats /\ hidden' = {}
    <2>1. Live' = Table(slaves', NoBats, {}) /\ slavesFile = Kept.slaves
      BY <1>2, <1>5 DEF Table, Kept
    <2> QED
      BY <1>1, <1>5, <2>1, SameTable
         DEF Promise!ReopenBlind, Promise!NoSlaves, Promise!NoBats, NoSlaves,
             NoBats
  <1> QED
    BY <1>3, <1>4, <1>5 DEF Load

\* An operation begins when memory and files agree, or a save was refused.
LEMMA Idle ==
    ASSUME PromiseInv, phase # "down", saving = "no"
    PROVE  /\ behind \/ Kept = Live
           /\ Live = Table(slaves, bats, hidden)
           /\ Live.slaves = slaves /\ Live.hidden = hidden
           /\ Live.bats = Strip(bats, Fleet(slaves))
  <1>1. Live = Table(slaves, bats, hidden)
    BY DEF Live
  <1>2. behind \/ Kept = Live
    BY <1>1 DEF PromiseInv, SaveInv, TypeOK, Kept
  <1> QED
    BY <1>1, <1>2 DEF Table

LEMMA StripPut ==
    ASSUME NEW x \in Bats, NEW ids \in SUBSET SlaveId, NEW b \in BatId,
           NEW r \in Bat \cup {Absent}
    PROVE  Strip([Strip(x, ids) EXCEPT ![b] = r], ids)
             = Strip([x EXCEPT ![b] = r], ids)
  <1> SUFFICES ASSUME NEW y, y = Strip(x, ids)
               PROVE  Strip([y EXCEPT ![b] = r], ids)
                        = Strip([x EXCEPT ![b] = r], ids)
    OBVIOUS
  <1>1. Strip(y, ids) = y
    BY StripTwice
  <1>2. y \in Bats
    BY StripType
  <1>3. \A c \in BatId : Strip([y EXCEPT ![b] = r], ids)[c]
                           = Strip([x EXCEPT ![b] = r], ids)[c]
    <2> SUFFICES ASSUME NEW c \in BatId
                 PROVE  Strip([y EXCEPT ![b] = r], ids)[c]
                          = Strip([x EXCEPT ![b] = r], ids)[c]
      OBVIOUS
    <2>1. CASE c = b
      <3>1. [y EXCEPT ![b] = r][c] = r /\ [x EXCEPT ![b] = r][c] = r
        BY <1>2, <2>1 DEF Bats
      <3> QED
        BY <3>1 DEF Strip
    <2>2. CASE c # b
      <3>1. /\ [y EXCEPT ![b] = r][c] = y[c] /\ [x EXCEPT ![b] = r][c] = x[c]
        BY <1>2, <2>2 DEF Bats
      <3>2. Strip([y EXCEPT ![b] = r], ids)[c] = Strip(y, ids)[c]
        BY <3>1 DEF Strip
      <3>3. Strip([x EXCEPT ![b] = r], ids)[c] = Strip(x, ids)[c]
        BY <3>1 DEF Strip
      <3> QED
        BY <1>1, <3>2, <3>3
    <2> QED
      BY <2>1, <2>2
  <1> QED
    BY <1>3 DEF Strip

\* A slave enrolled or edited.
LEMMA PutSlaveKeeps ==
    ASSUME PromiseInv, Free("app"), NEW i \in SlaveId, NEW d \in Detail,
           PutSlave(i, d), Fresh(i) \/ slaves[i] # Absent
    PROVE  Promise!Operation /\ SaveInv' /\ FileInv'
  <1>0. /\ phase = "app" /\ phase' = "app" /\ saving = "no" /\ d # Absent
        /\ saving' = "slaves" /\ behind' = behind
        /\ slaves' = [slaves EXCEPT ![i] = d] /\ bats' = bats /\ hidden' = hidden
        /\ slavesFile' = slavesFile /\ batsFile' = batsFile
    BY StoreConstants DEF Free, PutSlave, Saves, fileVars, StoreConstants
  <1>1. Fleet(slaves') = Fleet(slaves) \cup {i}
    BY <1>0 DEF Fleet, PromiseInv, TypeOK
  <1>2. ASSUME NEW x \in {bats, batsFile.bats}, NEW b \in BatId,
               x[b] # Absent, x[b].targets # Everyone
        PROVE  i \notin x[b].targets \/ i \in Fleet(slaves)
    BY <1>2 DEF Fresh, Fleet
  <1>3. Strip(Strip(bats, Fleet(slaves)), Fleet(slaves'))
          = Strip(bats, Fleet(slaves'))
    <2>1. bats \in Bats
      BY DEF PromiseInv, TypeOK
    <2>2. \A b \in BatId : bats[b] # Absent /\ bats[b].targets # Everyone
            => bats[b].targets \cap Fleet(slaves') \subseteq Fleet(slaves)
      BY <1>1, <1>2
    <2>3. Fleet(slaves') \in SUBSET SlaveId
      BY DEF Fleet
    <2> QED
      BY <2>1, <2>2, <2>3, FleetType, StripTwice
  <1>4. Live' = Table(slaves', bats, hidden)
    BY <1>0 DEF Live, Table, Strip, Fleet
  <1>5. Live' = Table(slaves', Live.bats, Live.hidden)
    BY <1>0, <1>3, <1>4, Idle DEF Table
  <1>6. Promise!Enrol(i, d)
    BY <1>0, <1>5, Idle, SameTable DEF Promise!Enrol
  <1>7. Kept' = Kept
    BY <1>0 DEF Kept, Table, Strip, Fleet
  <1>8. Promise!Operation
    BY <1>0, <1>6, <1>7, Idle DEF Promise!Operation
  <1>9. SaveInv'
    BY <1>0 DEF SaveInv, PromiseInv, Table
  <1>10. FileInv'
    <2>1. \A b \in BatId :
            batsFile.bats[b] # Absent /\ batsFile.bats[b].targets # Everyone
            => batsFile.bats[b].targets \cap Fleet(slaves')
                 \subseteq Fleet(slavesFile)
      BY <1>1, <1>2 DEF PromiseInv, FileInv
    <2> QED
      BY <1>0, <2>1 DEF FileInv, Fleet
  <1> QED
    BY <1>8, <1>9, <1>10

\* A slave removed, from the target lists as well.
LEMMA DeleteSlaveKeeps ==
    ASSUME PromiseInv, NEW i \in SlaveId, DeleteSlave(i)
    PROVE  Promise!Operation /\ SaveInv' /\ FileInv'
  <1>0. /\ phase = "app" /\ phase' = "app" /\ saving = "no"
        /\ saving' = "slaves" /\ behind' = behind
        /\ slaves' = [slaves EXCEPT ![i] = Absent] /\ hidden' = hidden
        /\ slavesFile' = slavesFile /\ batsFile' = batsFile
    BY DEF DeleteSlave, Free, Saves, fileVars
  <1>1. Fleet(slaves') = Fleet(slaves) \ {i}
    BY <1>0 DEF Fleet, PromiseInv, TypeOK
  <1>2. bats \in Bats /\ bats' \in Bats
    <2>1. bats \in Bats
      BY DEF PromiseInv, TypeOK
    <2>2. ASSUME NEW b \in BatId PROVE bats'[b] \in Bat \cup {Absent}
      <3>1. bats'[b] = IF bats[b] = Absent \/ bats[b].targets = Everyone
                       THEN bats[b]
                       ELSE [bats[b] EXCEPT !.targets = @ \ {i}]
        BY DEF DeleteSlave
      <3> QED
        <4>1. CASE bats[b] = Absent \/ bats[b].targets = Everyone
          BY <2>1, <3>1, <4>1 DEF Bats
        <4>2. CASE bats[b] # Absent /\ bats[b].targets # Everyone
          <5>1. [bats[b] EXCEPT !.targets = @ \ {i}] \in Bat
            BY <2>1, <4>2, StripTargets
          <5> QED
            BY <3>1, <4>2, <5>1
        <4> QED
          BY <4>1, <4>2
    <2> QED
      BY <2>1, <2>2 DEF DeleteSlave, Bats
  <1>3. Fleet(slaves') \in SUBSET SlaveId /\ Fleet(slaves) \in SUBSET SlaveId
    BY DEF Fleet
  <1>4. Strip(bats', Fleet(slaves')) = Strip(bats, Fleet(slaves'))
    <2>1. ASSUME NEW b \in BatId
          PROVE  /\ bats'[b] = Absent <=> bats[b] = Absent
                 /\ bats'[b] # Absent =>
                      /\ bats'[b].script = bats[b].script
                      /\ bats'[b].targets = Everyone <=> bats[b].targets = Everyone
                      /\ bats'[b].targets # Everyone =>
                           bats'[b].targets \cap Fleet(slaves')
                             = bats[b].targets \cap Fleet(slaves')
      <3>1. bats'[b] = IF bats[b] = Absent \/ bats[b].targets = Everyone
                       THEN bats[b]
                       ELSE [bats[b] EXCEPT !.targets = @ \ {i}]
        BY DEF DeleteSlave
      <3>2. CASE bats[b] = Absent \/ bats[b].targets = Everyone
        BY <3>1, <3>2
      <3>3. CASE bats[b] # Absent /\ bats[b].targets # Everyone
        <4>1. bats[b] \in Bat
          BY <1>2, <3>3 DEF Bats
        <4>2. bats'[b] = [script |-> bats[b].script,
                          targets |-> bats[b].targets \ {i}]
          BY <3>1, <3>3, <4>1 DEF Bat
        <4>3. bats'[b] \in Bat
          <5>1. [bats[b] EXCEPT !.targets = @ \ {i}] \in Bat
            BY <1>2, <3>3, StripTargets
          <5> QED
            BY <3>1, <3>3, <5>1
        <4>4. bats'[b] # Absent
          BY <4>3, StoreConstants DEF StoreConstants
        <4>5. bats[b].targets \in SUBSET SlaveId
          BY <3>3, <4>1 DEF Bat, Target
        <4>6. bats[b].targets \ {i} # Everyone
          BY <4>5, StoreConstants DEF StoreConstants
        <4>7. bats'[b].targets \cap Fleet(slaves')
                = bats[b].targets \cap Fleet(slaves')
          BY <1>1, <4>2
        <4> QED
          BY <3>3, <4>2, <4>4, <4>6, <4>7
      <3> QED
        BY <3>2, <3>3
    <2> QED
      BY <1>2, <1>3, <2>1, StripSame
  <1>5. Strip(Strip(bats, Fleet(slaves)), Fleet(slaves'))
          = Strip(bats, Fleet(slaves'))
    <2>1. \A b \in BatId : bats[b] # Absent /\ bats[b].targets # Everyone
            => bats[b].targets \cap Fleet(slaves') \subseteq Fleet(slaves)
      BY <1>1
    <2> QED
      BY <1>2, <1>3, <2>1, StripTwice
  <1>6. Live' = Table(slaves', bats', hidden)
    BY <1>0 DEF Live, Table, Strip, Fleet
  <1>7. Live' = Table(slaves', Live.bats, Live.hidden)
    BY <1>0, <1>4, <1>5, <1>6, Idle DEF Table
  <1>8. Promise!Dismiss(i)
    BY <1>0, <1>7, Idle, SameTable DEF Promise!Dismiss
  <1>9. Kept' = Kept
    BY <1>0 DEF Kept, Table, Strip, Fleet
  <1>10. Promise!Operation
    BY <1>0, <1>8, <1>9, Idle DEF Promise!Operation
  <1>11. SaveInv'
    <2>1. ~behind => /\ bats = batsFile.bats /\ hidden = batsFile.hidden
      BY <1>0 DEF PromiseInv, SaveInv
    <2>2. ~behind => Table(slaves', batsFile.bats, batsFile.hidden)
                       = Table(slaves', bats', hidden)
      BY <1>4, <2>1 DEF Table
    <2> QED
      BY <1>0, <2>2 DEF SaveInv, Table, Strip, Fleet
  <1>12. FileInv'
    <2>1. \A b \in BatId :
            batsFile.bats[b] # Absent /\ batsFile.bats[b].targets # Everyone
            => batsFile.bats[b].targets \cap Fleet(slaves')
                 \subseteq Fleet(slavesFile)
      BY <1>1 DEF PromiseInv, FileInv
    <2> QED
      BY <1>0, <2>1 DEF FileInv, Fleet
  <1> QED
    BY <1>10, <1>11, <1>12

\* A step that changes scripts and suppressed names alone, and will save.
LEMMA BatsChange ==
    ASSUME PromiseInv, phase # "down", saving = "no", saving' = "slaves",
           UNCHANGED <<slaves, slavesFile, batsFile, phase, behind>>
    PROVE  /\ Kept' = Kept /\ Live' = Table(slaves, bats', hidden')
           /\ SaveInv' /\ FileInv'
  <1>1. Kept' = Kept
    BY DEF Kept, Table, Strip, Fleet
  <1>2. Live' = Table(slaves, bats', hidden')
    BY DEF Live, Table, Strip, Fleet
  <1>3. SaveInv'
    BY DEF SaveInv, PromiseInv
  <1>4. FileInv'
    BY DEF FileInv, PromiseInv, Fleet
  <1> QED
    BY <1>1, <1>2, <1>3, <1>4

\* A script registered, by the registry or by the operator.
LEMMA RegisterKeeps ==
    ASSUME PromiseInv, phase # "down", saving = "no", Saves,
           UNCHANGED <<slaves, hidden, phase, behind>>,
           NEW b \in BatId, NEW r \in Bat, bats' = [bats EXCEPT ![b] = r]
    PROVE  Promise!Operation /\ SaveInv' /\ FileInv'
  <1>1. /\ Kept' = Kept /\ Live' = Table(slaves, bats', hidden')
        /\ SaveInv' /\ FileInv'
    BY BatsChange DEF Saves, fileVars
  <1>2. bats \in Bats /\ Fleet(slaves) \in SUBSET SlaveId
    BY DEF PromiseInv, TypeOK, Fleet
  <1>3. Strip([Strip(bats, Fleet(slaves)) EXCEPT ![b] = r], Fleet(slaves))
          = Strip(bats', Fleet(slaves))
    BY <1>2, StripPut
  <1>4. Live' = Table(Live.slaves, [Live.bats EXCEPT ![b] = r], Live.hidden)
    BY <1>1, <1>3, Idle DEF Table
  <1>5. Promise!Register(b, r)
    BY <1>4, SameTable DEF Promise!Register
  <1>6. r \in Promise!Bat
    BY DEF Promise!Bat, Promise!Target, Bat, Target
  <1> QED
    BY <1>1, <1>5, <1>6, Idle DEF Promise!Operation

LEMMA DeleteBatfileKeeps ==
    ASSUME PromiseInv, NEW b \in BatId, DeleteBatfile(b)
    PROVE  Promise!Operation /\ SaveInv' /\ FileInv'
  <1>0. /\ phase # "down" /\ saving = "no" /\ saving' = "slaves"
        /\ UNCHANGED <<slaves, slavesFile, batsFile, phase, behind>>
        /\ bats' = [bats EXCEPT ![b] = Absent]
        /\ hidden' = hidden \cup ({bats[b].script} \cap Registry)
    BY DEF DeleteBatfile, Free, Saves, fileVars
  <1>1. /\ Kept' = Kept /\ Live' = Table(slaves, bats', hidden')
        /\ SaveInv' /\ FileInv'
    BY <1>0, BatsChange
  <1>2. bats \in Bats /\ Fleet(slaves) \in SUBSET SlaveId
    BY DEF PromiseInv, TypeOK, Fleet
  <1>3. Strip([Strip(bats, Fleet(slaves)) EXCEPT ![b] = Absent], Fleet(slaves))
          = Strip(bats', Fleet(slaves))
    BY <1>0, <1>2, StripPut
  <1> DEFINE N == {bats[b].script} \cap Registry
  <1>4. Live' = Table(Live.slaves, [Live.bats EXCEPT ![b] = Absent],
                      Live.hidden \cup N)
    BY <1>0, <1>1, <1>3, Idle DEF Table
  <1>5. Promise!Discard(b, N) /\ N \in SUBSET Script
    BY <1>4, SameTable DEF Promise!Discard, Script
  <1> HIDE DEF N
  <1> QED
    BY <1>0, <1>1, <1>5, Idle DEF Promise!Operation

\* Reading and stopping keep the invariant.
LEMMA LoadInv ==
    ASSUME PromiseInv, Load, UNCHANGED fileVars, saving' = "no",
           phase' # "down"
    PROVE  SaveInv' /\ FileInv'
  <1>1. SaveInv'
    BY DEF SaveInv, Load, fileVars
  <1>2. slaves' \in {slavesFile, NoSlaves}
    BY DEF Load
  <1>3. FileInv'
    BY <1>2 DEF FileInv, Fleet, NoSlaves, fileVars
  <1> QED
    BY <1>1, <1>3

LEMMA StopKeeps ==
    ASSUME PromiseInv, Stop
    PROVE  Promise!Reopen /\ SaveInv' /\ FileInv'
  <1>1. Kept' = Kept /\ Live' = Kept /\ behind' = FALSE
    BY DEF Stop, fileVars, Kept, Live, Table, Strip, Fleet
  <1>2. SaveInv'
    BY DEF SaveInv, Stop
  <1>3. FileInv'
    BY DEF FileInv, Stop, Fleet, NoSlaves, fileVars
  <1> QED
    BY <1>1, <1>2, <1>3 DEF Promise!Reopen

LEMMA DiskInv == ASSUME PromiseInv, Disk PROVE SaveInv' /\ FileInv'
  <1>1. CASE SaveSlaves
    <2>1. SaveInv'
      BY <1>1 DEF SaveSlaves, memVars, PromiseInv, SaveInv, TypeOK
    <2>2. FileInv'
      BY <1>1 DEF SaveSlaves, memVars, FileInv, Fleet
    <2> QED
      BY <2>1, <2>2
  <1>2. CASE SaveBats
    <2>1. SaveInv'
      BY <1>2 DEF SaveBats, memVars, PromiseInv, SaveInv, TypeOK
    <2>2. slavesFile' = slaves'
      BY <1>2 DEF SaveBats, memVars, PromiseInv, SaveInv
    <2>3. FileInv'
      BY <2>2 DEF FileInv, Fleet
    <2> QED
      BY <2>1, <2>3
  <1>3. CASE SaveFails
    <2>1. SaveInv'
      BY <1>3 DEF SaveFails, SaveInv
    <2>2. slaves' = slaves \/ slaves' = NoSlaves
      BY <1>3 DEF SaveFails, memVars
    <2>3. FileInv'
      BY <1>3, <2>2 DEF SaveFails, PromiseInv, FileInv, Fleet, NoSlaves, fileVars
    <2> QED
      BY <2>1, <2>3
  <1> QED
    BY <1>1, <1>2, <1>3 DEF Disk

\* Each step keeps the invariant, and is a step of the promise or none.
LEMMA PromiseNext ==
    PromiseInv /\ [Next]_vars => SaveInv' /\ FileInv' /\ [Promise!Next]_(Promise!vars)
  <1> SUFFICES ASSUME PromiseInv, [Next]_vars
               PROVE  SaveInv' /\ FileInv' /\ [Promise!Next]_(Promise!vars)
    OBVIOUS
  <1>1. CASE Disk
    <2>1. [Promise!Next]_(Promise!vars)
      BY <1>1, SaveSlavesKeeps, SaveBatsKeeps, SaveFailsKeeps
         DEF Disk, Promise!Next
    <2> QED
      BY <1>1, <2>1, DiskInv
  <1>2. CASE Start \/ OpenWindow
    <2>1. Load /\ UNCHANGED fileVars /\ phase' # "down" /\ saving' = "no"
      BY <1>2 DEF Start, OpenWindow, Free, PromiseInv, TypeOK
    <2> QED
      BY <2>1, LoadKeeps, LoadInv DEF Promise!Next
  <1>3. CASE Seed
    <2>1. PICK n \in Missing, b \in BatId :
            bats' = [bats EXCEPT ![b] = [script |-> n, targets |-> Everyone]]
      BY <1>3 DEF Seed
    <2>2. [script |-> n, targets |-> Everyone] \in Bat
      BY <2>1 DEF Bat, Target, Missing, Script
    <2>3. /\ phase # "down" /\ saving = "no" /\ Saves
          /\ UNCHANGED <<slaves, hidden, phase, behind>>
      BY <1>3 DEF Seed, Free
    <2> QED
      BY <2>1, <2>2, <2>3, RegisterKeeps DEF Promise!Next
  <1>4. CASE Stop
    BY <1>4, StopKeeps DEF Promise!Next
  <1>5. CASE \/ Ask \/ Decline \/ \E a \in Announcement : Announce(a)
             \/ UNCHANGED vars
    <2>1. UNCHANGED <<memVars, fileVars, phase, saving, behind>>
      BY <1>5 DEF Ask, Decline, Announce, vars, memVars, fileVars
    <2>2. UNCHANGED <<Live, Kept, behind>>
      BY <2>1 DEF memVars, fileVars, Live, Kept, Table, Strip, Fleet
    <2>3. SaveInv' /\ FileInv'
      BY <2>1 DEF PromiseInv, SaveInv, FileInv, Table, Strip, Fleet, memVars,
                  fileVars
    <2> QED
      BY <2>2, <2>3 DEF Promise!vars
  <1>6. ASSUME NEW i \in SlaveId, Accept(i) \/ AddSlave(i) \/ UpdateSlave(i)
        PROVE  Promise!Operation /\ SaveInv' /\ FileInv'
    <2>1. Free("app") /\ (Fresh(i) \/ slaves[i] # Absent)
      BY <1>6 DEF Accept, AddSlave, UpdateSlave
    <2>2. \E d \in Detail : PutSlave(i, d)
      <3>1. CASE Accept(i)
        BY <3>1 DEF Accept, PromiseInv, TypeOK, Announcement, Detail
      <3>2. CASE AddSlave(i) \/ UpdateSlave(i)
        BY <3>2 DEF AddSlave, UpdateSlave, Detail
      <3> QED
        BY <1>6, <3>1, <3>2
    <2> QED
      BY <2>1, <2>2, PutSlaveKeeps
  <1>7. ASSUME NEW b \in BatId, AddBatfile(b) \/ UpdateBatfile(b)
        PROVE  Promise!Operation /\ SaveInv' /\ FileInv'
    <2>1. PICK n \in Script, T \in Chosen :
            bats' = [bats EXCEPT ![b] = [script |-> n, targets |-> T]]
      BY <1>7 DEF AddBatfile, UpdateBatfile, PutBat
    <2>2. [script |-> n, targets |-> T] \in Bat
      BY <2>1 DEF Bat, Target, Chosen
    <2>3. /\ phase # "down" /\ saving = "no" /\ Saves
          /\ UNCHANGED <<slaves, hidden, phase, behind>>
      BY <1>7 DEF AddBatfile, UpdateBatfile, PutBat, Free
    <2> QED
      BY <2>1, <2>2, <2>3, RegisterKeeps
  <1>8. CASE Operator
    BY <1>5, <1>6, <1>7, <1>8, DeleteSlaveKeeps, DeleteBatfileKeeps
       DEF Operator, Promise!Next
  <1> QED
    BY <1>1, <1>2, <1>3, <1>4, <1>5, <1>8 DEF Next, Run

\* The store keeps its promise: with two files replaced one after the other,
\* writes that fail and stops at any moment, an operation is on disk as a
\* whole or not at all.
THEOREM StoreKeepsPromise == Spec => PromiseSpec
  <1>1. Init => PromiseInv /\ Promise!Init
    BY StoreTypeInit, PromiseInit DEF PromiseInv
  <1>2. PromiseInv /\ [Next]_vars => PromiseInv' /\ [Promise!Next]_(Promise!vars)
    BY StoreTypeNext, PromiseNext DEF PromiseInv
  <1> QED
    BY <1>1, <1>2, PTL DEF Spec, PromiseSpec, Promise!Spec

=============================================================================
