------------------------- MODULE ServersPool_proofs -------------------------
(***************************************************************************)
(* Proofs that the invariants of ServersPool hold for every number of      *)
(* servers, every power-on time, every period and every share.             *)
(***************************************************************************)
EXTENDS ServersPool, TLAPS

(* Before PowerOFFDC has run nothing is in the pool, so nothing is taken   *)
(* from it and nothing boots.  Without this PowerOFFDC could list a server *)
(* a second time: it does not test IsPOOL.                                 *)
BeforePowerOFFDC ==
  clock = 0 \/ (clock = 1 /\ pc \notin {"moved", "powered"}) =>
    isPOOL = {} /\ isInitializing = {} /\ wakeUP = 0

(* PowerOFFDC runs at second 1 only. *)
PowerOFFDCAtOne == pc \in {"poweroff", "fill"} => clock = 1

(* The candidates of a policy pass stay able to run VMs. *)
PassOK ==
  /\ pc \notin {"migrateLow", "migrateHigh"} => ServerOPT = {}
  /\ ServerOPT \cap Dormant = {}

(* The inductive invariant. *)
IInv ==
  /\ TypeOK
  /\ ListsMatchFlags
  /\ OneMode
  /\ NoVMsOnDormantServers
  /\ PowerOnNeverMissed
  /\ BeforePowerOFFDC
  /\ PowerOFFDCAtOne
  /\ PassOK

-----------------------------------------------------------------------------
(* Putting servers into a vector that does not list them. *)
LEMMA InsertLists ==
  ASSUME NEW vector \in [Servers -> Nat], NEW T, NEW S, S \cap T = {},
         Lists(vector, T)
  PROVE  /\ Lists(InsertVector(vector, S), T \cup S)
         /\ InsertVector(vector, S) \in [Servers -> Nat]
  BY DEF Lists, InsertVector

(* Erasing an entry of a vector that lists its servers once. *)
LEMMA EraseLists ==
  ASSUME NEW vector \in [Servers -> Nat], NEW T, NEW s \in Servers,
         vector[s] > 0, Lists(vector, T)
  PROVE  /\ Lists(EraseFirst(vector, s), T \ {s})
         /\ EraseFirst(vector, s) \in [Servers -> Nat]
         /\ s \in T
  <1>1. s \in T /\ vector[s] = 1
    BY DEF Lists
  <1>2. QED
    BY <1>1 DEF Lists, EraseFirst

-----------------------------------------------------------------------------
LEMMA InitIInv == Init => IInv
  BY TimeAssumption
  DEF Init, IInv, TypeOK, Phases, ListsMatchFlags, Lists, OneMode, Dormant,
      NoVMsOnDormantServers, PowerOnNeverMissed, BeforePowerOFFDC,
      PowerOFFDCAtOne, PassOK

LEMMA AssignOneVMIInv ==
  ASSUME IInv, NEW s \in Servers, AssignOneVM(s)
  PROVE  IInv'
  BY DEF AssignOneVM, IInv, TypeOK, ListsMatchFlags, Lists, OneMode, Dormant,
         Active, flags, vectors, pass, NoVMsOnDormantServers,
         PowerOnNeverMissed, BeforePowerOFFDC, PowerOFFDCAtOne, PassOK

LEMMA AssignFromPoolIInv ==
  ASSUME IInv, NEW s \in Servers, AssignFromPool(s)
  PROVE  IInv'
  <1> USE DEF AssignFromPool, RemoveServerPOOL, removePOOL, IInv, pass
  <1>1. /\ Lists(serversPOOL', isPOOL')
        /\ serversPOOL' \in [Servers -> Nat]
        /\ s \in isPOOL
    BY EraseLists DEF TypeOK, ListsMatchFlags
  <1>2. TypeOK'
    BY <1>1 DEF TypeOK
  <1>3. ListsMatchFlags'
    BY <1>1 DEF ListsMatchFlags, Lists
  <1>4. OneMode' /\ NoVMsOnDormantServers'
    BY <1>1 DEF OneMode, NoVMsOnDormantServers, Dormant
  <1>5. PowerOnNeverMissed'
    BY DEF PowerOnNeverMissed
  <1>6. BeforePowerOFFDC' /\ PowerOFFDCAtOne'
    BY <1>1 DEF BeforePowerOFFDC, PowerOFFDCAtOne
  <1>7. PassOK'
    BY DEF PassOK, Dormant
  <1>8. QED
    BY <1>2, <1>3, <1>4, <1>5, <1>6, <1>7

LEMMA ServerPowerONIInv ==
  ASSUME IInv, NEW s \in Servers, ServerPowerON(s)
  PROVE  IInv'
  <1> USE DEF ServerPowerON, timePowerOnServer, TurnON, IInv, pass
  <1>1. /\ Lists(serversPowerOFF', isOFF')
        /\ serversPowerOFF' \in [Servers -> Nat]
        /\ s \in isOFF
    <2>1. serversPowerOFF \in [Servers -> Nat] /\ Lists(serversPowerOFF, isOFF)
      BY DEF TypeOK, ListsMatchFlags
    <2>2. /\ serversPowerOFF' = EraseFirst(serversPowerOFF, s)
          /\ serversPowerOFF[s] > 0
          /\ isOFF' = isOFF \ {s}
      OBVIOUS
    <2>3. QED
      BY ONLY <2>1, <2>2, EraseLists, s \in Servers
  <1>2. s \notin isInitializing /\ s \notin isPOOL /\ s \notin isMigrating
    BY <1>1 DEF OneMode, Dormant
  <1>3. /\ Lists(serversPowerON', isInitializing')
        /\ serversPowerON' \in [Servers -> Nat]
    <2>1. /\ serversPowerON \in [Servers -> Nat]
          /\ Lists(serversPowerON, isInitializing)
      BY DEF TypeOK, ListsMatchFlags
    <2>2. /\ serversPowerON' = InsertVector(serversPowerON, {s})
          /\ isInitializing' = isInitializing \cup {s}
          /\ {s} \cap isInitializing = {}
      BY <1>2
    <2>3. QED
      BY ONLY <2>1, <2>2, InsertLists
  <1>4. clock + POWER_ON \in Nat /\ clock <= clock + POWER_ON
    BY TimeAssumption DEF TypeOK
  <1>5. TypeOK'
    <2>1. wakeUP' \in Nat /\ powerOnServer' \in [Servers -> Nat]
      BY <1>4 DEF TypeOK
    <2>2. QED
      BY <1>1, <1>3, <2>1 DEF TypeOK
  <1>6. ListsMatchFlags'
    <2>1. Lists(serversPOOL, isPOOL) /\ serversPOOL' = serversPOOL
      BY DEF ListsMatchFlags
    <2>2. isPOOL' = isPOOL
      BY <1>2
    <2>3. Lists(serversPOOL', isPOOL')
      BY ONLY <2>1, <2>2 DEF Lists
    <2>4. QED
      BY ONLY <1>1, <1>3, <2>3 DEF ListsMatchFlags
  <1>7. OneMode' /\ NoVMsOnDormantServers'
    BY <1>1, <1>2 DEF OneMode, NoVMsOnDormantServers, Dormant
  <1>8. PowerOnNeverMissed'
    BY <1>4 DEF PowerOnNeverMissed, TypeOK
  <1>9. BeforePowerOFFDC' /\ PowerOFFDCAtOne' /\ PassOK'
    <2>1. ~ (clock = 0 \/ (clock = 1 /\ pc \notin {"moved", "powered"}))
      BY DEF BeforePowerOFFDC
    <2>2. QED
      BY <1>1, <2>1 DEF BeforePowerOFFDC, PowerOFFDCAtOne, PassOK, Dormant
  <1>10. QED
    BY <1>5, <1>6, <1>7, <1>8, <1>9

LEMMA MigrateToServerIInv ==
  ASSUME IInv, NEW s \in Servers, NEW t \in Servers, MigrateToServer(s, t)
  PROVE  IInv'
  <1> USE DEF MigrateToServer, MoveVMs, IInv, vectors
  <1>1. TypeOK'
    BY DEF TypeOK
  <1>2. ListsMatchFlags'
    BY DEF ListsMatchFlags, Lists
  <1>3. OneMode' /\ NoVMsOnDormantServers'
    BY DEF OneMode, NoVMsOnDormantServers, Dormant, PassOK, TypeOK
  <1>4. PowerOnNeverMissed' /\ BeforePowerOFFDC' /\ PowerOFFDCAtOne' /\ PassOK'
    BY DEF PowerOnNeverMissed, BeforePowerOFFDC, PowerOFFDCAtOne, PassOK,
           Dormant
  <1>5. QED
    BY <1>1, <1>2, <1>3, <1>4

LEMMA MigrateToPoolIInv ==
  ASSUME IInv, NEW s \in Servers, NEW t \in Servers, MigrateToPool(s, t)
  PROVE  IInv'
  <1> USE DEF MigrateToPool, MoveVMs, RemoveServerPOOL, removePOOL, IInv
  <1>1. /\ Lists(serversPOOL', isPOOL')
        /\ serversPOOL' \in [Servers -> Nat]
        /\ t \in isPOOL
    <2>1. serversPOOL \in [Servers -> Nat] /\ Lists(serversPOOL, isPOOL)
      BY DEF TypeOK, ListsMatchFlags
    <2>2. /\ serversPOOL' = EraseFirst(serversPOOL, t)
          /\ serversPOOL[t] > 0
          /\ isPOOL' = isPOOL \ {t}
      OBVIOUS
    <2>3. QED
      BY ONLY <2>1, <2>2, EraseLists, t \in Servers
  <1>2. t \notin isOFF /\ t \notin isInitializing
    BY <1>1 DEF OneMode
  <1>3. TypeOK'
    <2>1. wakeUP' \in Nat /\ VMsToMigrate' \subseteq ServerOPT'
      BY DEF TypeOK
    <2>2. QED
      BY <1>1, <2>1 DEF TypeOK
  <1>4. ListsMatchFlags'
    BY <1>1 DEF ListsMatchFlags, Lists
  <1>5. OneMode' /\ NoVMsOnDormantServers'
    BY <1>1, <1>2 DEF OneMode, NoVMsOnDormantServers, Dormant, PassOK, TypeOK
  <1>6. PowerOnNeverMissed'
    BY DEF PowerOnNeverMissed
  <1>7. BeforePowerOFFDC' /\ PowerOFFDCAtOne'
    BY <1>1 DEF BeforePowerOFFDC, PowerOFFDCAtOne
  <1>8. PassOK'
    BY <1>2 DEF PassOK, Dormant
  <1>9. QED
    BY <1>3, <1>4, <1>5, <1>6, <1>7, <1>8

(* The steps that only choose or pass on to the next phase. *)
LEMMA ControlIInv ==
  ASSUME IInv,
         \/ EndAssign \/ ServerPowerONDone
         \/ PoliceLowUtilization \/ EndLowUtilization
         \/ PoliceHighTemperature \/ EndHighTemperature
         \/ PowerOFFDCOutOfRange \/ UNCHANGED vars
  PROVE  IInv'
  <1> USE DEF IInv, TypeOK, Phases, ListsMatchFlags, Lists, OneMode, Dormant,
              Active, flags, vectors, pass, NoVMsOnDormantServers,
              PowerOnNeverMissed, BeforePowerOFFDC, PowerOFFDCAtOne, PassOK
  <1>1. CASE EndAssign
    BY <1>1 DEF EndAssign
  <1>2. CASE ServerPowerONDone
    BY <1>2 DEF ServerPowerONDone
  <1>3. CASE PoliceHighTemperature
    BY <1>3 DEF PoliceHighTemperature
  <1>4. CASE EndHighTemperature
    BY <1>4 DEF EndHighTemperature
  <1>5. CASE PowerOFFDCOutOfRange
    BY <1>5 DEF PowerOFFDCOutOfRange
  <1>6. CASE UNCHANGED vars
    BY <1>6 DEF vars
  <1>7. CASE PoliceLowUtilization
    BY <1>7 DEF PoliceLowUtilization
  <1>8. CASE EndLowUtilization
    BY <1>8 DEF EndLowUtilization
  <1>9. QED
    BY <1>1, <1>2, <1>3, <1>4, <1>5, <1>6, <1>7, <1>8

(* Powering off a set of running servers keeps lists and flags together,   *)
(* and respects the life cycle.                                            *)
LEMMA TurnOFFKeepsModes ==
  ASSUME IInv, NEW S, S \subseteq Servers \ Dormant, TurnOFF(S),
         serversPowerOFF' = InsertVector(serversPowerOFF, S),
         UNCHANGED <<serversPowerON, serversPOOL>>
  PROVE  /\ isPOOL' = isPOOL /\ isInitializing' = isInitializing
         /\ isOFF' = isOFF \cup S /\ isOFF' \subseteq Servers
         /\ isMigrating' = isMigrating \ S
         /\ isMigrating' \subseteq isMigrating
         /\ LifeCycleStep
         /\ serversPowerOFF' \in [Servers -> Nat]
         /\ ListsMatchFlags' /\ OneMode'
  <1>1. S \cap isOFF = {} /\ S \cap isPOOL = {} /\ S \cap isInitializing = {}
    BY DEF Dormant
  <1>2. /\ isPOOL' = isPOOL /\ isInitializing' = isInitializing
        /\ isOFF' = isOFF \cup S /\ isMigrating' = isMigrating \ S
    BY <1>1 DEF TurnOFF
  <1>3. /\ Lists(serversPowerOFF', isOFF')
        /\ serversPowerOFF' \in [Servers -> Nat]
    <2>1. serversPowerOFF \in [Servers -> Nat] /\ Lists(serversPowerOFF, isOFF)
      BY DEF IInv, TypeOK, ListsMatchFlags
    <2>2. QED
      BY <1>1, <1>2, <2>1, InsertLists
  <1>4. ListsMatchFlags'
    BY <1>2, <1>3 DEF IInv, ListsMatchFlags, Lists
  <1>5. OneMode'
    BY <1>1, <1>2 DEF IInv, OneMode, Dormant
  <1>6. LifeCycleStep
    BY <1>1, <1>2 DEF IInv, OneMode, LifeCycleStep
  <1>7. QED
    BY <1>2, <1>3, <1>4, <1>5, <1>6 DEF IInv, TypeOK

LEMMA PoliceIdleIInv ==
  ASSUME IInv, PoliceIdle
  PROVE  IInv'
  <1> USE DEF PoliceIdle, IInv, pass
  <1>1. IdleServers \subseteq Servers \ Dormant /\ IdleServers \cap hasVMs = {}
    BY DEF IdleServers, Active, Dormant
  <1>2. /\ isPOOL' = isPOOL /\ isInitializing' = isInitializing
        /\ isOFF' = isOFF \cup IdleServers /\ isOFF' \subseteq Servers
        /\ isMigrating' \subseteq isMigrating
        /\ serversPowerOFF' \in [Servers -> Nat]
        /\ ListsMatchFlags' /\ OneMode'
    BY <1>1, TurnOFFKeepsModes
  <1>3. TypeOK'
    BY <1>2 DEF TypeOK, Phases
  <1>4. NoVMsOnDormantServers'
    BY <1>1, <1>2 DEF NoVMsOnDormantServers, Dormant
  <1>5. PowerOnNeverMissed' /\ BeforePowerOFFDC' /\ PowerOFFDCAtOne' /\ PassOK'
    BY <1>2 DEF PowerOnNeverMissed, BeforePowerOFFDC, PowerOFFDCAtOne, PassOK
  <1>6. QED
    BY <1>2, <1>3, <1>4, <1>5

LEMMA RunServersIInv ==
  ASSUME IInv, RunServers \/ ReassignVMs
  PROVE  IInv'
  BY DEF RunServers, ReassignVMs, IInv, TypeOK, Phases, ListsMatchFlags, Lists, OneMode,
         Dormant, flags, vectors, pass, NoVMsOnDormantServers,
         PowerOnNeverMissed, BeforePowerOFFDC, PowerOFFDCAtOne, PassOK

LEMMA PowerOFFDCIInv ==
  ASSUME IInv, PowerOFFDC
  PROVE  IInv'
  <1> USE DEF PowerOFFDC, IInv, pass
  <1>1. PICK off \in SUBSET Candidates :
               /\ serversPowerOFF' = InsertVector(serversPowerOFF, off)
               /\ TurnOFF(off)
    OBVIOUS
  <1>2. clock = 1 /\ isPOOL = {} /\ isInitializing = {} /\ wakeUP = 0
    BY DEF PowerOFFDCAtOne, BeforePowerOFFDC
  <1>3. off \subseteq Servers \ Dormant /\ off \cap hasVMs = {}
    BY <1>1, <1>2 DEF Candidates, Dormant
  <1>4. /\ isPOOL' = isPOOL /\ isInitializing' = isInitializing
        /\ isOFF' = isOFF \cup off /\ isOFF' \subseteq Servers
        /\ isMigrating' \subseteq isMigrating
        /\ serversPowerOFF' \in [Servers -> Nat]
        /\ ListsMatchFlags' /\ OneMode'
    BY <1>1, <1>3, TurnOFFKeepsModes
  <1>5. TypeOK'
    BY <1>4 DEF TypeOK, Phases
  <1>6. NoVMsOnDormantServers'
    BY <1>3, <1>4 DEF NoVMsOnDormantServers, Dormant
  <1>7. PowerOnNeverMissed' /\ BeforePowerOFFDC' /\ PowerOFFDCAtOne' /\ PassOK'
    BY <1>2, <1>4 DEF PowerOnNeverMissed, BeforePowerOFFDC, PowerOFFDCAtOne,
                      PassOK
  <1>8. QED
    BY <1>4, <1>5, <1>6, <1>7

LEMMA PowerOFFDCFillPoolIInv ==
  ASSUME IInv, PowerOFFDCFillPool
  PROVE  IInv'
  <1> USE DEF PowerOFFDCFillPool, addPOOL, IInv, pass
  <1>1. PICK pool \in SUBSET Candidates :
               /\ isPOOL' = isPOOL \cup pool
               /\ serversPOOL' = InsertVector(serversPOOL, pool)
    OBVIOUS
  <1>2. clock = 1 /\ isPOOL = {} /\ isInitializing = {} /\ wakeUP = 0
    BY DEF PowerOFFDCAtOne, BeforePowerOFFDC
  <1>3. /\ pool \subseteq Servers /\ pool \cap hasVMs = {}
        /\ pool \cap isOFF = {} /\ pool \cap isMigrating = {}
    BY DEF Candidates
  <1>4. Lists(serversPOOL', isPOOL') /\ serversPOOL' \in [Servers -> Nat]
    <2>1. serversPOOL \in [Servers -> Nat] /\ Lists(serversPOOL, isPOOL)
      BY DEF TypeOK, ListsMatchFlags
    <2>2. QED
      BY ONLY <1>1, <1>2, <2>1, InsertLists
  <1>5. TypeOK'
    BY <1>1, <1>3, <1>4 DEF TypeOK, Phases
  <1>6. ListsMatchFlags'
    BY <1>4 DEF ListsMatchFlags, Lists
  <1>7. OneMode' /\ NoVMsOnDormantServers'
    BY <1>1, <1>2, <1>3 DEF OneMode, NoVMsOnDormantServers, Dormant
  <1>8. PowerOnNeverMissed' /\ BeforePowerOFFDC' /\ PowerOFFDCAtOne' /\ PassOK'
    BY <1>2 DEF PowerOnNeverMissed, BeforePowerOFFDC, PowerOFFDCAtOne, PassOK,
                Dormant
  <1>9. QED
    BY <1>5, <1>6, <1>7, <1>8

LEMMA FinishMigrationsIInv ==
  ASSUME IInv, FinishMigrations
  PROVE  IInv'
  <1> USE DEF FinishMigrations, IInv, pass
  <1>1. PICK done \in SUBSET (hasVMs \cap (isMigrating \ Dormant)) :
          /\ hasVMs' = hasVMs \ done
          /\ serversPowerOFF' = InsertVector(serversPowerOFF,
                                   (isMigrating \ Dormant) \ (hasVMs \ done))
          /\ TurnOFF((isMigrating \ Dormant) \ (hasVMs \ done))
    OBVIOUS
  <1> DEFINE empty == (isMigrating \ Dormant) \ (hasVMs \ done)
  <1>2. empty \subseteq Servers \ Dormant /\ empty \cap hasVMs' = {}
    BY <1>1 DEF TypeOK
  <1>3. /\ serversPowerOFF' = InsertVector(serversPowerOFF, empty)
        /\ TurnOFF(empty)
    BY <1>1
  <1> HIDE DEF empty
  <1>4. /\ isPOOL' = isPOOL /\ isInitializing' = isInitializing
        /\ isOFF' = isOFF \cup empty /\ isOFF' \subseteq Servers
        /\ isMigrating' \subseteq isMigrating
        /\ serversPowerOFF' \in [Servers -> Nat]
        /\ ListsMatchFlags' /\ OneMode'
    BY <1>2, <1>3, TurnOFFKeepsModes
  <1>5. TypeOK'
    BY <1>1, <1>4 DEF TypeOK, Phases
  <1>6. NoVMsOnDormantServers'
    BY <1>1, <1>2, <1>4 DEF NoVMsOnDormantServers, Dormant
  <1>7. PowerOnNeverMissed' /\ BeforePowerOFFDC' /\ PowerOFFDCAtOne' /\ PassOK'
    BY <1>4 DEF PowerOnNeverMissed, BeforePowerOFFDC, PowerOFFDCAtOne, PassOK
  <1>8. QED
    BY <1>4, <1>5, <1>6, <1>7

(* The clock advances only past power-ons that have been completed. *)
LEMMA FinishPowerOnIInv ==
  ASSUME IInv, FinishPowerOn
  PROVE  IInv'
  <1> USE DEF FinishPowerOn, addPOOL, IInv, pass
  <1>1. PoweredUp \subseteq isInitializing /\ isInitializing \subseteq Servers
    BY DEF PoweredUp, ListsMatchFlags, Lists, TypeOK
  <1>2. \A s \in isInitializing' : clock + 1 <= powerOnServer[s]
    <2>1. SUFFICES ASSUME NEW s \in isInitializing, s \notin PoweredUp
                   PROVE  clock + 1 <= powerOnServer[s]
      OBVIOUS
    <2>2. s \in Servers /\ serversPowerON[s] = 1
      BY <1>1, <2>1 DEF ListsMatchFlags, Lists
    <2>3. powerOnServer[s] # clock
      BY <2>1, <2>2 DEF PoweredUp
    <2>4. clock \in Nat /\ powerOnServer[s] \in Nat /\ clock <= powerOnServer[s]
      BY <2>1, <2>2, TimeAssumption DEF PowerOnNeverMissed, TypeOK
    <2>5. QED
      BY <2>3, <2>4
  <1>3. clock \in Nat /\ clock + 1 \in 0..MaxClock
    BY TimeAssumption DEF TypeOK
  <1>4. TypeOK'
    <2>1. /\ serversPOOL' \in [Servers -> Nat]
          /\ serversPowerON' \in [Servers -> Nat]
      BY DEF TypeOK
    <2>2. QED
      BY <1>1, <1>3, <2>1 DEF TypeOK, Phases
  <1>5. ListsMatchFlags'
    <2>1. Lists(serversPOOL', isPOOL')
      BY <1>1 DEF ListsMatchFlags, Lists, OneMode
    <2>2. Lists(serversPowerON', isInitializing')
      BY <1>1 DEF ListsMatchFlags, Lists
    <2>3. QED
      BY <2>1, <2>2 DEF ListsMatchFlags, Lists
  <1>6. OneMode' /\ NoVMsOnDormantServers'
    BY <1>1 DEF OneMode, NoVMsOnDormantServers, Dormant
  <1>7. PowerOnNeverMissed'
    BY <1>2 DEF PowerOnNeverMissed
  <1>8. BeforePowerOFFDC'
    <2>1. CASE clock = 0
      BY <1>1, <2>1 DEF BeforePowerOFFDC
    <2>2. CASE clock # 0
      BY <1>3, <2>2 DEF BeforePowerOFFDC
    <2>3. QED
      BY <2>1, <2>2
  <1>9. PowerOFFDCAtOne' /\ PassOK'
    BY <1>1 DEF PowerOFFDCAtOne, PassOK, Dormant
  <1>10. QED
    BY <1>4, <1>5, <1>6, <1>7, <1>8, <1>9

-----------------------------------------------------------------------------
LEMMA NextIInv == IInv /\ [Next]_vars => IInv'
  <1> SUFFICES ASSUME IInv, [Next]_vars
               PROVE  IInv'
    OBVIOUS
  <1>1. ASSUME NEW s \in Servers,
               AssignOneVM(s) \/ AssignFromPool(s) \/ ServerPowerON(s)
        PROVE  IInv'
    BY <1>1, AssignOneVMIInv, AssignFromPoolIInv, ServerPowerONIInv
  <1>2. ASSUME NEW s \in Servers, NEW t \in Servers,
               MigrateToServer(s, t) \/ MigrateToPool(s, t)
        PROVE  IInv'
    BY <1>2, MigrateToServerIInv, MigrateToPoolIInv
  <1>3. CASE PoliceIdle \/ RunServers \/ ReassignVMs
    BY <1>3, PoliceIdleIInv, RunServersIInv
  <1>4. CASE PowerOFFDC \/ PowerOFFDCFillPool
    BY <1>4, PowerOFFDCIInv, PowerOFFDCFillPoolIInv
  <1>5. CASE FinishMigrations \/ FinishPowerOn
    BY <1>5, FinishMigrationsIInv, FinishPowerOnIInv
  <1>6. CASE \/ EndAssign \/ ServerPowerONDone
             \/ PoliceLowUtilization \/ EndLowUtilization
             \/ PoliceHighTemperature \/ EndHighTemperature
             \/ PowerOFFDCOutOfRange \/ UNCHANGED vars
    BY <1>6, ControlIInv
  <1>7. QED
    BY <1>1, <1>2, <1>3, <1>4, <1>5, <1>6 DEF Next

LEMMA SpecIInv == Spec => []IInv
  <1>1. QED
    BY InitIInv, NextIInv, PTL DEF Spec

(* Type correctness of the pool and of the power modes. *)
THEOREM TypeCorrect == Spec => []TypeOK
  <1>1. IInv => TypeOK
    BY DEF IInv
  <1>2. QED
    BY <1>1, SpecIInv, PTL

(* The vectors of ServersPOOL list exactly the servers whose flags say so, *)
(* each one once: no server is lost or handed out twice.                   *)
THEOREM PoolConsistent == Spec => [](ListsMatchFlags /\ OneMode)
  <1>1. IInv => ListsMatchFlags /\ OneMode
    BY DEF IInv
  <1>2. QED
    BY <1>1, SpecIInv, PTL

(* No VM is ever on a server that does not run VMs. *)
THEOREM DormantServersRunNothing == Spec => []NoVMsOnDormantServers
  <1>1. IInv => NoVMsOnDormantServers
    BY DEF IInv
  <1>2. QED
    BY <1>1, SpecIInv, PTL

(* The == test of the power-on deadline never skips a server. *)
THEOREM PowerOnDeadline == Spec => []PowerOnNeverMissed
  <1>1. IInv => PowerOnNeverMissed
    BY DEF IInv
  <1>2. QED
    BY <1>1, SpecIInv, PTL

-----------------------------------------------------------------------------
(* A step of the system respects the life cycle of every server. *)
LEMMA NextLifeCycle == IInv /\ [Next]_vars => [LifeCycleStep]_vars
  <1> SUFFICES ASSUME IInv, Next
               PROVE  LifeCycleStep
    OBVIOUS
  <1> USE DEF IInv
  <1>1. ASSUME NEW u \in Servers, AssignFromPool(u)
        PROVE  LifeCycleStep
    BY <1>1 DEF AssignFromPool, RemoveServerPOOL, removePOOL, LifeCycleStep, OneMode,
                Dormant, Active
  <1>2. ASSUME NEW u \in Servers, ServerPowerON(u)
        PROVE  LifeCycleStep
    <2>1. u \in isOFF
      BY <1>2 DEF ServerPowerON, timePowerOnServer, ListsMatchFlags, Lists
    <2>2. u \notin isPOOL /\ u \notin isInitializing /\ u \notin isMigrating
      BY <2>1 DEF OneMode, Dormant
    <2>3. QED
      BY <1>2, <2>1, <2>2 DEF ServerPowerON, timePowerOnServer, TurnON, LifeCycleStep, OneMode
  <1>3. ASSUME NEW u \in Servers, NEW t \in Servers, MigrateToServer(u, t)
        PROVE  LifeCycleStep
    BY <1>3 DEF MigrateToServer, LifeCycleStep, OneMode
  <1>4. ASSUME NEW u \in Servers, NEW t \in Servers, MigrateToPool(u, t)
        PROVE  LifeCycleStep
    <2>1. u \notin isPOOL
      BY <1>4 DEF MigrateToPool, PassOK, Dormant, TypeOK
    <2>2. QED
      BY <1>4, <2>1 DEF MigrateToPool, RemoveServerPOOL, removePOOL, LifeCycleStep, OneMode,
                 Dormant, Active
  <1>5. CASE PoliceIdle
    <2>1. IdleServers \subseteq Servers \ Dormant
      BY DEF IdleServers, Active, Dormant
    <2>2. QED
      BY <1>5, <2>1, TurnOFFKeepsModes DEF PoliceIdle
  <1>6. CASE PowerOFFDC
    BY <1>6 DEF PowerOFFDC, Candidates, TurnOFF, LifeCycleStep,
                PowerOFFDCAtOne, BeforePowerOFFDC
  <1>7. CASE PowerOFFDCFillPool
    BY <1>7 DEF PowerOFFDCFillPool, addPOOL, LifeCycleStep, OneMode
  <1>8. CASE FinishMigrations
    <2>1. PICK S \in SUBSET (isMigrating \ Dormant) :
            /\ serversPowerOFF' = InsertVector(serversPowerOFF, S)
            /\ TurnOFF(S)
      BY <1>8 DEF FinishMigrations
    <2>2. S \subseteq Servers \ Dormant
      BY <2>1 DEF TypeOK
    <2>3. QED
      BY <1>8, <2>1, <2>2, TurnOFFKeepsModes DEF FinishMigrations
  <1>9. CASE FinishPowerOn
    <2>1. PoweredUp \subseteq isInitializing
      BY DEF PoweredUp, ListsMatchFlags, Lists
    <2>2. QED
      BY <1>9, <2>1 DEF FinishPowerOn, addPOOL, LifeCycleStep, OneMode
  <1>10. ASSUME UNCHANGED flags
         PROVE  LifeCycleStep
    BY <1>10 DEF flags, LifeCycleStep, OneMode, Dormant
  <1>11. QED
    BY <1>1, <1>2, <1>3, <1>4, <1>5, <1>6, <1>7, <1>8, <1>9, <1>10
    DEF Next, AssignOneVM, EndAssign, ServerPowerONDone, PoliceLowUtilization,
        EndLowUtilization, PoliceHighTemperature, EndHighTemperature,
        RunServers, ReassignVMs, PowerOFFDCOutOfRange

(* Only a power-on leads out of off and only the pool follows it; a server *)
(* that migrates does nothing else until it is off.                        *)
THEOREM LifeCycleHolds == Spec => LifeCycle
  <1>1. QED
    BY SpecIInv, NextLifeCycle, PTL DEF LifeCycle, Spec

=============================================================================
