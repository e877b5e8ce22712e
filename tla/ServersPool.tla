---------------------------- MODULE ServersPool ----------------------------
(***************************************************************************)
(* The pool of servers (PoolServers.cpp) and the power mode of every       *)
(* server (Server.cpp), driven by the scheduler, the three optimisation    *)
(* policies and the second-by-second sweep of DataCenter::EveryASecond.    *)
(*                                                                         *)
(* One simulated second is the sequence of phases that pc walks through;   *)
(* the calls one phase makes for different servers are separate steps.     *)
(* Temperatures, utilisations and run times decide in the code WHICH       *)
(* server a step picks; here the pick is nondeterministic.  Of the VMs of  *)
(* a server the module keeps only whether vRunningVMs is empty.            *)
(*                                                                         *)
(* The boolean members of Server are sets of the servers where they are    *)
(* true.  The vectors of the pool are sorted by a fresh temperature before *)
(* every use, so what matters is how often each server occurs in them.     *)
(***************************************************************************)
EXTENDS Naturals, FiniteSets

CONSTANTS
  Servers,      \* the servers of all chassis
  POWER_ON,     \* seconds between TurnON and the end of the initialisation
  HighPeriod,   \* period of PoliceHighTemperature   (60 in the code)
  LowPeriod,    \* period of PoliceLowUtilization and PoliceIdle (120)
  PowerOFFPercent, \* share of the servers PowerOFFDC powers off (80)
  PoolPercent,  \* share of the servers it puts in the pool (10)
  MaxClock      \* bound: the last second that is simulated

ASSUME ServersAssumption == IsFiniteSet(Servers)

ASSUME TimeAssumption ==
  /\ POWER_ON \in Nat
  /\ HighPeriod \in Nat \ {0}
  /\ LowPeriod \in Nat \ {0}
  /\ MaxClock \in Nat

ASSUME ShareAssumption == PowerOFFPercent \in 0..100 /\ PoolPercent \in 0..100

VARIABLES
  clock,            \* DataCenter::clock, = ServersPOOL::clockSimulation
  pc,               \* the phase of DataCenter::EveryASecond
  isOFF, isPOOL, isMigrating, isInitializing,       \* flags of Server
  hasVMs,           \* servers with a nonempty vRunningVMs
  powerOnServer,    \* Server::powerOnServer, the second a power-on ends
  serversPowerOFF, serversPowerON, serversPOOL,     \* vectors of ServersPOOL
  wakeUP,           \* RemovePOOL / sumRemovePOOL: servers ServerPowerON owes
  ServerOPT,        \* candidate targets of the running policy pass
  VMsToMigrate      \* the servers it still has to empty

flags   == <<isOFF, isPOOL, isMigrating, isInitializing>>
vectors == <<serversPowerOFF, serversPowerON, serversPOOL>>
pass    == <<ServerOPT, VMsToMigrate>>
vars    == <<clock, pc, flags, hasVMs, powerOnServer, vectors, wakeUP, pass>>

Phases == {"reassign", "assign", "wakeAssign", "low", "high", "migrateLow",
           "migrateHigh", "wakeHigh", "idle", "run", "poweroff", "fill",
           "moved", "powered", "undefined"}

-----------------------------------------------------------------------------
(* Vectors of POOL entries. *)

InsertVector(vector, S) ==
  [s \in Servers |-> IF s \in S THEN vector[s] + 1 ELSE vector[s]]

EraseFirst(vector, s) == [vector EXCEPT ![s] = @ - 1]

IsEmptyVector(vector) == \A s \in Servers : vector[s] = 0

(* Neither off, in the pool, migrating nor initialising: the test with     *)
(* which the schedulers and the policies skip a server.                    *)
Active == Servers \ (isOFF \cup isPOOL \cup isMigrating \cup isInitializing)

(* A server in one of these modes runs no VM (Server::EveryASecond). *)
Dormant == isOFF \cup isPOOL \cup isInitializing

TurnOFF(S) ==
  /\ isOFF' = isOFF \cup S
  /\ isMigrating' = isMigrating \ S
  /\ isPOOL' = isPOOL \ S
  /\ isInitializing' = isInitializing \ S

TurnON(s) ==
  /\ isOFF' = isOFF \ {s}
  /\ isMigrating' = isMigrating \ {s}
  /\ isPOOL' = isPOOL \ {s}
  /\ isInitializing' = isInitializing \cup {s}

addPOOL(S) == isPOOL \cup S

removePOOL(s) == isPOOL \ {s}

(* RemoveServerPOOL: the coldest server of the pool becomes active. *)
RemoveServerPOOL(s) ==
  /\ serversPOOL[s] > 0
  /\ serversPOOL' = EraseFirst(serversPOOL, s)
  /\ isPOOL' = removePOOL(s)

(* The policies run when clock is a positive multiple of their period. *)
Due(period) == clock # 0 /\ clock % period = 0

-----------------------------------------------------------------------------
Init ==
  /\ clock = 0
  /\ pc = "reassign"
  /\ isOFF = {} /\ isPOOL = {} /\ isMigrating = {} /\ isInitializing = {}
  /\ hasVMs = {}
  /\ powerOnServer = [s \in Servers |-> 0]
  /\ serversPowerOFF = [s \in Servers |-> 0]
  /\ serversPowerON = [s \in Servers |-> 0]
  /\ serversPOOL = [s \in Servers |-> 0]
  /\ wakeUP = 0
  /\ ServerOPT = {} /\ VMsToMigrate = {}

(* REASSIGN_VMS: in some seconds the VMs of all servers that are not off   *)
(* go back to the queue.                                                   *)
ReassignVMs ==
  /\ pc = "reassign"
  /\ hasVMs' \in {hasVMs, hasVMs \cap isOFF}
  /\ pc' = "assign"
  /\ UNCHANGED <<clock, flags, powerOnServer, vectors, wakeUP, pass>>

(* AssignVMs gives a waiting VM to an active server ... *)
AssignOneVM(s) ==
  /\ pc = "assign"
  /\ s \in Active \ hasVMs
  /\ hasVMs' = hasVMs \cup {s}
  /\ UNCHANGED <<clock, pc, flags, powerOnServer, vectors, wakeUP, pass>>

(* ... or, when every active server is full or hot, to one of the pool. *)
AssignFromPool(s) ==
  /\ pc = "assign"
  /\ RemoveServerPOOL(s)
  /\ hasVMs' = hasVMs \cup {s}
  /\ wakeUP' = wakeUP + 1
  /\ UNCHANGED <<clock, pc, isOFF, isMigrating, isInitializing, powerOnServer,
                 serversPowerOFF, serversPowerON, pass>>

(* AssignVMs leaves its loop: nothing waits any more, or the pool is empty. *)
EndAssign ==
  /\ pc = "assign"
  /\ pc' = "wakeAssign"
  /\ UNCHANGED <<clock, flags, hasVMs, powerOnServer, vectors, wakeUP, pass>>

(* Mutant: timePowerOnServer is not called. *)
ServerPowerONWithoutDeadline(s) ==
  /\ pc \in {"wakeAssign", "wakeHigh"}
  /\ wakeUP > 0
  /\ serversPowerOFF[s] > 0
  /\ serversPowerON' = InsertVector(serversPowerON, {s})
  /\ TurnON(s)
  /\ serversPowerOFF' = EraseFirst(serversPowerOFF, s)
  /\ wakeUP' = wakeUP - 1
  /\ UNCHANGED <<clock, pc, hasVMs, powerOnServer, serversPOOL, pass>>

(* The second in which a power-on that starts now ends. *)
timePowerOnServer(s) == [powerOnServer EXCEPT ![s] = clock + POWER_ON]

(* One iteration of ServerPowerON: the coldest server that is off. *)
ServerPowerON(s) ==
  /\ pc \in {"wakeAssign", "wakeHigh"}
  /\ wakeUP > 0
  /\ serversPowerOFF[s] > 0
  /\ serversPowerON' = InsertVector(serversPowerON, {s})
  /\ TurnON(s)
  /\ powerOnServer' = timePowerOnServer(s)
  /\ serversPowerOFF' = EraseFirst(serversPowerOFF, s)
  /\ wakeUP' = wakeUP - 1
  /\ UNCHANGED <<clock, pc, hasVMs, serversPOOL, pass>>

ServerPowerONDone ==
  /\ pc \in {"wakeAssign", "wakeHigh"}
  /\ wakeUP = 0 \/ IsEmptyVector(serversPowerOFF)
  /\ wakeUP' = 0
  /\ pc' = IF pc = "wakeAssign" THEN "low" ELSE "idle"
  /\ UNCHANGED <<clock, flags, hasVMs, powerOnServer, vectors, pass>>

(* PoliceLowUtilization takes the loaded servers as candidates and the     *)
(* lightly loaded ones as those to empty, if there are two or more.        *)
PoliceLowUtilization ==
  /\ pc = "low"
  /\ \/ /\ ~ Due(LowPeriod)
        /\ pc' = "high"
        /\ UNCHANGED pass
     \/ /\ Due(LowPeriod)
        /\ pc' = "migrateLow"
        /\ ServerOPT' = Active \cap hasVMs
        /\ VMsToMigrate' \in {V \in SUBSET ServerOPT' : Cardinality(V) # 1}
  /\ UNCHANGED <<clock, flags, hasVMs, powerOnServer, vectors, wakeUP>>

(* Lightly loaded servers that fit nowhere are left as they are. *)
EndLowUtilization ==
  /\ pc = "migrateLow"
  /\ pc' = "high"
  /\ ServerOPT' = {} /\ VMsToMigrate' = {}
  /\ UNCHANGED <<clock, flags, hasVMs, powerOnServer, vectors, wakeUP>>

(* PoliceHighTemperature takes all active servers as candidates and the    *)
(* hot ones as those to empty.                                             *)
PoliceHighTemperature ==
  /\ pc = "high"
  /\ \/ /\ ~ Due(HighPeriod)
        /\ pc' = "wakeHigh"
        /\ UNCHANGED pass
     \/ /\ Due(HighPeriod)
        /\ pc' = "migrateHigh"
        /\ ServerOPT' = Active
        /\ VMsToMigrate' \in SUBSET Active
  /\ UNCHANGED <<clock, flags, hasVMs, powerOnServer, vectors, wakeUP>>

(* MoveVMs of copies made from server s to server t; no copy is made when  *)
(* s runs nothing, or nothing with time left.                              *)
MoveVMs(s, t) ==
  \/ UNCHANGED hasVMs
  \/ s \in hasVMs /\ hasVMs' = hasVMs \cup {t}

(* A server is emptied into a candidate, which may be migrating itself     *)
(* since an earlier iteration; a hot server may even be its own target.    *)
MigrateToServer(s, t) ==
  /\ \/ pc = "migrateLow" /\ s # t
     \/ pc = "migrateHigh"
  /\ s \in VMsToMigrate /\ t \in ServerOPT
  /\ isMigrating' = isMigrating \cup {s}
  /\ MoveVMs(s, t)
  /\ VMsToMigrate' = VMsToMigrate \ {s}
  /\ UNCHANGED <<clock, pc, isOFF, isPOOL, isInitializing, powerOnServer,
                 vectors, wakeUP, ServerOPT>>

(* No candidate fits: a server of the pool takes the VMs. *)
MigrateToPool(s, t) ==
  /\ pc = "migrateHigh"
  /\ s \in VMsToMigrate
  /\ RemoveServerPOOL(t)
  /\ isMigrating' = isMigrating \cup {s}
  /\ MoveVMs(s, t)
  /\ VMsToMigrate' = VMsToMigrate \ {s}
  /\ ServerOPT' = ServerOPT \cup {t}
  /\ wakeUP' = wakeUP + 1
  /\ UNCHANGED <<clock, pc, isOFF, isInitializing, powerOnServer,
                 serversPowerOFF, serversPowerON>>

(* All hot servers are handled, or the pool has run empty. *)
EndHighTemperature ==
  /\ pc = "migrateHigh"
  /\ VMsToMigrate = {} \/ IsEmptyVector(serversPOOL)
  /\ pc' = "wakeHigh"
  /\ ServerOPT' = {} /\ VMsToMigrate' = {}
  /\ UNCHANGED <<clock, flags, hasVMs, powerOnServer, vectors, wakeUP>>

(* Mutant: the test IsPOOL is missing. *)
IdleServersOrPooled ==
  IF Due(LowPeriod)
    THEN Servers \ (hasVMs \cup isOFF \cup isMigrating \cup isInitializing)
    ELSE {}

(* The servers PoliceIdle powers off. *)
IdleServers == IF Due(LowPeriod) THEN Active \ hasVMs ELSE {}

PoliceIdle ==
  /\ pc = "idle"
  /\ serversPowerOFF' = InsertVector(serversPowerOFF, IdleServers)
  /\ TurnOFF(IdleServers)
  /\ pc' = "run"
  /\ UNCHANGED <<clock, hasVMs, powerOnServer, serversPowerON, serversPOOL,
                 wakeUP, pass>>

(* Server::EveryASecond of all servers: the last VM of some may finish. *)
RunServers ==
  /\ pc = "run"
  /\ \E done \in SUBSET (hasVMs \ Dormant) : hasVMs' = hasVMs \ done
  /\ pc' = IF clock = 1 THEN "poweroff" ELSE "moved"
  /\ UNCHANGED <<clock, flags, powerOnServer, vectors, wakeUP, pass>>

-----------------------------------------------------------------------------
(* PowerOFFDC, at second 1: 80% of the servers are powered off, then 10%   *)
(* enter the pool.  A loop "i < 0.80*N" runs 0.80*N times, rounded up.     *)

(* Mutant: the test hasVMs is missing. *)
CandidatesWithVMs == Servers \ (isOFF \cup isMigrating \cup isInitializing)

Candidates == Servers \ (isOFF \cup hasVMs \cup isMigrating \cup isInitializing)

Share(percent) == (percent * Cardinality(Servers) + 99) \div 100

PowerOFFTarget == Share(PowerOFFPercent)

PoolTarget == Share(PoolPercent)

SmallerOf(m, n) == IF m <= n THEN m ELSE n

(* First loop: the hottest candidates are powered off. *)
PowerOFFDC ==
  /\ pc = "poweroff"
  /\ \E off \in SUBSET Candidates :
       /\ Cardinality(off) = PowerOFFTarget
       /\ serversPowerOFF' = InsertVector(serversPowerOFF, off)
       /\ TurnOFF(off)
  /\ pc' = "fill"
  /\ UNCHANGED <<clock, hasVMs, powerOnServer, serversPowerON, serversPOOL,
                 wakeUP, pass>>

(* Second loop, over the candidates that are left.  When they run out, the *)
(* entries read past the end of the vector are the ones erased before it,  *)
(* servers that are off and that the loop skips: the pool gets fewer.      *)
PowerOFFDCFillPool ==
  /\ pc = "fill"
  /\ \E pool \in SUBSET Candidates :
       /\ Cardinality(pool) = SmallerOf(PoolTarget, Cardinality(Candidates))
       /\ isPOOL' = addPOOL(pool)
       /\ serversPOOL' = InsertVector(serversPOOL, pool)
  /\ pc' = "moved"
  /\ UNCHANGED <<clock, isOFF, isMigrating, isInitializing, hasVMs,
                 powerOnServer, serversPowerOFF, serversPowerON, wakeUP, pass>>

(* Reading past the end is undefined: a checked build aborts, and in the   *)
(* first loop every build reads memory that was never written.             *)
PowerOFFDCOutOfRange ==
  /\ \/ pc = "poweroff" /\ Cardinality(Candidates) < PowerOFFTarget
     \/ pc = "fill" /\ Cardinality(Candidates) < PoolTarget
  /\ pc' = "undefined"
  /\ UNCHANGED <<clock, flags, hasVMs, powerOnServer, vectors, wakeUP, pass>>

(* ServersPOOL::EveryASecond, second part: CheckFinishMove ends the moves  *)
(* that are due; a migrating server without VMs is powered off.            *)
FinishMigrations ==
  /\ pc = "moved"
  /\ \E done \in SUBSET (hasVMs \cap (isMigrating \ Dormant)) :
       LET empty == (isMigrating \ Dormant) \ (hasVMs \ done) IN
       /\ hasVMs' = hasVMs \ done
       /\ serversPowerOFF' = InsertVector(serversPowerOFF, empty)
       /\ TurnOFF(empty)
  /\ pc' = "powered"
  /\ UNCHANGED <<clock, powerOnServer, serversPowerON, serversPOOL, wakeUP,
                 pass>>

(* Mutant: the search stops at the first server found. *)
PoweredUpFirst ==
  LET due == {s \in Servers : serversPowerON[s] > 0 /\ powerOnServer[s] = clock}
  IN  IF due = {} THEN {} ELSE {CHOOSE s \in due : TRUE}

(* Third part: every server whose power-on ends now enters the pool. *)
PoweredUp == {s \in Servers : serversPowerON[s] > 0 /\ powerOnServer[s] = clock}

(* Mutant: addPOOL is not called, the server can be scheduled directly. *)
FinishPowerOnActive ==
  /\ pc = "powered"
  /\ clock < MaxClock
  /\ isInitializing' = isInitializing \ PoweredUp
  /\ serversPowerON' = [s \in Servers |-> IF s \in PoweredUp
                          THEN 0 ELSE serversPowerON[s]]
  /\ clock' = clock + 1
  /\ pc' = "reassign"
  /\ UNCHANGED <<isOFF, isPOOL, isMigrating, hasVMs, powerOnServer,
                 serversPowerOFF, serversPOOL, wakeUP, pass>>

FinishPowerOn ==
  /\ pc = "powered"
  /\ clock < MaxClock
  /\ isInitializing' = isInitializing \ PoweredUp
  /\ isPOOL' = addPOOL(PoweredUp)
  /\ serversPOOL' = [s \in Servers |-> IF s \in PoweredUp
                       THEN serversPOOL[s] + serversPowerON[s]
                       ELSE serversPOOL[s]]
  /\ serversPowerON' = [s \in Servers |-> IF s \in PoweredUp
                          THEN 0 ELSE serversPowerON[s]]
  /\ clock' = clock + 1
  /\ pc' = "reassign"
  /\ UNCHANGED <<isOFF, isMigrating, hasVMs, powerOnServer, serversPowerOFF,
                 wakeUP, pass>>

-----------------------------------------------------------------------------
Next ==
  \/ \E s \in Servers : AssignOneVM(s) \/ AssignFromPool(s) \/ ServerPowerON(s)
  \/ \E s, t \in Servers : MigrateToServer(s, t) \/ MigrateToPool(s, t)
  \/ ReassignVMs \/ EndAssign \/ ServerPowerONDone
  \/ PoliceLowUtilization \/ PoliceHighTemperature
  \/ EndLowUtilization \/ EndHighTemperature
  \/ PoliceIdle \/ RunServers
  \/ PowerOFFDC \/ PowerOFFDCFillPool \/ PowerOFFDCOutOfRange
  \/ FinishMigrations \/ FinishPowerOn

Spec == Init /\ [][Next]_vars

(* The simulator is one thread that keeps running. *)
FairSpec == Spec /\ WF_vars(Next)

-----------------------------------------------------------------------------
TypeOK ==
  /\ clock \in 0..MaxClock
  /\ pc \in Phases
  /\ isOFF \subseteq Servers /\ isPOOL \subseteq Servers
  /\ isMigrating \subseteq Servers /\ isInitializing \subseteq Servers
  /\ hasVMs \subseteq Servers
  /\ powerOnServer \in [Servers -> Nat]
  /\ serversPowerOFF \in [Servers -> Nat]
  /\ serversPowerON \in [Servers -> Nat]
  /\ serversPOOL \in [Servers -> Nat]
  /\ wakeUP \in Nat
  /\ ServerOPT \subseteq Servers
  /\ VMsToMigrate \subseteq ServerOPT

(* The vector lists exactly the servers of the set, each one once. *)
Lists(vector, S) == \A s \in Servers : vector[s] = IF s \in S THEN 1 ELSE 0

(* The three vectors of ServersPOOL and the flags of the servers never     *)
(* drift apart: no server is off, in the pool or booting without being     *)
(* listed (it would be lost for good), and none is listed twice (it would  *)
(* be handed out twice).                                                   *)
ListsMatchFlags ==
  /\ Lists(serversPowerOFF, isOFF)
  /\ Lists(serversPOOL, isPOOL)
  /\ Lists(serversPowerON, isInitializing)

(* The four flags exclude each other, although every caller sets and       *)
(* clears them one by one.                                                 *)
OneMode ==
  /\ isOFF \cap isPOOL = {}
  /\ isOFF \cap isInitializing = {}
  /\ isPOOL \cap isInitializing = {}
  /\ isMigrating \cap Dormant = {}

(* Server::EveryASecond and "delete finished VMs" skip a server that is    *)
(* off, in the pool or booting, so a VM must never be on one: neither the  *)
(* scheduler, nor a migration (whose target was chosen earlier in the      *)
(* pass), nor a power-off may leave it there.                              *)
NoVMsOnDormantServers == hasVMs \cap Dormant = {}

(* The end of a power-on is tested with ==: a booting server whose second  *)
(* went by would boot for ever.                                            *)
PowerOnNeverMissed == \A s \in isInitializing : clock <= powerOnServer[s]

(* Life cycle of a server.  Only a power-on leads out of off, only the     *)
(* pool follows it, and a server that migrates takes part in nothing until *)
(* it is off: it is never scheduled again, nor put in the pool.            *)
LifeCycleStep ==
  \A s \in Servers :
    /\ s \in isOFF' => s \notin isPOOL \cup isInitializing
    /\ s \in isOFF /\ s \notin isOFF' => s \in isInitializing'
    /\ s \in isInitializing /\ s \notin isInitializing' => s \in isPOOL'
    /\ s \in isPOOL /\ s \notin isPOOL' => s \in Active'
    /\ s \in isMigrating /\ s \notin isMigrating' => s \in isOFF'

LifeCycle == [][LifeCycleStep]_vars

(* A server that boots reaches the pool, when the simulated time allows.   *)
PowerOnCompletes ==
  \A s \in Servers :
    (s \in isInitializing /\ clock + POWER_ON < MaxClock) ~> s \in isPOOL

=============================================================================
