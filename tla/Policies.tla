------------------------------- MODULE Policies -------------------------------
(***************************************************************************)
(* One call of PoliceLowUtilization or PoliceHighTemperature: how the two  *)
(* migration policies pick the targets that ServersPool and DataCenter     *)
(* leave open.  Both order the active servers once, take some of them as   *)
(* those to empty, and look for each of these a target whose recorded      *)
(* utilisation leaves room for it.                                         *)
(*                                                                         *)
(* Loads and utilisations are tenths of a server, temperatures degrees.    *)
(* All VMs have time left: DataCenter has those that have not.             *)
(***************************************************************************)
EXTENDS Integers, Sequences, FiniteSets, Functions, FiniteSetsExt, SequencesExt

CONSTANTS
  Servers,
  Situations   \* where a policy may find the data center

ASSUME SituationAssumption ==
  /\ IsFiniteSet(Servers)
  /\ \A s \in Situations :
       /\ s.police \in {"low", "high"}
       /\ s.active \subseteq Servers /\ s.isPOOL \subseteq Servers \ s.active
       /\ s.vms \in [Servers -> Seq(Nat \ {0})]
       /\ \A server \in Servers \ s.active : s.vms[server] = <<>>
       /\ s.inlet \in [Servers -> Nat] /\ s.supply \in [Servers -> Nat]
       /\ s.beyond \subseteq Servers   \* those outside of estimateTemperatureServer

VARIABLES
  now,          \* the situation: the policy and the readings of the sensors
  stage,
  isMigrating, isPOOL,
  vRunningVMs,  \* loads of the VMs of each server
  VMsToMigrate, \* servers to empty, with recorded utilisations
  from,         \* index k into it, from 1
  ServerOPT,    \* candidates: servers with recorded utilisations
  to,           \* index l (or i) into it, from 1
  sumRemovePOOL

policeVars == <<now, stage, isMigrating, isPOOL, vRunningVMs, VMsToMigrate,
                from, ServerOPT, to, sumRemovePOOL>>

utilization(s) == SumFunction(vRunningVMs[s])

Recorded(s) == [server |-> s, utilizationCPU |-> utilization(s)]

PoliceInit ==
  /\ now \in Situations
  /\ stage = "collect"
  /\ isMigrating = {} /\ isPOOL = now.isPOOL
  /\ vRunningVMs = now.vms
  /\ ServerOPT = <<>> /\ VMsToMigrate = <<>>
  /\ from = 1 /\ to = 0 /\ sumRemovePOOL = 0

(* The candidates in ascending order of utilisation, or descending order   *)
(* of temperature; equal ones come in any order.                           *)
Candidates ==
  IF now.police = "low" THEN {s \in now.active : utilization(s) > 0}
                        ELSE now.active

Before(s, t) ==
  IF now.police = "low" THEN utilization(s) <= utilization(t)
                        ELSE now.inlet[s] >= now.inlet[t]

(* Mutant: the limit is 50%. *)
ToEmptyHalfLoaded(s) ==
  IF now.police = "low" THEN utilization(s) <= 5 ELSE now.inlet[s] > 29

(* A server to empty has a utilisation of at most 30%, or an inlet above   *)
(* 29.99 degrees.  The first that has not ends the list; the low ones are  *)
(* left alone unless there are two.                                        *)
ToEmpty(s) ==
  IF now.police = "low" THEN utilization(s) <= 3 ELSE now.inlet[s] > 29

Collect ==
  /\ stage = "collect"
  /\ \E order \in SetToSeqs(Candidates), m \in 0..Cardinality(Candidates) :
       /\ \A i, j \in DOMAIN order : i < j => Before(order[i], order[j])
       /\ \A i \in 1..m : ToEmpty(order[i])
       /\ m < Len(order) => ~ ToEmpty(order[m + 1])
       /\ ServerOPT' = [i \in DOMAIN order |-> Recorded(order[i])]
       /\ VMsToMigrate' = IF now.police = "low" /\ m <= 1
                            THEN <<>> ELSE SubSeq(ServerOPT', 1, m)
       /\ to' = Len(order)
  /\ stage' = now.police
  /\ UNCHANGED <<now, isMigrating, isPOOL, vRunningVMs, from, sumRemovePOOL>>

-----------------------------------------------------------------------------
Source == VMsToMigrate[from].server
Target == ServerOPT[to].server

(* Recorded utilisations: what the source has received since it was        *)
(* recorded is not seen.                                                   *)
Fits == VMsToMigrate[from].utilizationCPU + ServerOPT[to].utilizationCPU <= 9

(* The copies of all VMs of the source, and of n VMs of the highest load.  *)
GetALLVMs == vRunningVMs[Source]

GetNVMs(n) ==
  LET loads == vRunningVMs[Source] IN
  {[i \in 1..n |-> loads[SetToSeq(chosen)[i]]] :
     chosen \in {c \in kSubset(n, DOMAIN loads) :
                   \A i \in c, j \in DOMAIN loads \ c : loads[i] >= loads[j]}}

(* Mutant: what the target got is not recorded. *)
MoveUnrecorded(copies) ==
  /\ vRunningVMs' = [vRunningVMs EXCEPT ![Target] = @ \o copies]
  /\ isMigrating' = isMigrating \cup {Source}
  /\ UNCHANGED ServerOPT

(* MoveVMs: they run on the target, the originals run on at the source.    *)
Move(copies) ==
  /\ vRunningVMs' = [vRunningVMs EXCEPT ![Target] = @ \o copies]
  /\ isMigrating' = isMigrating \cup {Source}
  /\ ServerOPT' = [ServerOPT EXCEPT
                     ![to].utilizationCPU = SumFunction(vRunningVMs'[Target])]

(* PoliceLowUtilization: the target goes down through all sources, and is  *)
(* never set back.                                                         *)
MigrateLow ==
  /\ stage = "low" /\ from <= Len(VMsToMigrate)
  /\ to # from /\ Fits
  /\ Move(GetALLVMs)
  /\ from' = from + 1
  /\ UNCHANGED <<now, stage, isPOOL, VMsToMigrate, to, sumRemovePOOL>>

NextTargetLow ==
  /\ stage = "low" /\ from <= Len(VMsToMigrate)
  /\ to # from /\ ~ Fits
  /\ to' = to - 1
  /\ UNCHANGED <<now, stage, isMigrating, isPOOL, vRunningVMs, ServerOPT,
                 VMsToMigrate, from, sumRemovePOOL>>

(* Mutants: where the indices meet, the pass ends or the search restarts. *)
NoTargetLowStops ==
  /\ stage = "low" /\ from <= Len(VMsToMigrate)
  /\ to = from
  /\ from' = Len(VMsToMigrate) + 1
  /\ UNCHANGED <<now, stage, isMigrating, isPOOL, vRunningVMs, ServerOPT,
                 VMsToMigrate, to, sumRemovePOOL>>

NoTargetLowAgain ==
  /\ stage = "low" /\ from <= Len(VMsToMigrate)
  /\ to = from
  /\ to' = Len(ServerOPT)
  /\ UNCHANGED <<now, stage, isMigrating, isPOOL, vRunningVMs, ServerOPT,
                 VMsToMigrate, from, sumRemovePOOL>>

NoTargetLow ==
  /\ stage = "low" /\ from <= Len(VMsToMigrate)
  /\ to = from
  /\ from' = from + 1
  /\ UNCHANGED <<now, stage, isMigrating, isPOOL, vRunningVMs, ServerOPT,
                 VMsToMigrate, to, sumRemovePOOL>>

(* PoliceHighTemperature: from the coldest candidate up.  The temperature  *)
(* it estimates for a target is that of the target's supply air: the heat  *)
(* is added up in a variable that another one of the same name hides.      *)
(* estimateTemperatureServer has 50 chassis of 10 servers: what is read    *)
(* behind its end may be anything, of which the code tells four ranges     *)
(* apart.  (What it adds there is zero.)                                   *)
Estimates(s) == IF s \in now.beyond THEN 27..30 ELSE {now.supply[s]}

(* The target takes all VMs of the source, half of them or a quarter. *)
MoveShare ==
  LET HowManyVMs == Len(vRunningVMs[Source]) IN
  \E calcTemp \in Estimates(Target) :
    \/ calcTemp <= 27 /\ Move(GetALLVMs)
    \/ calcTemp = 28 /\ \E copies \in GetNVMs(HowManyVMs \div 2) : Move(copies)
    \/ calcTemp = 29 /\ \E copies \in GetNVMs(HowManyVMs \div 4) : Move(copies)

MigrateHigh ==
  /\ stage = "high" /\ from <= Len(VMsToMigrate)
  /\ to > 0 /\ Fits
  /\ MoveShare
  /\ from' = from + 1 /\ to' = Len(ServerOPT)
  /\ UNCHANGED <<now, stage, isPOOL, VMsToMigrate, sumRemovePOOL>>

NextTargetHigh ==
  /\ stage = "high" /\ from <= Len(VMsToMigrate)
  /\ to > 0 /\ \E calcTemp \in Estimates(Target) : ~ (calcTemp <= 29 /\ Fits)
  /\ to' = to - 1
  /\ UNCHANGED <<now, stage, isMigrating, isPOOL, vRunningVMs, ServerOPT,
                 VMsToMigrate, from, sumRemovePOOL>>

Coldest == {s \in isPOOL : \A t \in isPOOL : now.inlet[s] <= now.inlet[t]}

(* Mutant: the server is not owed a power-on. *)
MigrateToPoolUncounted ==
  /\ stage = "high" /\ from <= Len(VMsToMigrate)
  /\ to = 0
  /\ \E s \in Coldest :
       /\ isPOOL' = isPOOL \ {s}
       /\ vRunningVMs' = [vRunningVMs EXCEPT ![s] = @ \o GetALLVMs]
       /\ ServerOPT' = Append(ServerOPT,
                [server |-> s, utilizationCPU |-> SumFunction(vRunningVMs'[s])])
  /\ isMigrating' = isMigrating \cup {Source}
  /\ from' = from + 1 /\ to' = Len(ServerOPT')
  /\ UNCHANGED <<now, stage, VMsToMigrate, sumRemovePOOL>>

(* No candidate will do: a server of the pool takes all VMs, and is a      *)
(* candidate for the sources that follow.                                  *)
MigrateToPool ==
  /\ stage = "high" /\ from <= Len(VMsToMigrate)
  /\ to = 0
  /\ \E s \in Coldest :
       /\ isPOOL' = isPOOL \ {s}
       /\ vRunningVMs' = [vRunningVMs EXCEPT ![s] = @ \o GetALLVMs]
       /\ ServerOPT' = Append(ServerOPT,
                [server |-> s, utilizationCPU |-> SumFunction(vRunningVMs'[s])])
  /\ isMigrating' = isMigrating \cup {Source}
  /\ sumRemovePOOL' = sumRemovePOOL + 1
  /\ from' = from + 1 /\ to' = Len(ServerOPT')
  /\ UNCHANGED <<now, stage, VMsToMigrate>>

(* All sources are done with, or the pool is empty.  ServersPool has the   *)
(* call of ServerPowerON, for sumRemovePOOL servers, that follows.         *)
Return ==
  /\ \/ stage = "low" /\ from > Len(VMsToMigrate)
     \/ stage = "high" /\ from > Len(VMsToMigrate)
     \/ stage = "high" /\ to = 0 /\ isPOOL = {}
  /\ stage' = "done"
  /\ UNCHANGED <<now, isMigrating, isPOOL, vRunningVMs, ServerOPT, VMsToMigrate,
                 from, to, sumRemovePOOL>>

PoliceNext ==
  \/ Collect
  \/ MigrateLow \/ NextTargetLow \/ NoTargetLow
  \/ MigrateHigh \/ NextTargetHigh \/ MigrateToPool
  \/ Return

PoliceSpec == PoliceInit /\ [][PoliceNext]_policeVars

(* One thread, which runs on. *)
FairPoliceSpec == PoliceSpec /\ WF_policeVars(PoliceNext)

-----------------------------------------------------------------------------
Listed == {ServerOPT[i].server : i \in DOMAIN ServerOPT}

Sources == {VMsToMigrate[i].server : i \in DOMAIN VMsToMigrate}

(* The servers that got copies. *)
Receivers == {s \in Servers : Len(vRunningVMs[s]) > Len(now.vms[s])}

PoliceTypeOK ==
  LET Entries == Seq([server : Servers, utilizationCPU : Nat]) IN
  /\ now \in Situations
  /\ stage \in {"collect", "low", "high", "done"}
  /\ isMigrating \subseteq now.active /\ isPOOL \subseteq now.isPOOL
  /\ vRunningVMs \in [Servers -> Seq(Nat)]
  /\ ServerOPT \in Entries /\ VMsToMigrate \in Entries
  /\ from \in 1..(Len(VMsToMigrate) + 1)
  /\ to \in 0..Len(ServerOPT)
  /\ sumRemovePOOL \in Nat

(* The types, and that PoliceLowUtilization never reads ServerOPT[-1].     *)
(* Its inner loop ends with to = from only; when the target has fallen     *)
(* behind the source nothing but the room that is left on the servers      *)
(* keeps it from running out of the vector.                                *)
InRange ==
  /\ PoliceTypeOK
  /\ stage = "low" /\ from <= Len(VMsToMigrate) => to > 0

(* A pass does what it is for.  PoliceLowUtilization consolidates: of two  *)
(* or more lightly loaded servers all but one are emptied, although the    *)
(* search never returns to a target it has passed.  PoliceHighTemperature  *)
(* marks every hot server as migrating, if only the pool gives enough      *)
(* servers.                                                                *)
PassComplete ==
  stage = "done" =>
    IF now.police = "low"
    THEN Cardinality(Sources \ isMigrating) <= 1
    ELSE \/ isPOOL = {}
         \/ \A s \in now.active : now.inlet[s] > 29 => s \in isMigrating

(* No move loads its target above 90%, unless the source had itself been a *)
(* target since its load was recorded, or the target comes from the pool;  *)
(* and none is taken out of the pool while any candidate, whichever loads  *)
(* it got in this pass, is cool and has room, if it has a place in the     *)
(* array of estimates.                                                     *)
TargetsLimited ==
  [][/\ \A s \in Servers :
          utilization(s)' > utilization(s) /\ utilization(s)' > 9 =>
            Source \in Receivers \/ s \in isPOOL
     /\ isPOOL' # isPOOL =>
          \A s \in now.active \cup (now.isPOOL \ isPOOL) :
            \/ now.supply[s] > 29 \/ s \in now.beyond
            \/ utilization(s) + VMsToMigrate[from].utilizationCPU > 9
    ]_policeVars

(* Both policies return: their loops end. *)
Returns == <>(stage = "done")

(* The phase of ServersPool. *)
Phase ==
  IF stage = "collect" THEN now.police
  ELSE IF stage = "low" THEN "migrateLow"
  ELSE IF stage = "high" THEN "migrateHigh"
  ELSE IF now.police = "low" THEN "high" ELSE "wakeHigh"

(* What they do to the servers is what ServersPool allows. *)
Pool == INSTANCE ServersPool WITH
  POWER_ON <- 1, HighPeriod <- 1, LowPeriod <- 1, PowerOFFPercent <- 80,
  PoolPercent <- 10, MaxClock <- 1, clock <- 1, pc <- Phase,
  isOFF <- Servers \ (now.active \cup now.isPOOL), isInitializing <- {},
  hasVMs <- {s \in Servers : vRunningVMs[s] # <<>>},
  powerOnServer <- [s \in Servers |-> 0],
  serversPowerOFF <- [s \in Servers |-> 0],
  serversPowerON <- [s \in Servers |-> 0],
  serversPOOL <- [s \in Servers |-> IF s \in isPOOL THEN 1 ELSE 0],
  wakeUP <- sumRemovePOOL,
  ServerOPT <- IF stage = "done" THEN {} ELSE Listed,
  VMsToMigrate <- IF stage = "done" THEN {} ELSE Sources \ isMigrating

PoolSteps == [][Pool!Next]_(Pool!vars)

=============================================================================
