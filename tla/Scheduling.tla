------------------------------ MODULE Scheduling ------------------------------
(***************************************************************************)
(* One call of AssignVMs, of each of the eleven schedulers: nine that an   *)
(* option selects, xint, which none does, and 2D_VB of OtherScheduling.cpp,*)
(* which is not compiled.                                                  *)
(*                                                                         *)
(* The three 2D schedulers, of which 2D_POOL is the default, rank the      *)
(* active servers once, then deal out the waiting VMs in rounds, one to    *)
(* each server that is neither full nor hot; when all are, the pool gives  *)
(* a server.  This is the choice that ServersPool and DataCenter leave     *)
(* open.  2D_VB deals to the cool servers first, then to all.  The other   *)
(* seven place one VM after the other on the server that is best for it,   *)
(* and test no mode but IsOFF.                                             *)
(*                                                                         *)
(* A chassis is one server.  Utilisations and loads are tenths of a        *)
(* server, temperatures degrees.  The servers that are migrating or        *)
(* booting count as off: nothing is assigned to them here.                 *)
(***************************************************************************)
EXTENDS Integers, Sequences, FiniteSets, FiniteSetsExt, SequencesExt

CONSTANTS
  Algorithms,    \* the values of SCHEDULING_ALGORITHM
  Servers,
  HeatRecirculationMatrixD,  \* [i][j]: the heat that i gets from j, in 1/8000
  Loads,         \* GetCPULoadRatio of a VM, by NUMBER_OF_CORES_IN_ONE_SERVER
  Utilizations,  \* of the active servers before the call
  Temperatures,  \* at their inlets
  CenterRank,    \* place of a server in the list of center_rack_first
  MaxUtilization, \* of a server, by its temperature
  Predicted,     \* temperatures within 10..32 that the prediction may return
  MaxQueue       \* bound: VMs that wait

ASSUME SchedulingAssumption ==
  /\ Algorithms \subseteq
       {"2D_POOL", "2D_POOL_AND_Prediction", "2D_Prediction", "best_performance",
        "uniform_task", "low_temp_first", "random", "min_hr", "center_rack_first",
        "xint", "2D_VB"}
  /\ IsFiniteSet(Servers) /\ Servers \subseteq Nat
  /\ CenterRank \in [Servers -> Nat]
  /\ MaxUtilization \in [Temperatures -> Nat \ {0}]
  /\ Predicted \subseteq 10..32
  /\ HeatRecirculationMatrixD \in [Servers -> [Servers -> Nat]]
  /\ Loads \subseteq Nat \ {0}
  /\ Temperatures \subseteq Nat
  /\ MaxQueue \in Nat

VARIABLES
  pc,
  algorithm,
  active,      \* servers not off, pooled, migrating or booting before the call
  isPOOL,
  temperature, \* CurrentInletTemperature
  utilization, \* VMRequiresThisMuchUtilization
  qWaitingVMs, \* the loads of the waiting VMs
  serverScheduling,  \* the array of candidates
  l,           \* its index
  full,        \* servers found full or hot in this round
  RemovePOOL,  \* servers taken from the pool
  draw,        \* currentPowerDraw as last computed, followed for xint only
  assignVM     \* servers that got a VM in the first round of 2D_VB

frame == <<algorithm, active, temperature>>
extra == <<draw, assignVM>>
vars  == <<pc, frame, isPOOL, utilization, qWaitingVMs, serverScheduling, l,
           full, RemovePOOL, extra>>

(* The heat recirculation factor of a chassis: what all get from it.       *)
HRF == [j \in Servers |->
          SumFunction([i \in Servers |-> HeatRecirculationMatrixD[i][j]])]

(* What the constructors set: the global PREDICITIONSHEDULER, with which   *)
(* servers sample their temperature, the pool if any, and the factors of   *)
(* the 2D schedulers.                                                      *)
Scheduler(predicts, pool, factors) ==
  [PREDICITIONSHEDULER |-> predicts, ppollServers |-> pool, HRF |-> factors]

WithoutPool   == Scheduler(FALSE, FALSE, <<>>)
XintAlgorithm == Scheduler(FALSE, FALSE, <<>>)

TwoDimensionWithPool              == Scheduler(FALSE, TRUE, HRF)
TwoDimensionWithPoolAndPrediction == Scheduler(TRUE, TRUE, HRF)
TwoDimensionWithPrediction        == Scheduler(TRUE, FALSE, HRF)

pSchedulingAlgorithm ==
  CASE algorithm = "2D_POOL"                -> TwoDimensionWithPool
    [] algorithm = "2D_POOL_AND_Prediction" -> TwoDimensionWithPoolAndPrediction
    [] algorithm = "2D_Prediction"          -> TwoDimensionWithPrediction
    [] algorithm = "xint"                   -> XintAlgorithm
    [] OTHER                                -> WithoutPool

(* The load of a server that runs a VM copied without run time (0/0, see   *)
(* DataCenter!Poisoned).  It makes every comparison false.                 *)
NaN == -1

ASSUME UtilizationAssumption == Utilizations \subseteq Nat \cup {NaN}

Plus(u, load) == IF u = NaN THEN NaN ELSE u + load

Head1 == Head(qWaitingVMs)

(* At most 90%, and at most EMERGENCY_TEMPERATURE - 0.5 degrees. *)
Fits(e) ==
  /\ Plus(e.utilizationCPU, Head1) # NaN
  /\ Plus(e.utilizationCPU, Head1) <= 9
  /\ e.temperature <= 29

(* Mutant: a hot server is not counted. *)
IsFullByLoad(e) == Plus(e.utilizationCPU, Head1) > 9

IsFull(e) == Plus(e.utilizationCPU, Head1) > 9 \/ e.temperature > 29

Candidate(s) ==
  [server |-> s, temperature |-> temperature[s], utilizationCPU |-> utilization[s]]

TwoD == algorithm \in {"2D_POOL", "2D_POOL_AND_Prediction", "2D_Prediction"}

VB == algorithm = "2D_VB"

(* The schedulers that look at temperatures. *)
Warmth == TwoD \/ VB \/ algorithm \in {"low_temp_first", "best_performance"}

(* The servers that a scheduler other than the 2D ones looks at. *)
On == active \cup isPOOL

(* A server draws its idle power, and as much again under full load.       *)
PowerDraw(u) == IF u = NaN THEN NaN ELSE 10 + Min({u, 10})

(* best_performance and uniform_task leave bestI uninitialised when no     *)
(* server is on or no load is a number: such states are left out.  A        *)
(* temperature that is not looked at has one value.                        *)
Init ==
  /\ pc = "collect"
  /\ algorithm \in Algorithms
  /\ active \in SUBSET Servers
  /\ isPOOL \in SUBSET (Servers \ active)
  /\ temperature \in [Servers -> Temperatures]
  /\ utilization \in [Servers -> Utilizations \cup {0}]
  /\ \A s \in Servers \ active : utilization[s] = 0
  /\ qWaitingVMs \in BoundedSeq(Loads, MaxQueue)
  /\ serverScheduling = <<>> /\ l = 1 /\ full = 0 /\ RemovePOOL = 0
  /\ draw = [s \in Servers |-> IF s \in On THEN PowerDraw(utilization[s]) ELSE 0]
  /\ assignVM = {}
  /\ TwoD \/ VB \/ \E s \in On : utilization[s] # NaN
  /\ \A s \in IF Warmth THEN Servers \ On ELSE Servers : temperature[s] = Min(Temperatures)

(* A server whose window of samples is not full has no prediction; runRBF  *)
(* and runPolynom may return nothing, or nothing within 10..32 degrees, in *)
(* which case the temperature now stands in.                               *)
NoPrediction == 0
EmptyPrediction == -1

Predictions ==
  IF ~ pSchedulingAlgorithm.PREDICITIONSHEDULER THEN [active -> {NoPrediction}]
  ELSE [active -> Predicted \cup {NoPrediction, EmptyPrediction}]

(* 0.40 * temperature / 32 + 0.10 * HRF / 0.001 + 0.50 * utilisation *)
Ranking(e, predicted) ==
  (IF predicted[e.server] > 0 THEN predicted[e.server] ELSE e.temperature)
    + pSchedulingAlgorithm.HRF[e.server] + 4 * e.utilizationCPU

(* The ranking is no number, or was never written. *)
Unranked(e, predicted) ==
  e.utilizationCPU = NaN \/ predicted[e.server] = EmptyPrediction

(* quickSort by ranking; equal servers come in any order, and a rank that  *)
(* is not known leaves any order at all.                                   *)
Sorted(seq, predicted) ==
  \/ \E i \in DOMAIN seq : Unranked(seq[i], predicted)
  \/ \A i, j \in DOMAIN seq :
       i < j => Ranking(seq[i], predicted) <= Ranking(seq[j], predicted)

Rankings ==
  {seq \in {[i \in DOMAIN order |-> Candidate(order[i])] : order \in SetToSeqs(active)} :
     \E predicted \in Predictions : Sorted(seq, predicted)}

(* Mutant: only IsOFF is tested. *)
CollectPooledToo ==
  /\ TwoD /\ pc = "collect"
  /\ \E order \in SetToSeqs(active \cup isPOOL) :
       serverScheduling' = [i \in DOMAIN order |-> Candidate(order[i])]
  /\ pc' = "round"
  /\ UNCHANGED <<frame, isPOOL, utilization, qWaitingVMs, l, full, RemovePOOL, extra>>

Collect ==
  /\ TwoD /\ pc = "collect"
  /\ serverScheduling' \in Rankings
  /\ pc' = "round"
  /\ UNCHANGED <<frame, isPOOL, utilization, qWaitingVMs, l, full, RemovePOOL, extra>>

(* AssignOneVM of the head of the queue. *)
Give(s) ==
  /\ utilization' = [utilization EXCEPT ![s] = Plus(@, Head1)]
  /\ qWaitingVMs' = Tail(qWaitingVMs)

(* Mutant: the utilisation in the array is not updated. *)
AssignWithoutCount ==
  /\ pc = "round"
  /\ l <= Len(serverScheduling) /\ qWaitingVMs # <<>>
  /\ Fits(serverScheduling[l])
  /\ Give(serverScheduling[l].server)
  /\ l' = l + 1
  /\ UNCHANGED <<pc, frame, isPOOL, serverScheduling, full, RemovePOOL, extra>>

Assign ==
  /\ pc = "round"
  /\ l <= Len(serverScheduling) /\ qWaitingVMs # <<>>
  /\ Fits(serverScheduling[l])
  /\ Give(serverScheduling[l].server)
  /\ serverScheduling' =
       [serverScheduling EXCEPT ![l].utilizationCPU = @ + Head1]
  /\ l' = l + 1
  /\ UNCHANGED <<pc, frame, isPOOL, full, RemovePOOL, extra>>

Skip ==
  /\ pc = "round"
  /\ l <= Len(serverScheduling) /\ qWaitingVMs # <<>>
  /\ ~ Fits(serverScheduling[l])
  /\ full' = IF IsFull(serverScheduling[l]) /\ pSchedulingAlgorithm.ppollServers
             THEN full + 1 ELSE full
  /\ l' = l + 1
  /\ UNCHANGED <<pc, frame, isPOOL, utilization, qWaitingVMs, serverScheduling,
                 RemovePOOL, extra>>

RoundOver ==
  pc = "round" /\ (l > Len(serverScheduling) \/ qWaitingVMs = <<>>)

(* 2D_Prediction does not count and never asks the pool. *)
AllFull == pSchedulingAlgorithm.ppollServers /\ full = Len(serverScheduling)

NextRound ==
  /\ RoundOver
  /\ qWaitingVMs # <<>> /\ ~ AllFull
  /\ l' = 1 /\ full' = 0
  /\ UNCHANGED <<pc, frame, isPOOL, utilization, qWaitingVMs, serverScheduling,
                 RemovePOOL, extra>>

(* All are full: the coldest server of the pool gets the VM, untested, and *)
(* joins the candidates with the utilisation it had before.                *)
sortPOOLServer(s, t) == temperature[s] < temperature[t]

Coldest == {s \in isPOOL : \A t \in isPOOL : ~ sortPOOLServer(t, s)}

(* Mutant: full is not compared with k. *)
TakeFromPoolEarly ==
  /\ RoundOver
  /\ qWaitingVMs # <<>> /\ full > 0
  /\ \E s \in Coldest :
       /\ isPOOL' = isPOOL \ {s}
       /\ serverScheduling' = Append(serverScheduling, Candidate(s))
       /\ Give(s)
  /\ RemovePOOL' = RemovePOOL + 1
  /\ l' = 1 /\ full' = 0
  /\ UNCHANGED <<pc, frame, extra>>

TakeFromPool ==
  /\ RoundOver
  /\ qWaitingVMs # <<>> /\ AllFull
  /\ \E s \in Coldest :
       /\ isPOOL' = isPOOL \ {s}
       /\ serverScheduling' = Append(serverScheduling, Candidate(s))
       /\ Give(s)
  /\ RemovePOOL' = RemovePOOL + 1
  /\ l' = 1 /\ full' = 0
  /\ UNCHANGED <<pc, frame, extra>>

(* Mutant: the pool is not asked. *)
EndAssignWhenFull ==
  /\ RoundOver
  /\ qWaitingVMs = <<>> \/ AllFull
  /\ pc' = "done"
  /\ UNCHANGED <<frame, isPOOL, utilization, qWaitingVMs, serverScheduling, l,
                 full, RemovePOOL, extra>>

(* The queue is empty, or the rest of it waits: "Error! no servers in the  *)
(* pool".                                                                  *)
EndAssign ==
  /\ RoundOver
  /\ \/ qWaitingVMs = <<>>
     \/ AllFull /\ isPOOL = {}
  /\ pc' = "done"
  /\ UNCHANGED <<frame, isPOOL, utilization, qWaitingVMs, serverScheduling, l,
                 full, RemovePOOL, extra>>

-----------------------------------------------------------------------------
(* The seven schedulers without ranking.  A load that is no number compares  *)
(* as room, and as less than nothing.                                      *)
HasRoom(s) == utilization[s] = NaN \/ utilization[s] + Head1 < 10

NotFull(s) == utilization[s] = NaN \/ utilization[s] < 10

(* Look for room in the order of preference: the first server with room    *)
(* for the VM, else the first that is not full yet, else any server, off   *)
(* or not.  Among equals the order is that of chassis and servers.         *)
FirstOf(S, preference) ==
  {s \in S : \A t \in S : \/ preference[s] < preference[t]
                          \/ preference[s] = preference[t] /\ s <= t}

FirstFit(preference) ==
  LET withRoom   == {s \in On : HasRoom(s)}
      candidates == {s \in On : NotFull(s)}
  IN IF withRoom # {} THEN FirstOf(withRoom, preference)
     ELSE IF candidates # {} THEN FirstOf(candidates, preference) ELSE Servers

LowTemperatureFirst == FirstFit(temperature)
MinHR == FirstFit(HRF)
CenterRackFirst == FirstFit(CenterRank)

(* The first of the servers with the smallest ratio of load to max. *)
LeastLoaded(max) ==
  LET loaded == {s \in On : utilization[s] # NaN}
      less(s, t) == utilization[s] * max[t] < utilization[t] * max[s]
  IN {s \in loaded : \A t \in loaded : less(s, t) \/ (s <= t /\ ~ less(t, s))}

UniformTask == LeastLoaded([s \in Servers |-> 1])
BestPerformance == LeastLoaded([s \in Servers |-> MaxUtilization[temperature[s]]])

Best ==
  CASE algorithm = "low_temp_first"    -> LowTemperatureFirst
    [] algorithm = "min_hr"            -> MinHR
    [] algorithm = "center_rack_first" -> CenterRackFirst
    [] algorithm = "uniform_task"      -> UniformTask
    [] algorithm = "best_performance"  -> BestPerformance
    [] algorithm = "random"            -> Servers

(* AssignOneVM puts the VM there whatever the mode of the server. *)
Place ==
  /\ ~ TwoD /\ ~ VB /\ algorithm # "xint" /\ pc = "collect" /\ qWaitingVMs # <<>>
  /\ \E s \in Best : Give(s)
  /\ UNCHANGED <<pc, frame, isPOOL, serverScheduling, l, full, RemovePOOL, extra>>

EndPlace ==
  /\ ~ TwoD /\ ~ VB /\ pc = "collect" /\ qWaitingVMs = <<>>
  /\ pc' = "done"
  /\ UNCHANGED <<frame, isPOOL, utilization, qWaitingVMs, serverScheduling, l,
                 full, RemovePOOL, extra>>

(* xint tries the VM on one server after the other: it assigns it, takes   *)
(* the highest temperature increase that comes from what all servers draw, *)
(* and removes the VM again; but the draw of the server stays as it was    *)
(* with the VM.                                                            *)
Tried(s) ==
  [t \in Servers |-> IF t \in On /\ t <= s THEN PowerDraw(Plus(utilization[t], Head1))
                     ELSE draw[t]]

(* A draw that is no number makes every sum one, and none is the highest.  *)
GetHighestTemperatureIncrease(powerDraw) ==
  IF \E t \in Servers : powerDraw[t] = NaN THEN -100
  ELSE Max({SumFunction([j \in Servers |-> powerDraw[j] * HeatRecirculationMatrixD[i][j]]) :
              i \in Servers})

(* The first of the servers whose trial raises temperatures least.         *)
Xint ==
  LET increases == {<<GetHighestTemperatureIncrease(Tried(s)), s>> : s \in On}
      before(a, b) == a[1] < b[1] \/ (a[1] = b[1] /\ a[2] <= b[2])
  IN {a[2] : a \in {i \in increases : \A j \in increases : before(i, j)}}

PlaceXint ==
  /\ algorithm = "xint" /\ pc = "collect" /\ qWaitingVMs # <<>>
  /\ \E s \in Xint : Give(s)
  /\ draw' = Tried(Max(Servers))
  /\ UNCHANGED <<pc, frame, isPOOL, serverScheduling, l, full, RemovePOOL, assignVM>>

-----------------------------------------------------------------------------
(* 2D_VB ranks by temperature and load: HRF[i]/0,01 is a comma expression  *)
(* with the value 1.  The average temperature is that of the first and the *)
(* last in this order.                                                     *)
RankingVB(e) == 6 * e.temperature + 35 * e.utilizationCPU

SortedVB(seq) ==
  \/ \E i \in DOMAIN seq : seq[i].utilizationCPU = NaN
  \/ \A i, j \in DOMAIN seq : i < j => RankingVB(seq[i]) <= RankingVB(seq[j])

CollectVB ==
  /\ VB /\ pc = "collect"
  /\ IF qWaitingVMs = <<>>
     THEN pc' = "done" /\ UNCHANGED serverScheduling
     ELSE /\ pc' = "first"
          /\ \E order \in SetToSeqs(active) :
               serverScheduling' = [i \in DOMAIN order |-> Candidate(order[i])]
          /\ SortedVB(serverScheduling')
  /\ UNCHANGED <<frame, isPOOL, utilization, qWaitingVMs, l, full, RemovePOOL, extra>>

(* At most NUMBER_OF_CORES_IN_ONE_SERVER. *)
FitsVB(e) ==
  Plus(e.utilizationCPU, Head1) # NaN /\ Plus(e.utilizationCPU, Head1) <= 10

Cool(e) ==
  2 * e.temperature <= Head(serverScheduling).temperature + Last(serverScheduling).temperature

FirstRound ==
  {i \in DOMAIN serverScheduling :
     /\ FitsVB(serverScheduling[i]) /\ Cool(serverScheduling[i])
     /\ serverScheduling[i].server \notin assignVM}

GiveVB(i) ==
  /\ Give(serverScheduling[i].server)
  /\ serverScheduling' = [serverScheduling EXCEPT ![i].utilizationCPU = @ + Head1]

(* The first that has room, is cool and has none of this round yet; ...    *)
AssignFirst ==
  /\ pc = "first" /\ qWaitingVMs # <<>> /\ FirstRound # {}
  /\ GiveVB(Min(FirstRound))
  /\ assignVM' = assignVM \cup {serverScheduling[Min(FirstRound)].server}
  /\ UNCHANGED <<pc, frame, isPOOL, l, full, RemovePOOL, draw>>

SecondRound ==
  /\ pc = "first" /\ qWaitingVMs # <<>> /\ FirstRound = {}
  /\ pc' = "second" /\ l' = 1
  /\ UNCHANGED <<frame, isPOOL, utilization, qWaitingVMs, serverScheduling, full,
                 RemovePOOL, extra>>

(* ... then one to each that has room, hot or not; and all over again.     *)
AssignSecond ==
  /\ pc = "second" /\ qWaitingVMs # <<>> /\ l <= Len(serverScheduling)
  /\ IF FitsVB(serverScheduling[l])
     THEN GiveVB(l)
     ELSE UNCHANGED <<utilization, qWaitingVMs, serverScheduling>>
  /\ l' = l + 1
  /\ UNCHANGED <<pc, frame, isPOOL, full, RemovePOOL, extra>>

FirstRoundAgain ==
  /\ pc = "second" /\ qWaitingVMs # <<>> /\ l > Len(serverScheduling)
  /\ pc' = "first" /\ assignVM' = {}
  /\ UNCHANGED <<frame, isPOOL, utilization, qWaitingVMs, serverScheduling, l, full,
                 RemovePOOL, draw>>

EndVB ==
  /\ pc \in {"first", "second"} /\ qWaitingVMs = <<>>
  /\ pc' = "done"
  /\ UNCHANGED <<frame, isPOOL, utilization, qWaitingVMs, serverScheduling, l, full,
                 RemovePOOL, extra>>

Next ==
  \/ Collect \/ Assign \/ Skip \/ NextRound \/ TakeFromPool \/ EndAssign
  \/ Place \/ PlaceXint \/ EndPlace
  \/ CollectVB \/ AssignFirst \/ SecondRound \/ AssignSecond \/ FirstRoundAgain \/ EndVB

Spec == Init /\ [][Next]_vars

(* One thread, which runs on. *)
FairSpec == Spec /\ WF_vars(Next)

-----------------------------------------------------------------------------
Listed == {serverScheduling[i].server : i \in DOMAIN serverScheduling}

FromPool == Listed \ active

(* The array (CHASSIxSERVER) has at most one entry per server. *)
TypeOK ==
  /\ pc \in {"collect", "round", "first", "second", "done"}
  /\ active \subseteq Servers /\ isPOOL \subseteq Servers \ active
  /\ temperature \in [Servers -> Temperatures]
  /\ utilization \in [Servers -> Nat \cup {NaN}]
  /\ qWaitingVMs \in Seq(Loads)
  /\ serverScheduling \in Seq([server : Servers, temperature : Temperatures,
                               utilizationCPU : Nat \cup {NaN}])
  /\ Len(serverScheduling) = Cardinality(Listed)
  /\ l \in 1..(Len(serverScheduling) + 1)
  /\ full \in 0..Len(serverScheduling)
  /\ RemovePOOL \in Nat

(* How far the loads of the servers that are on lie apart. *)
Spread(u) == Max({u[s] - u[t] : s, t \in {r \in On : u[r] # NaN}})

LooksForRoom == algorithm \in {"low_temp_first", "min_hr", "center_rack_first"}

(* With the VM no server would draw less than xint remembers of it, which  *)
(* is the draw with the VM before.                                         *)
SameOrMore == \A t \in On : PowerDraw(Plus(utilization[t], Head1)) >= draw[t]

(* No assignment of a 2D scheduler loads an active server above 90%.  A    *)
(* server of the pool can get beyond by its first VM, which the array does *)
(* not count.  The schedulers that look for room load a server to 100% or  *)
(* beyond only when no server that is on has room for the VM, and          *)
(* uniform_task never lets the loads drift further apart than they were or *)
(* than the load of one VM.  2D_VB loads to 100%.  xint, which counts what *)
(* it has tried before, prefers the first server for the VM it starts with *)
(* and for every VM that is not smaller than the last.                     *)
LoadsLimited ==
  [][\A s \in Servers : utilization'[s] > utilization[s] =>
       /\ TwoD /\ utilization'[s] > 9 =>
            \/ s \in isPOOL
            \/ s \in FromPool /\ \E load \in Loads : utilization'[s] - load <= 9
       /\ LooksForRoom /\ utilization'[s] >= 10 => \A t \in On : ~ HasRoom(t)
       /\ algorithm = "uniform_task" =>
            Spread(utilization') <= Max({Spread(utilization), Head1})
       /\ VB => utilization'[s] <= 10
       /\ algorithm = "xint" /\ SameOrMore => s = Min(On)]_vars

(* The pool is touched only when no candidate can take the next VM.        *)
PoolOnlyWhenFull ==
  [][isPOOL' # isPOOL =>
       \A s \in Listed : utilization[s] + Head1 > 9 \/ temperature[s] > 29]_vars

(* The types, one entry per server among them, and that a VM is left       *)
(* waiting only when no candidate can take it and the pool is empty too.   *)
WaitsOnlyWhenFull ==
  /\ TypeOK
  /\ pc = "done" /\ qWaitingVMs # <<>> =>
       /\ TwoD /\ isPOOL = {}
       /\ \A s \in active : utilization[s] + Head1 > 9 \/ temperature[s] > 29

(* AssignVMs returns, unless the load of a server is no number, or the     *)
(* next VM fits no server and the scheduler is 2D_Prediction or 2D_VB:     *)
(* these then go round for ever.                                           *)
FitsNowhere ==
  /\ qWaitingVMs # <<>>
  /\ \/ /\ algorithm = "2D_Prediction" /\ pc = "round"
        /\ \A s \in active : utilization[s] + Head1 > 9 \/ temperature[s] > 29
     \/ /\ VB /\ pc \in {"first", "second"}
        /\ \A s \in active : utilization[s] + Head1 > 10

Returns ==
  (\A s \in Servers : utilization[s] # NaN) =>
    <>(pc = "done") \/ <>[]FitsNowhere

(* What the 2D schedulers do to the servers is what ServersPool allows.    *)
Pool == INSTANCE ServersPool WITH
  POWER_ON <- 1, HighPeriod <- 1, LowPeriod <- 1, PowerOFFPercent <- 80,
  PoolPercent <- 10, MaxClock <- 1, clock <- 1,
  pc <- IF pc = "done" THEN "wakeAssign" ELSE "assign",
  isOFF <- Servers \ (active \cup isPOOL \cup FromPool),
  isMigrating <- {}, isInitializing <- {},
  hasVMs <- {s \in Servers : utilization[s] # 0},
  powerOnServer <- [s \in Servers |-> 0],
  serversPowerOFF <- [s \in Servers |-> 0],
  serversPowerON <- [s \in Servers |-> 0],
  serversPOOL <- [s \in Servers |-> IF s \in isPOOL THEN 1 ELSE 0],
  wakeUP <- RemovePOOL, ServerOPT <- {}, VMsToMigrate <- {}

PoolSteps == [][TwoD \/ VB => Pool!Next]_(Pool!vars)

=============================================================================
