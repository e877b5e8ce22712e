------------------------------- MODULE Cooling -------------------------------
(***************************************************************************)
(* The air: heat that recirculates between the chassis, the supply air of  *)
(* the CRAC, which takes seconds to reach a server, and the control that   *)
(* sets its temperature by what the servers sense.                         *)
(*                                                                         *)
(* Each server has two ring buffers, indexed by its own clock: the heat    *)
(* added to its inlet in a second, and the temperature of the supply air   *)
(* that arrives in a second.  A chassis is one server.  Temperatures count *)
(* in CRACDischargeAirTempChangeRate; the heat of a server in a second is  *)
(* a pick.                                                                 *)
(***************************************************************************)
EXTENDS Integers, Sequences, FiniteSets

CONSTANTS
  Servers,
  SIZE_OF_HEAT_TIMING_BUFFER,
  ModedAirTravelTimeFromCRAC, \* seconds, by server
  Heats,                      \* that may reach a server in a second: a chassis
                              \* may cool another one, too
  Controls,                   \* how the supply temperature is set
  CRAC_SUPPLY_TEMP_IS_CONSTANT_AT,
  LOWEST_SUPPLY_TEMPERATURE,
  Warm, Hot,                  \* 28 and 29.5 degrees
  EMERGENCY_TEMPERATURE,
  MaxClock                    \* bound: seconds

ASSUME CoolingAssumption ==
  /\ SIZE_OF_HEAT_TIMING_BUFFER \in Nat \ {0}
  /\ ModedAirTravelTimeFromCRAC \in [Servers -> 0..(SIZE_OF_HEAT_TIMING_BUFFER - 1)]
  /\ Heats \subseteq Int
  /\ Controls \subseteq {"constant", "instant", "gradual"}
  /\ CRAC_SUPPLY_TEMP_IS_CONSTANT_AT \in Nat
  /\ {LOWEST_SUPPLY_TEMPERATURE, Warm, Hot, EMERGENCY_TEMPERATURE} \subseteq Nat
  /\ LOWEST_SUPPLY_TEMPERATURE < Warm
  /\ Warm + 4 <= Hot /\ Hot <= EMERGENCY_TEMPERATURE
  /\ MaxClock \in Nat

VARIABLES
  pc,
  control,
  INSTANT_COOL_AIR_TRAVEL_TIME,
  clock,          \* of the data center
  serverClock,    \* of each server
  unsensed,       \* servers that are off or migrating
  supplyTempTimingBuffer,
  additionalHeatTimingBuffer,
  currentSupplyTempBase,
  currentSupplyTemp,
  sent,           \* history: the supply temperatures so far
  blind           \* history: seconds in which no server was sensed

options == <<control, INSTANT_COOL_AIR_TRAVEL_TIME>>
supply  == <<supplyTempTimingBuffer, currentSupplyTempBase, currentSupplyTemp,
             sent, blind>>
vars    == <<pc, options, clock, serverClock, unsensed,
             additionalHeatTimingBuffer, supply>>

Slots == 0..(SIZE_OF_HEAT_TIMING_BUFFER - 1)

Slot(t) == t % SIZE_OF_HEAT_TIMING_BUFFER

Travel(s) ==
  IF INSTANT_COOL_AIR_TRAVEL_TIME THEN 0 ELSE ModedAirTravelTimeFromCRAC[s]

Init ==
  /\ pc = "modes"
  /\ control \in Controls
  /\ INSTANT_COOL_AIR_TRAVEL_TIME \in BOOLEAN
  /\ clock = 0 /\ serverClock = [s \in Servers |-> 0]
  /\ unsensed = {}
  /\ supplyTempTimingBuffer =
       [s \in Servers |-> [i \in Slots |-> LOWEST_SUPPLY_TEMPERATURE]]
  /\ additionalHeatTimingBuffer = [s \in Servers |-> [i \in Slots |-> 0]]
  /\ currentSupplyTempBase = LOWEST_SUPPLY_TEMPERATURE
  /\ currentSupplyTemp = LOWEST_SUPPLY_TEMPERATURE
  /\ sent = <<>> /\ blind = 0

CurrentAddedTemperature(s) == additionalHeatTimingBuffer[s][Slot(serverClock[s])]

CurrentInletTemperature(s) ==
  supplyTempTimingBuffer[s][Slot(serverClock[s])] + CurrentAddedTemperature(s)

(* The scheduler, the policies and the pool change the modes of servers.   *)
ChangeModes ==
  /\ pc = "modes" /\ clock < MaxClock
  /\ unsensed' \in SUBSET Servers
  /\ pc' = "run"
  /\ UNCHANGED <<options, clock, serverClock, additionalHeatTimingBuffer, supply>>

(* Mutant: a server that is off returns without ClockPlusPlus. *)
RunServersOn ==
  /\ pc = "run"
  /\ additionalHeatTimingBuffer' =
       [s \in Servers |-> IF s \in unsensed THEN additionalHeatTimingBuffer[s]
          ELSE [additionalHeatTimingBuffer[s] EXCEPT ![Slot(serverClock[s])] = 0]]
  /\ serverClock' = [s \in Servers |->
       IF s \in unsensed THEN serverClock[s] ELSE serverClock[s] + 1]
  /\ clock' = clock + 1
  /\ pc' = "heat"
  /\ UNCHANGED <<options, unsensed, supply>>

(* EveryASecond of a server ends with ClockPlusPlus, whatever its mode. *)
RunServers ==
  /\ pc = "run"
  /\ additionalHeatTimingBuffer' =
       [s \in Servers |->
          [additionalHeatTimingBuffer[s] EXCEPT ![Slot(serverClock[s])] = 0]]
  /\ serverClock' = [s \in Servers |-> serverClock[s] + 1]
  /\ clock' = clock + 1
  /\ pc' = "heat"
  /\ UNCHANGED <<options, unsensed, supply>>

RecalculateHeatDistribution ==
  /\ pc = "heat"
  /\ \E heat \in [Servers -> Heats] :
       additionalHeatTimingBuffer' =
         [s \in Servers |->
            [additionalHeatTimingBuffer[s] EXCEPT ![Slot(serverClock[s])] = @ + heat[s]]]
  /\ pc' = "crac"
  /\ UNCHANGED <<options, clock, serverClock, unsensed, supply>>

(* The highest of some temperatures and 0. *)
Highest(temperatures) ==
  {h \in temperatures \cup {0} : \A t \in temperatures \cup {0} : t <= h}

(* SetSupplyTempToTimingBuffer on every server. *)
Supply(temperature) ==
  /\ currentSupplyTemp' = temperature
  /\ sent' = Append(sent, temperature)
  /\ supplyTempTimingBuffer' =
       [s \in Servers |-> [supplyTempTimingBuffer[s]
          EXCEPT ![Slot(serverClock[s] + Travel(s))] = temperature]]
  /\ pc' = "modes"
  /\ UNCHANGED <<options, clock, serverClock, unsensed, additionalHeatTimingBuffer>>

ConstantSupply ==
  /\ pc = "crac" /\ control = "constant"
  /\ Supply(CRAC_SUPPLY_TEMP_IS_CONSTANT_AT)
  /\ UNCHANGED <<currentSupplyTempBase, blind>>

InstantChange ==
  /\ pc = "crac" /\ control = "instant"
  /\ \E h \in Highest({CurrentAddedTemperature(s) : s \in Servers}) :
       Supply(EMERGENCY_TEMPERATURE - h)
  /\ UNCHANGED <<currentSupplyTempBase, blind>>

(* Mutant: no band in which the temperature rises slowly. *)
ChangeFast(inlet) ==
  CASE inlet < Hot -> 5
    [] inlet >= Hot /\ inlet < EMERGENCY_TEMPERATURE -> 0
    [] inlet >= EMERGENCY_TEMPERATURE -> -2

Change(inlet) ==
  CASE inlet < Warm -> 5
    [] inlet >= Warm /\ inlet < Hot -> 1
    [] inlet >= Hot /\ inlet < EMERGENCY_TEMPERATURE -> 0
    [] inlet >= EMERGENCY_TEMPERATURE -> -2

Sensed == Servers \ unsensed

NextBase(inlet) ==
  LET base == currentSupplyTempBase + Change(inlet)
  IN IF base < LOWEST_SUPPLY_TEMPERATURE THEN LOWEST_SUPPLY_TEMPERATURE ELSE base

GradualChange ==
  /\ pc = "crac" /\ control = "gradual"
  /\ \E h \in Highest({CurrentInletTemperature(s) : s \in Sensed}) :
       /\ currentSupplyTempBase' = NextBase(h)
       /\ Supply(NextBase(h))
  /\ blind' = IF Sensed = {} THEN blind + 1 ELSE blind

Next ==
  \/ ChangeModes \/ RunServers \/ RecalculateHeatDistribution
  \/ ConstantSupply \/ InstantChange \/ GradualChange

Spec == Init /\ [][Next]_vars

-----------------------------------------------------------------------------
TypeOK ==
  /\ pc \in {"modes", "run", "heat", "crac"}
  /\ control \in Controls
  /\ INSTANT_COOL_AIR_TRAVEL_TIME \in BOOLEAN
  /\ clock \in Nat
  /\ serverClock \in [Servers -> Nat]
  /\ unsensed \subseteq Servers
  /\ supplyTempTimingBuffer \in [Servers -> [Slots -> Int]]
  /\ additionalHeatTimingBuffer \in [Servers -> [Slots -> Int]]
  /\ currentSupplyTempBase \in Nat
  /\ currentSupplyTempBase >= LOWEST_SUPPLY_TEMPERATURE
  /\ currentSupplyTemp \in Int
  /\ sent \in Seq(Int)
  /\ blind \in Nat

(* What the CRAC sent Travel(s) seconds before second t. *)
Arriving(s, t) ==
  IF t - Travel(s) >= 1 THEN sent[t - Travel(s)] ELSE LOWEST_SUPPLY_TEMPERATURE

(* A server that was off, pooled or booting keeps the time: the air at its *)
(* inlet is what the CRAC sent exactly as long ago as the air travels.     *)
AirArrives ==
  \A s \in Servers :
    /\ serverClock[s] = clock
    /\ clock <= Len(sent) + Travel(s) =>
         supplyTempTimingBuffer[s][Slot(clock)] = Arriving(s, clock)

(* Heat is added for one second: none is left over in another slot, where  *)
(* the clock would find it once the buffer comes round.                    *)
HeatOfThisSecond ==
  \A s \in Servers, i \in Slots :
    i # Slot(clock) \/ pc = "heat" => additionalHeatTimingBuffer[s][i] = 0

(* The servers sense the supply of one moment and the heat of one second.  *)
InletsCurrent == AirArrives /\ HeatOfThisSecond

Lags == {ModedAirTravelTimeFromCRAC[s] : s \in Servers}

(* By how much the air may be colder at a server than it was sent. *)
Cooled == {c \in {-heat : heat \in Heats} \cup {0} :
             c >= 0 /\ \A heat \in Heats : -heat <= c}

(* The control senses the air late, and cooled by what recirculates.  It   *)
(* still does not let the supply temperature rise beyond Hot by more than  *)
(* that cooling, the fast rises that fit in the longest way of the air,    *)
(* and a fast rise for each second without a server to sense.              *)
GradualBound ==
  control = "gradual" /\ ~ INSTANT_COOL_AIR_TRAVEL_TIME /\ 0 \notin Lags =>
    \A lag \in Lags, cooled \in Cooled : (\A other \in Lags : other <= lag) =>
      currentSupplyTempBase <= Hot + cooled + 5 * (lag - 1) + 5 * blind

(* With instant change and instant travel no server runs with an inlet     *)
(* above EMERGENCY_TEMPERATURE.                                            *)
InstantBound ==
  /\ control = "instant" /\ INSTANT_COOL_AIR_TRAVEL_TIME
  /\ pc \in {"modes", "run"}
  => \A s \in Servers : CurrentInletTemperature(s) <= EMERGENCY_TEMPERATURE

(* What either control promises. *)
NoOvershoot == GradualBound /\ InstantBound

=============================================================================
