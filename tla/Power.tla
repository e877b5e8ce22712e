------------------------------- MODULE Power -------------------------------
(* What a server draws and how much it can do (Server.cpp): the CPU slows   *)
(* down as its inlet gets hot, draws power in proportion to its load, and   *)
(* three fans follow load and temperature with the cube of their speed.     *)
(*                                                                          *)
(* Units: loads and performance in percent of a server, temperatures in     *)
(* whole degrees, power in tenths of a watt, fan speeds in steps of 100 rpm.*)
(* Divisions round down, as floating point does not; rounding keeps order.  *)
EXTENDS Integers, Sequences, Functions

CONSTANTS
  EMERGENCY_TEMPERATURE,
  TEMPERATURE_SENSING_PERFORMANCE_CAPPING,  \* slow down when hot
  CONSTANT_FAN_POWER,
  FAN_RPM_NO_LIMIT

ASSUME PowerAssumption ==
  /\ EMERGENCY_TEMPERATURE \in 1..69
  /\ TEMPERATURE_SENSING_PERFORMANCE_CAPPING \in BOOLEAN
  /\ CONSTANT_FAN_POWER \in BOOLEAN
  /\ FAN_RPM_NO_LIMIT \in BOOLEAN

Modes == {"active", "migrating", "pool", "initializing", "off"}

(* The constants of the constructor. *)
cpuTDP == 1000
coolerMaxRPM == 30
coolerMinRPM == 5
coolerMaxPower == 150
coolerMaxDieTemperature == 70
coolerMinTemperatureGap == coolerMaxDieTemperature - EMERGENCY_TEMPERATURE

-----------------------------------------------------------------------------
(* 1/30 less CPU power for every degree above the emergency temperature,   *)
(* and the performance is its root.  More than 30 degrees above it the     *)
(* root is taken of a negative number: there is no performance to state.   *)
HasPerformance(inlet) ==
  TEMPERATURE_SENSING_PERFORMANCE_CAPPING => inlet <= EMERGENCY_TEMPERATURE + 30

Performance(inlet) ==
  LET left == 30 - (inlet - EMERGENCY_TEMPERATURE)
  IN  IF TEMPERATURE_SENSING_PERFORMANCE_CAPPING /\ left < 30
      THEN CHOOSE p \in 0..99 : 30 * p * p <= 10000 * left /\ 10000 * left < 30 * (p + 1) * (p + 1)
      ELSE 100

-----------------------------------------------------------------------------
(* What the VMs ask for; a booting server is taken to be busy at 30 %.     *)
VMRequires(mode, loads) ==
  CASE mode = "off" -> 0
    [] mode = "initializing" -> 30
    [] OTHER -> SumFunction(loads)

MaxUtilization(mode, perf) == IF mode = "off" THEN 0 ELSE perf

CurrentUtilization(mode, perf, loads) ==
  LET required == VMRequires(mode, loads)
      most == MaxUtilization(mode, perf)
  IN  IF required > most THEN most ELSE required

-----------------------------------------------------------------------------
Limited(rpm) ==
  IF rpm < coolerMinRPM THEN coolerMinRPM
  ELSE IF ~ FAN_RPM_NO_LIMIT /\ rpm > coolerMaxRPM THEN coolerMaxRPM
  ELSE rpm

(* coolerMaxPower * (rpm / coolerMaxRPM)^3 *)
FanAt(rpm) == (rpm * rpm * rpm) \div 180

(* At exactly that die temperature the speed is a division by zero; beyond *)
(* it the speed comes out negative, and the fan turns at its lowest.       *)
HasFanSpeed(inlet) == CONSTANT_FAN_POWER \/ inlet # coolerMaxDieTemperature

CPUFan(util, inlet) ==
  LET gap == coolerMaxDieTemperature - inlet
      rpm == IF gap > 0
             THEN (util * coolerMinTemperatureGap * coolerMaxRPM) \div (100 * gap)
             ELSE 0
  IN  FanAt(Limited(rpm))

CaseFans(util, inlet) ==
  LET rpm == ((util * (coolerMaxRPM - coolerMinRPM) + 100 * coolerMinRPM) * inlet)
               \div (100 * EMERGENCY_TEMPERATURE)
  IN  2 * FanAt(Limited(rpm))

FanPower(util, inlet) ==
  IF CONSTANT_FAN_POWER THEN 2 * coolerMaxPower
  ELSE CPUFan(util, inlet) + CaseFans(util, inlet)

(* A constant fan power is shown as fan power but not added to the draw.   *)
PowerDraw(util, inlet) ==
  cpuTDP + (cpuTDP * util) \div 100
    + IF CONSTANT_FAN_POWER THEN 0 ELSE FanPower(util, inlet)

=============================================================================
