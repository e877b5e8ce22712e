------------------------------- MODULE Options -------------------------------
(* ParsingArguments (main.cpp): the switches after the name of the trace,   *)
(* read one by one into the global settings.  An argument is the name of a  *)
(* switch, a number, or another word; a switch that needs a value takes the *)
(* next argument whatever it is, and atoi makes 0 of what is no number.     *)
EXTENDS Integers, Sequences, TLC

CONSTANTS
  Arguments,       \* what may be passed
  MaxArguments     \* bound of the model

(* The switches without a value. *)
Flags == {"-TEMPERATURE_SENSING_PERFORMANCE_CAPPING", "-REASSIGN_VMS", "-FAN_RPM_NO_LIMIT",
          "-INSTANT_COOL_AIR_TRAVEL_TIME", "-CONSTANT_FAN_POWER",
          "-INSTANT_CHANGE_CRAC_SUPPLY_AIR"}

Capping == "-TEMPERATURE_SENSING_PERFORMANCE_CAPPING"
Aggressiveness == "-TEMPERATURE_SENSING_PERFORMANCE_CAPPING_AGGRESSIVENESS"
ServersInChassis == "-NUMBER_OF_SERVERS_IN_ONE_CHASSIS"
Chassis == "-NUMBER_OF_CHASSIS"

(* The numbers that are told apart; an int of the program goes further.    *)
Largest == 1000000
AnyNumber == (-Largest)..Largest

(* The switches with a number: the default and the limits outside of which *)
(* the program refuses to run.  Three have none, but a warning.            *)

Number(name, default, limits) == [name |-> name, default |-> default, limits |-> limits]

NumberSwitches ==
  {Number(Aggressiveness, 0, 0..20),
   Number(ServersInChassis, 10, 1..60),
   Number("-NUMBER_OF_CORES_IN_ONE_SERVER", 10, 1..Largest),
   Number("-PERIODIC_LOG_INTERVAL", 86400, AnyNumber),
   Number("-SKIP_x_SECONDS", 0, AnyNumber),
   Number(Chassis, 50, 1..50),
   Number("-COOL_AIR_TRAVEL_TIME_MULTIPLIER", 1, 0..10),
   Number("-SUPPLY_TEMPERATURE_OFFSET_ALPHA", 0, AnyNumber),
   Number("-CRAC_SUPPLY_TEMP_IS_CONSTANT_AT", 0, 10..29),
   Number("-CRAC_DISCHARGE_CHANGE_RATE_0_00x", 10, 1..50),
   Number("-FINISHES_AT_DAY", 0, (-1)..Largest)}

Numbers ==
  [s \in {n.name : n \in NumberSwitches} |-> CHOOSE n \in NumberSwitches : n.name = s]

Texts == {"-SCHEDULING_ALGORITHM"}

Switches == Flags \cup DOMAIN Numbers \cup Texts

(* The settings of the prediction, which no switch changes.  LENGTH is the *)
(* greatest unsigned number, which stands for all data there are.          *)
PredictionSettings ==
     "-PREDICITIONSHEDULER" :> 1 @@ "-SIZEWINDOWNPREDICTION" :> 600
  @@ "-MONITORINGTIME" :> 120 @@ "-DIM" :> 2 @@ "-DELAY" :> 1 @@ "-CENTER" :> 10
  @@ "-STEP" :> 1 @@ "-COLUMN" :> 1 @@ "-LENGTH" :> -1 @@ "-CLENGTH" :> 5
  @@ "-MAKECAST" :> 1 @@ "-N" :> 2 @@ "-CAST" :> 1

(* The usage text offers them, and more that is unknown to the parser.     *)
Offered ==
  Switches \cup DOMAIN PredictionSettings
    \cup {"-TOTAL_OF_MEMORY_IN_ONE_SERVER", "-PREDICTION_ALGORITHM",
          "-TRANSFER_TIME_VMS", "-POWER_ON"}

(* The other arguments: numbers, and words that do or do not begin with -. *)
Dashed == Offered

ASSUME OptionsAssumption ==
  /\ MaxArguments \in Nat
  /\ \A a \in Arguments : a.text \in Dashed \cup {"number", "word"} /\ a.number \in AnyNumber

VARIABLES
  argv, optind,
  setting,        \* of the flags, the numbers and the prediction
  outcome         \* "parsing", "parsed", "run", "refused" or "crashed"

optionVars == <<argv, optind, setting, outcome>>

(* The name of the trace has been read; there may be no switch at all.     *)
OptionsInit ==
  /\ argv \in UNION {[1..n -> Arguments] : n \in 0..MaxArguments}
  /\ optind = 1
  /\ setting = [s \in Flags \cup DOMAIN Numbers \cup DOMAIN PredictionSettings |->
                  IF s \in Flags THEN 0
                  ELSE IF s \in DOMAIN Numbers THEN Numbers[s].default
                  ELSE PredictionSettings[s]]
  /\ outcome = "parsing"

-----------------------------------------------------------------------------
(* The loop goes on while an argument begins with -, as a negative number  *)
(* does.                                                                   *)
IsDashed(a) == a.text \in Dashed \/ (a.text = "number" /\ a.number < 0)

Reading == outcome = "parsing" /\ optind <= Len(argv) /\ IsDashed(argv[optind])

sw == argv[optind].text

(* argv ends with a null pointer, which atoi and string do not accept.     *)
NoValue == optind = Len(argv)

atoi(a) == IF a.text = "number" THEN a.number ELSE 0

SetFlag ==
  /\ Reading /\ sw \in Flags
  /\ setting' = [setting EXCEPT ![sw] = 1]
  /\ optind' = optind + 1
  /\ UNCHANGED <<argv, outcome>>

(* Mutant: the order of the two switches is not looked at. *)
RefusedByRange(s, value) == value \notin Numbers[s].limits

Refused(s, value) ==
  \/ value \notin Numbers[s].limits
  \/ s = Aggressiveness /\ setting[Capping] = 0

SetNumber ==
  /\ Reading /\ sw \in DOMAIN Numbers /\ ~ NoValue
  /\ LET value == atoi(argv[optind + 1])
     IN  /\ setting' = [setting EXCEPT ![sw] = value]
         /\ outcome' = IF Refused(sw, value) THEN "refused" ELSE outcome
  /\ optind' = optind + 2
  /\ UNCHANGED argv

SetText ==
  /\ Reading /\ sw \in Texts /\ ~ NoValue
  /\ optind' = optind + 2
  /\ UNCHANGED <<argv, setting, outcome>>

Crash ==
  /\ Reading /\ sw \in DOMAIN Numbers \cup Texts /\ NoValue
  /\ outcome' = "crashed"
  /\ UNCHANGED <<argv, optind, setting>>

UnknownSwitch ==
  /\ Reading /\ sw \notin Switches
  /\ outcome' = "refused"
  /\ UNCHANGED <<argv, optind, setting>>

(* What follows the first argument that does not begin with - is ignored.  *)
Parsed ==
  /\ outcome = "parsing" /\ ~ Reading
  /\ outcome' = "parsed"
  /\ UNCHANGED <<argv, optind, setting>>

(* The trace is opened only now; there may be no such file.                *)
Run ==
  /\ outcome = "parsed"
  /\ outcome' \in {"run", "refused"}
  /\ UNCHANGED <<argv, optind, setting>>

OptionsNext ==
  SetFlag \/ SetNumber \/ SetText \/ Crash \/ UnknownSwitch \/ Parsed \/ Run

OptionsSpec == OptionsInit /\ [][OptionsNext]_optionVars

-----------------------------------------------------------------------------
CHASSIxSERVER == 500

(* The simulation runs with settings that fit together whatever the order  *)
(* of the switches and however often one is repeated: every number is a    *)
(* default or within its limits, also one that an earlier valid value had  *)
(* set; no aggressiveness without capping; and with the 10 servers in a    *)
(* chassis that the usage text allows the candidates of the schedulers fit *)
(* their array.                                                            *)
SettingsFitTogether ==
  outcome = "run" =>
    /\ \A s \in DOMAIN Numbers :
         setting[s] = Numbers[s].default \/ setting[s] \in Numbers[s].limits
    /\ setting[Aggressiveness] # 0 => setting[Capping] = 1
    /\ setting[ServersInChassis] <= 10 =>
         setting[ServersInChassis] * setting[Chassis] <= CHASSIxSERVER

=============================================================================
