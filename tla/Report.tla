------------------------------- MODULE Report -------------------------------
(* What PrintResults prints when the simulation ends, of the policies, the  *)
(* energy and the use of the data center.  Averages over the intervals of   *)
(* the log are fractions <<sum, number of seconds>>: the code divides every *)
(* interval by its length when it is logged, and their sum by their number  *)
(* here.                                                                    *)
EXTENDS Accounting

(* What the policies did, in all and in every interval that ended.         *)
TotalMigrations == migrations.total

MigrationsLine(n) == migrations.sparse[n]

-----------------------------------------------------------------------------
Seconds == PERIODIC_LOG_INTERVAL * Len(sparse)

Average(field) == <<Logged(field), Seconds>>

(* Average Power Consumption, Average Supply Temperature. *)
PowerServers == Average("machines")
PowerFans == Average("fans")
PowerComputing == <<PowerServers[1] - PowerFans[1], Seconds>>
PowerCRAC == Average("crac")
SupplyTemperature == Average("supply")

(* The switches have logs of their own, of every level.                    *)
SwitchLog(t) == Total([n \in DOMAIN switches.sparse |-> switches.sparse[n][t]])

SwitchSeconds == PERIODIC_LOG_INTERVAL * Len(switches.sparse)

PowerSwitch(t) == <<SwitchLog(t), SwitchSeconds>>

PowerSwitches == <<Total([t \in SwitchLevels |-> PowerSwitch(t)[1]]), SwitchSeconds>>

(* The sum of two averages. *)
Plus(x, y) == <<x[1] * y[2] + y[1] * x[2], x[2] * y[2]>>

PowerTotal == Plus(<<PowerServers[1] + PowerCRAC[1], Seconds>>, PowerSwitches)

(* Energy: the averages times the length of an interval, but of switches   *)
(* what was added up beside the log.                                       *)
EnergyServers == Logged("machines")
EnergyFans == Logged("fans")
EnergyComputing == EnergyServers - EnergyFans
EnergyCRAC == Logged("crac")
EnergySwitches == Total(switches.total)
EnergyTotal == EnergyServers + EnergyCRAC + EnergySwitches

PUE ==
  LET sum == PowerServers[1] sum2 == PowerCRAC[1] sum9 == PowerSwitches[1]
  IN  <<sum + sum2 + sum9, sum + sum9>>

tPUE == <<PowerServers[1] + PowerCRAC[1], PowerComputing[1]>>

-----------------------------------------------------------------------------
(* One line for every interval n.  That of the whole data center goes      *)
(* through the log of the CRAC, and takes the entry n of all others.       *)
Lines == DOMAIN sparse

SwitchDraw(t, n) == switches.sparse[n][t]

SwitchesDraw(n) == Total(switches.sparse[n])

TotalDraw(n) == sparse[n].machines + sparse[n].crac + SwitchesDraw(n)

-----------------------------------------------------------------------------
(* Of the whole run: these are divided by the clock, in seconds.           *)
AverageUtilization == <<perDataCenterUtilization, Cardinality(All) * clock>>

UtilizationLog(n) == <<sparse[n].utilization, Cardinality(All) * PERIODIC_LOG_INTERVAL>>

ChassisPower(i) == <<perChassis[i].power, Cardinality(Servers) * clock>>

ChassisComputing(i) == <<perChassis[i].computing, Cardinality(Servers) * clock>>

ChassisTemperature(i) == <<perChassis[i].temperature, clock>>

ChassisOverEmergency(i) ==
  <<Total([j \in Servers |-> overEmergency[<<i, j>>]]), Cardinality(Servers)>>

ServerOverEmergency(s) == overEmergency[s]

ServerDVFSChanged(s) == dvfs[s]

(* The distributions are printed from 0 to 99 of 0 to 100; the lines that  *)
(* are not zero.                                                           *)
TemperatureLines ==
  [n \in DOMAIN distribution.temperature \ {100} |-> distribution.temperature[n]]

UtilizationLines ==
  [n \in DOMAIN distribution.utilization \ {100} |-> distribution.utilization[n]]

-----------------------------------------------------------------------------
Equal(x, y) == x[1] * y[2] = y[1] * x[2]

(* The energies are the powers times the seconds, and the sum of the       *)
(* lines; PUE is their quotient; no line is above the peak all the time;   *)
(* what is not of the fans is of the CPUs, between the idle draw and twice *)
(* that.  The supply temperature comes out below what was supplied, for    *)
(* the second that the first interval does not have.                       *)
EnergiesAgree ==
  /\ EnergyTotal = Total([n \in Lines |-> TotalDraw(n)])
  /\ Equal(PowerTotal, <<EnergyTotal, Seconds>>)
  /\ Equal(PUE, <<EnergyTotal, EnergyServers + EnergySwitches>>)
  /\ Equal(tPUE, <<EnergyServers + EnergyCRAC, EnergyComputing>>)
  /\ \A n \in Lines :
       sparse[n].machines + sparse[n].crac <= sparse[n].seconds * peakPower
  /\ EnergyComputing \in 0..2 * cpuTDP * Cardinality(All) * Logged("seconds")
  /\ SupplyTemperature[1] \in Min(Supplies) * (Seconds - 1)..Max(Supplies) * (Seconds - 1)

(* The lines of the chassis count the seconds to the end of the run, those *)
(* of the intervals stop at the last that ended.  A chassis is as warm as  *)
(* its seconds over the emergency temperature say, but for what seconds    *)
(* below zero take from it while it is off, and a performance goes down in *)
(* such a second only, and up once after it.  The full load is what the    *)
(* printed distribution lacks.  The policies' total is that of their       *)
(* lines, without what they did since the last interval ended.             *)
ChassisAgree ==
  LET load100 == Counter(distribution.utilization, 100)
  IN
  /\ TotalMigrations = Total([n \in Lines |-> MigrationsLine(n)])
  /\ Total([i \in Chassis |-> ChassisPower(i)[1]]) = EnergyServers + log.machines
  /\ Total([i \in Chassis |-> ChassisComputing(i)[1]]) = Logged("computing") + log.computing
  /\ \A i \in Chassis, j \in Servers :
       LET over == ServerOverEmergency(<<i, j>>)
       IN  /\ ChassisTemperature(i)[1]
                >= (EMERGENCY_TEMPERATURE + 1) * over + Min({0} \cup Inlets) * clock
           /\ ServerDVFSChanged(<<i, j>>) <= 2 * over
           /\ over <= ChassisOverEmergency(i)[1]
  /\ Total([n \in Lines |-> UtilizationLog(n)[1]]) + log.utilization = AverageUtilization[1]
  /\ Total([n \in DOMAIN UtilizationLines |-> n * UtilizationLines[n]]) + 100 * load100
       = AverageUtilization[1]
  /\ Total(UtilizationLines) + load100
       = Total(TemperatureLines) + Counter(distribution.temperature, 100)

(* Intervals of switches and of servers are printed side by side, and      *)
(* added.  There are as many of both, but those of the servers start one   *)
(* second late: their first has a second less than it is divided by, and   *)
(* the seconds since the last that ended are in no interval.  What is      *)
(* printed at the end is consistent with that.                             *)
IntervalsAddUp ==
  /\ pc \in {"jobs", "print"} =>
       /\ Len(sparse) = Len(switches.sparse) /\ Len(sparse) = clock \div PERIODIC_LOG_INTERVAL
       /\ log.seconds = (clock % PERIODIC_LOG_INTERVAL) + IF sparse = <<>> THEN 0 ELSE 1
       /\ \A n \in Lines :
            /\ sparse[n].seconds = PERIODIC_LOG_INTERVAL - IF n = 1 THEN 1 ELSE 0
            /\ \A t \in {"aggregation", "core"} :
                 SwitchDraw(t, n) = PERIODIC_LOG_INTERVAL * ReturnsEnergyConsumption(t)
  /\ pc = "print" /\ sparse # <<>> => EnergiesAgree /\ ChassisAgree

=============================================================================
