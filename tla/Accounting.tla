----------------------------- MODULE Accounting -----------------------------
(* What the simulation reports, and whether it adds up (DataCenter.cpp,     *)
(* Server.cpp, Topology.cpp): the power that the servers draw second by     *)
(* second, the accumulators that are flushed into sparse logs, the totals   *)
(* that are kept beside them, and the tables printed at the end.            *)
(*                                                                          *)
(* Which server is powered on or off, migrates or gets a VM is a pick, as   *)
(* in ServersPool; so are the VMs that are copied to another server, and    *)
(* the air at the inlets, as in Cooling.  A sparse log keeps averages (sum  *)
(* / interval); here it keeps the sums.                                     *)
EXTENDS Power, FiniteSets, SequencesExt

CONSTANTS
  Chassis,
  Servers,            \* in one chassis
  PERIODIC_LOG_INTERVAL,
  REASSIGN_VMS,       \* take all VMs from their servers now and then
  ReassignPeriod,     \* 16384 seconds
  LOWEST_SUPPLY_TEMPERATURE,  \* everywhere in the first second
  Supplies,           \* temperatures that the CRAC may send
  Inlets,             \* and that the servers may sense
  Loads,              \* of a VM
  Uninitialized,      \* the counter of scheduled VMs at the start: 0 with
                      \* the schedulers that predict, never set with the others
  MaxClock,           \* bounds of the model
  MaxVMs

ASSUME AccountingAssumption ==
  /\ IsFiniteSet(Chassis) /\ IsFiniteSet(Servers)
  /\ PERIODIC_LOG_INTERVAL \in Nat \ {0}
  /\ REASSIGN_VMS \in BOOLEAN /\ ReassignPeriod \in Nat \ {0}
  /\ Supplies \subseteq Nat /\ IsFiniteSet(Supplies)
  /\ LOWEST_SUPPLY_TEMPERATURE \in Supplies
  /\ LOWEST_SUPPLY_TEMPERATURE <= EMERGENCY_TEMPERATURE
  /\ coolerMaxDieTemperature \notin Supplies
  /\ Inlets \subseteq Int /\ IsFiniteSet(Inlets) /\ Loads \subseteq Nat
  /\ Uninitialized \in Nat
  /\ MaxClock \in Nat \ {0} /\ MaxVMs \in Nat

VARIABLES
  pc,                 \* the phase of the second
  clock,
  mode, vRunningVMs,  \* of each server
  perf,               \* currentPerformanceStateOutof100
  draw, fan,          \* currentPowerDraw, currentFanPowerDraw
  overEmergency,      \* howManySecondsOverEmergencyTemp
  dvfs,               \* howManyTimesDVFSChanged
  inlet,              \* of each chassis in this second
  air,                \* that the CRAC has sent it for the next second
  waiting, totalVMs, totalScheduling,
  reassigned,         \* VMs that were taken from their servers (history)
  supply,             \* currentSupplyTemp
  log,                \* the accumulators fp...Log
  sparse,             \* the vectors v...SparseLog
  perChassis,         \* perServer...Log
  perDataCenterUtilization,
  distribution,       \* HowManySecondsInThis..., the counters that are not 0
  peakPower,
  migrations,         \* vTotalMigrationPolicy..., flushed
  switches            \* accumulators, vectors and totals of Topology

server == <<mode, vRunningVMs, perf, draw, fan, overEmergency, dvfs>>
queue == <<waiting, totalVMs, totalScheduling, reassigned>>
accounts == <<log, sparse, perChassis, perDataCenterUtilization, peakPower>>
books == <<accounts, distribution, migrations>>
atmosphere == <<inlet, air, supply>>
vars == <<pc, clock, server, queue, atmosphere, books, switches>>

All == Chassis \X Servers

Total(f) == SumFunction(f)

Add(a, b) == [field \in DOMAIN a |-> a[field] + b[field]]

Nothing == [seconds |-> 0, supply |-> 0, machines |-> 0, fans |-> 0,
            crac |-> 0, computing |-> 0, utilization |-> 0]

SwitchLevels == {"access", "aggregation", "core"}

(* A server is on, and draws nothing until its first second.               *)
NewServers ==
  /\ mode = [s \in All |-> "active"]
  /\ vRunningVMs = [s \in All |-> <<>>]
  /\ perf = [s \in All |-> 100]
  /\ draw = [s \in All |-> 0] /\ fan = [s \in All |-> 0]
  /\ overEmergency = [s \in All |-> 0] /\ dvfs = [s \in All |-> 0]

NewTopology ==
  LET nothing == [t \in SwitchLevels |-> 0]
  IN  [log |-> nothing, sparse |-> <<>>, total |-> nothing]

Init ==
  /\ pc = "jobs" /\ clock = 0
  /\ NewServers
  /\ inlet \in [Chassis -> {LOWEST_SUPPLY_TEMPERATURE}] /\ air = inlet
  /\ waiting = <<>> /\ totalVMs = 0 /\ reassigned = 0
  /\ totalScheduling = Uninitialized
  /\ supply = LOWEST_SUPPLY_TEMPERATURE
  /\ log = Nothing /\ sparse = <<>>
  /\ perChassis = [i \in Chassis |-> [power |-> 0, computing |-> 0, temperature |-> 0]]
  /\ perDataCenterUtilization = 0 /\ peakPower = 0
  /\ distribution = [temperature |-> <<>>, utilization |-> <<>>]
  /\ migrations = [log |-> 0, sparse |-> <<>>, total |-> 0]
  /\ switches = NewTopology

-----------------------------------------------------------------------------
(* JobQueue to qWaitingVMs. *)
TakeFirst(load) ==
  /\ pc = "jobs" /\ totalVMs < MaxVMs
  /\ waiting' = Append(waiting, load)
  /\ totalVMs' = totalVMs + 1
  /\ UNCHANGED <<pc, clock, server, totalScheduling, reassigned, atmosphere, books,
                 switches>>

-----------------------------------------------------------------------------
Utilization(s) == CurrentUtilization(mode[s], perf[s], vRunningVMs[s])

(* Mutant: the power is computed before the VMs that ended are taken out.  *)
RecalculateBefore(S, temperature) ==
  LET util(s) == CurrentUtilization(mode[s], perf'[s], vRunningVMs[s])
      on == {s \in S : mode'[s] # "off"}
  IN  /\ draw' = [s \in All |-> IF s \in on THEN PowerDraw(util(s), temperature[s[1]]) ELSE draw[s]]
      /\ fan' = [s \in All |-> IF s \in on THEN FanPower(util(s), temperature[s[1]]) ELSE fan[s]]

(* CalculatePowerDraw of the servers in S, as they are after this step;    *)
(* what is kept in a server that is off is not read.                       *)
RecalculateAt(S, temperature) ==
  LET util(s) == CurrentUtilization(mode'[s], perf'[s], vRunningVMs'[s])
      on == {s \in S : mode'[s] # "off"}
  IN  /\ draw' = [s \in All |-> IF s \in on THEN PowerDraw(util(s), temperature[s[1]]) ELSE draw[s]]
      /\ fan' = [s \in All |-> IF s \in on THEN FanPower(util(s), temperature[s[1]]) ELSE fan[s]]

Recalculate(S) == RecalculateAt(S, inlet)

(* Called until the server has none, the last VM it got is the first out.  *)
TakeAVMs(s) == Reverse(vRunningVMs[s])

(* What was taken from one server after the other, in some order.          *)
Joined(taken) == FoldFunction(LAMBDA vms, queued : queued \o vms, <<>>, taken)

(* Every server that is not off, also one whose VMs migrate and have been  *)
(* copied.                                                                 *)
ReassignVMs ==
  LET busy == {s \in All : mode[s] # "off" /\ vRunningVMs[s] # <<>>}
      taken == Joined([s \in busy |-> TakeAVMs(s)])
  IN  /\ waiting' = waiting \o taken
      /\ vRunningVMs' = [s \in All |-> IF s \in busy THEN <<>> ELSE vRunningVMs[s]]
      /\ reassigned' = reassigned + Len(taken)
      /\ UNCHANGED <<mode, perf, overEmergency, dvfs, totalVMs, totalScheduling>>
      /\ Recalculate(busy)

JobsTaken ==
  /\ pc = "jobs" /\ pc' = "assign"
  /\ IF REASSIGN_VMS /\ clock % ReassignPeriod = 0
     THEN ReassignVMs
     ELSE UNCHANGED <<server, queue>>
  /\ UNCHANGED <<clock, atmosphere, books, switches>>

(* A VM goes to an active server, or to one that is taken from the pool.   *)
AssignOneVM(s) ==
  /\ pc = "assign" /\ waiting # <<>>
  /\ mode[s] \in {"active", "pool"}
  /\ mode' = [mode EXCEPT ![s] = "active"]
  /\ vRunningVMs' = [vRunningVMs EXCEPT ![s] = Append(@, Head(waiting))]
  /\ waiting' = Tail(waiting)
  /\ totalScheduling' = totalScheduling + 1
  /\ UNCHANGED <<pc, clock, perf, overEmergency, dvfs, totalVMs, reassigned, atmosphere,
                 books, switches>>
  /\ Recalculate({s})

(* The scheduler and the policy of hot servers have servers booted for     *)
(* those that they took from the pool.                                     *)
ServerPowerON(s) ==
  /\ pc \in {"assign", "policies"} /\ mode[s] = "off"
  /\ mode' = [mode EXCEPT ![s] = "initializing"]
  /\ UNCHANGED <<pc, clock, vRunningVMs, perf, draw, fan, overEmergency, dvfs, queue,
                 atmosphere, books, switches>>

EndAssign ==
  /\ pc = "assign" /\ pc' = "policies"
  /\ UNCHANGED <<clock, server, queue, atmosphere, books, switches>>

-----------------------------------------------------------------------------
(* All VMs of a server, some, or none; which ones depends on what they     *)
(* have left and on their order, and is left open.                         *)
Some(vms) == UNION {[1..n -> Range(vms)] : n \in 0..Len(vms)}

(* The policies, every other second here: all VMs of a server, a half or a *)
(* quarter of them are copied to a server that computes its draw anew: an  *)
(* active one, one that began to migrate itself since it was listed, the   *)
(* source, or one from the pool.  Idle servers are turned off.  What the   *)
(* policies report is added to the accumulator.                            *)
Migrate(s, t, copies) ==
  /\ pc = "policies" /\ clock # 0 /\ clock % 2 = 0
  /\ mode[s] = "active" /\ mode[t] \in {"active", "migrating", "pool"}
  /\ copies \in Some(vRunningVMs[s])
  /\ mode' = [mode EXCEPT ![s] = "migrating", ![t] = IF @ = "pool" THEN "active" ELSE @]
  /\ vRunningVMs' = [vRunningVMs EXCEPT ![t] = @ \o copies]
  /\ migrations' = [migrations EXCEPT !.log = @ + Len(copies)]
  /\ UNCHANGED <<pc, clock, perf, overEmergency, dvfs, queue, atmosphere, accounts,
                 distribution, switches>>
  /\ Recalculate({t})

PoliceIdle(s) ==
  /\ pc = "policies" /\ clock # 0 /\ clock % 2 = 0
  /\ mode[s] = "active" /\ vRunningVMs[s] = <<>>
  /\ mode' = [mode EXCEPT ![s] = "off"]
  /\ migrations' = [migrations EXCEPT !.log = @ + 1]
  /\ UNCHANGED <<pc, clock, vRunningVMs, perf, draw, fan, overEmergency, dvfs, queue,
                 atmosphere, accounts, distribution, switches>>

EndPolicies ==
  /\ pc = "policies" /\ pc' = "servers"
  /\ UNCHANGED <<clock, server, queue, atmosphere, books, switches>>

-----------------------------------------------------------------------------
(* Server::EveryASecond of all servers; the VMs of "ended" run out.        *)
RunServers(ended) ==
  LET on == {s \in All : mode[s] # "off"}
      now == [i \in Chassis |-> Performance(inlet[i])]
  IN
  /\ pc = "servers"
  /\ ended \subseteq {s \in All : mode[s] \in {"active", "migrating"} /\ vRunningVMs[s] # <<>>}
  /\ \A s \in on : HasPerformance(inlet[s[1]]) /\ HasFanSpeed(inlet[s[1]])
  /\ pc' = "pool"
  /\ vRunningVMs' = [s \in All |-> IF s \in ended THEN Tail(vRunningVMs[s]) ELSE vRunningVMs[s]]
  /\ perf' = [s \in All |-> IF s \in on THEN now[s[1]] ELSE perf[s]]
  /\ overEmergency' = [s \in All |->
       overEmergency[s] + IF s \in on /\ inlet[s[1]] > EMERGENCY_TEMPERATURE THEN 1 ELSE 0]
  /\ dvfs' = [s \in All |-> dvfs[s] + IF perf'[s] # perf[s] THEN 1 ELSE 0]
  /\ UNCHANGED <<clock, mode, queue, atmosphere, books, switches>>
  /\ Recalculate(All)

(* Undefined performance or fan speed (Power). *)
Overheated ==
  /\ pc = "servers"
  /\ \E s \in All : mode[s] # "off" /\ ~ (HasPerformance(inlet[s[1]]) /\ HasFanSpeed(inlet[s[1]]))
  /\ pc' = "undefined"
  /\ UNCHANGED <<clock, server, queue, atmosphere, books, switches>>

InMode(m) == {s \in All : mode[s] = m}

(* ServersPOOL::EveryASecond.  Of every server that migrates the transfers *)
(* that end are taken out, and it computes its draw again: its clock is a  *)
(* second ahead by now, where the air of the next second is, but not yet   *)
(* the heat.  It is turned off when it has no VM left, moved or not.       *)
(* Power-ons end; in the first second some idle servers are pooled or      *)
(* turned off.                                                             *)
PoolEveryASecond(rest, booted, pooled, off) ==
  /\ pc = "pool"
  /\ DOMAIN rest = InMode("migrating") /\ booted \subseteq InMode("initializing")
  /\ \A s \in DOMAIN rest : rest[s] \in Some(vRunningVMs[s])
  /\ pooled \cup off \subseteq {s \in InMode("active") : clock = 1 /\ vRunningVMs[s] = <<>>}
  /\ pooled \cap off = {}
  /\ pc' = "heat" /\ clock' = clock + 1
  /\ vRunningVMs' = [s \in All |-> IF s \in DOMAIN rest THEN rest[s] ELSE vRunningVMs[s]]
  /\ mode' = [s \in All |->
       IF s \in off \/ (s \in DOMAIN rest /\ vRunningVMs'[s] = <<>>) THEN "off"
       ELSE IF s \in booted \cup pooled THEN "pool" ELSE mode[s]]
  /\ UNCHANGED <<perf, overEmergency, dvfs, queue, atmosphere, books, switches>>
  /\ RecalculateAt(DOMAIN rest, air)

-----------------------------------------------------------------------------
(* Topology::EveryASecond.  The servers share an access switch, which is   *)
(* off while all of them are; the switches above it are never turned off,  *)
(* nor are the links at their end, so they draw the same all the time.     *)
ActiveConnections == Cardinality({s \in All : mode[s] # "off"})

EACCE == [chassis |-> 100, linecard |-> 20, port |-> 1]
EAGGR == [chassis |-> 200, linecard |-> 40, port |-> 2]
ECORE == [chassis |-> 300, linecard |-> 60, port |-> 3]

(* With so many active links, down and up. *)
Energy(e, ports) == e.chassis + e.linecard + ports * e.port

AccessEnergy == IF ActiveConnections = 0 THEN 0 ELSE Energy(EACCE, ActiveConnections + 1)

AggregationEnergy == Energy(EAGGR, 1 + 1)

CoreEnergy == Energy(ECORE, 1)

ReturnsEnergyConsumption(t) ==
  CASE t = "access" -> AccessEnergy
    [] t = "aggregation" -> AggregationEnergy
    [] t = "core" -> CoreEnergy

(* Mutant: the total is taken after the reset. *)
SwitchesEveryASecondTotalAfter ==
  LET sum == [t \in SwitchLevels |-> switches.log[t] + ReturnsEnergyConsumption(t)]
  IN  switches' =
        IF clock % PERIODIC_LOG_INTERVAL = 0
        THEN [log |-> [t \in SwitchLevels |-> 0],
              sparse |-> Append(switches.sparse, sum),
              total |-> switches.total]
        ELSE [switches EXCEPT !.log = sum]

SwitchesEveryASecond ==
  LET sum == [t \in SwitchLevels |-> switches.log[t] + ReturnsEnergyConsumption(t)]
  IN  switches' =
        IF clock % PERIODIC_LOG_INTERVAL = 0
        THEN [log |-> [t \in SwitchLevels |-> 0],
              sparse |-> Append(switches.sparse, sum),
              total |-> [t \in SwitchLevels |-> switches.total[t] + sum[t]]]
        ELSE [switches EXCEPT !.log = sum]

(* The counter n of an array. *)
Counter(counters, n) == IF n \in DOMAIN counters THEN counters[n] ELSE 0

(* One more for every server whose value it is. *)
Counted(counters, value) ==
  [n \in DOMAIN counters \cup Range(value) |->
     Counter(counters, n) + Cardinality({s \in DOMAIN value : value[s] = n})]

(* How many seconds servers sensed this temperature, had this load.        *)
Record ==
  LET on == {s \in All : mode[s] # "off"}
  IN  distribution' =
        [temperature |-> Counted(distribution.temperature, [s \in on |-> inlet'[s[1]]]),
         utilization |-> Counted(distribution.utilization, [s \in on |-> Utilization(s)])]

(* RecalculateHeatDistribution and the supply that is sent now; the clocks *)
(* of the servers are at the next second.  Then the arrays of 101 counters *)
(* are indexed by what the servers sense.                                  *)
Heat ==
  /\ pc = "heat"
  /\ SwitchesEveryASecond
  /\ supply' \in Supplies
  /\ inlet' \in [Chassis -> Inlets] /\ air' \in [Chassis -> Supplies]
  /\ \/ /\ \A s \in All : mode[s] # "off" => inlet'[s[1]] \in 0..100
        /\ Record
        /\ pc' = "logs"
     \/ /\ \E s \in All : mode[s] # "off" /\ inlet'[s[1]] \notin 0..100
        /\ UNCHANGED distribution
        /\ pc' = "undefined"
  /\ UNCHANGED <<clock, server, queue, accounts, migrations>>

-----------------------------------------------------------------------------
GetPowerDraw(s) == IF mode[s] = "off" THEN 0 ELSE draw[s]

GetFanPower(s) == IF mode[s] = "off" THEN 0 ELSE fan[s]

(* The coefficient of performance, in 1/10000. *)
CalculateCurrentCRACPower(machines) ==
  (machines * 10000) \div (68 * supply * supply + 8 * supply + 4580)

(* What this second adds to the accumulators. *)
Sample ==
  LET machines == Total([s \in All |-> GetPowerDraw(s)])
  IN  [seconds |-> 1,
       supply |-> supply,
       machines |-> machines,
       fans |-> Total([s \in All |-> GetFanPower(s)]),
       crac |-> CalculateCurrentCRACPower(machines),
       computing |-> Total([s \in All |-> MaxUtilization(mode[s], perf[s])]),
       utilization |-> Total([s \in All |-> Utilization(s)])]

(* Mutant: the second that flushes is lost. *)
FlushAndForget(sample) ==
  /\ sparse' = Append(sparse, log)
  /\ log' = Nothing
  /\ migrations' = [log |-> 0,
                    sparse |-> Append(migrations.sparse, migrations.log),
                    total |-> migrations.total + migrations.log]

(* The accumulators go to the logs and start again, before this second is  *)
(* added.                                                                  *)
Flush(sample) ==
  /\ sparse' = Append(sparse, log)
  /\ log' = Add(Nothing, sample)
  /\ migrations' = [log |-> 0,
                    sparse |-> Append(migrations.sparse, migrations.log),
                    total |-> migrations.total + migrations.log]

Logs ==
  LET sample == Sample IN
  /\ pc = "logs"
  /\ pc' = IF clock = MaxClock THEN "print" ELSE "jobs"
  /\ IF clock % PERIODIC_LOG_INTERVAL = 0
     THEN Flush(sample)
     ELSE log' = Add(log, sample) /\ UNCHANGED <<sparse, migrations>>
  /\ perChassis' = [i \in Chassis |->
       [power |-> perChassis[i].power + Total([j \in Servers |-> GetPowerDraw(<<i, j>>)]),
        computing |-> perChassis[i].computing
                        + Total([j \in Servers |-> MaxUtilization(mode[<<i, j>>], perf[<<i, j>>])]),
        temperature |-> perChassis[i].temperature + inlet[i]]]
  /\ perDataCenterUtilization' = perDataCenterUtilization + sample.utilization
  /\ peakPower' = Max({peakPower, sample.machines + sample.crac})
  /\ UNCHANGED <<clock, server, queue, atmosphere, distribution, switches>>

Next ==
  \/ \E load \in Loads : TakeFirst(load)
  \/ JobsTaken
  \/ \E s \in All : AssignOneVM(s) \/ ServerPowerON(s) \/ PoliceIdle(s)
  \/ EndAssign
  \/ /\ pc = "policies"
     /\ \E s, t \in All : \E copies \in Some(vRunningVMs[s]) : Migrate(s, t, copies)
  \/ EndPolicies
  \/ pc = "servers" /\ \E ended \in SUBSET All : RunServers(ended)
  \/ Overheated
  \/ /\ pc = "pool"
     /\ \E rest \in [InMode("migrating") -> UNION {Some(vRunningVMs[s]) : s \in All}],
           booted \in SUBSET InMode("initializing"),
           pooled \in SUBSET InMode("active"), off \in SUBSET InMode("active") :
          PoolEveryASecond(rest, booted, pooled, off)
  \/ Heat
  \/ Logs

Spec == Init /\ [][Next]_vars

-----------------------------------------------------------------------------
(* The sum of a sparse log: PrintResults adds up every vector it prints.   *)
Logged(field) == Total([n \in DOMAIN sparse |-> sparse[n][field]])

-----------------------------------------------------------------------------
TypeOK ==
  /\ pc \in {"jobs", "assign", "policies", "servers", "pool", "heat", "logs", "print",
             "undefined"}
  /\ clock \in 0..MaxClock
  /\ mode \in [All -> Modes]
  /\ vRunningVMs \in [All -> Seq(Loads)]
  /\ perf \in [All -> 0..100]
  /\ draw \in [All -> Nat] /\ fan \in [All -> Nat]
  /\ overEmergency \in [All -> 0..MaxClock] /\ dvfs \in [All -> 0..MaxClock]
  /\ inlet \in [Chassis -> Inlets \cup {LOWEST_SUPPLY_TEMPERATURE}]
  /\ air \in [Chassis -> Supplies] /\ supply \in Supplies
  /\ waiting \in Seq(Loads) /\ totalVMs \in 0..MaxVMs
  /\ totalScheduling \in Nat /\ reassigned \in Nat

(* The heat of this second is that of the VMs that run when it is spread:  *)
(* a draw is computed anew by whoever changes the VMs or the mode.  Only a *)
(* server whose boot has just ended still shows the 30 % of booting.  The  *)
(* fans are those of the inlet of this second, but for a server that       *)
(* migrates: they turn as the air of the next second asks for, without any *)
(* heat that other servers add to it.                                      *)
HeatIsOfTheVMs ==
  pc = "heat" =>
    \A s \in All :
      LET sensed == IF mode[s] = "migrating" THEN air[s[1]] ELSE inlet[s[1]]
          At(m) == PowerDraw(CurrentUtilization(m, perf[s], vRunningVMs[s]), sensed)
      IN  \/ GetPowerDraw(s) = IF mode[s] = "off" THEN 0 ELSE At(mode[s])
          \/ mode[s] = "pool" /\ GetPowerDraw(s) = At("initializing")

(* The types, and: the same energy is booked twice, per interval and per   *)
(* chassis or for the whole run; the two accounts agree after every        *)
(* second, so no second is lost or counted twice when an interval ends.    *)
(* So do the average utilization and its distribution, and the VMs: every  *)
(* one that arrived, or was taken from its server, waits or was counted as *)
(* scheduled, once.                                                        *)
TwoAccountsAgree ==
  /\ TypeOK
  /\ Uninitialized + totalVMs + reassigned = totalScheduling + Len(waiting)
  /\ pc # "undefined" =>
       /\ Logged("machines") + log.machines = Total([i \in Chassis |-> perChassis[i].power])
       /\ Logged("computing") + log.computing = Total([i \in Chassis |-> perChassis[i].computing])
       /\ Logged("utilization") + log.utilization = perDataCenterUtilization
  /\ pc \notin {"logs", "undefined"} =>
       Total([load \in DOMAIN distribution.utilization |->
                load * distribution.utilization[load]]) = perDataCenterUtilization

=============================================================================
