# SimWare: a verification development

SimWare simulates a data center second by second: jobs of a trace file become
virtual machines (VMs), a scheduler puts the VMs on servers, three optimisation
policies migrate them and power servers off, a pool keeps some servers ready, the
heat of the servers recirculates between the chassis, and an air conditioner (CRAC)
follows what the servers sense. This directory has TLA+ modules of that program,
TLC configurations that check them on small instances, and proofs that TLAPS checks
for every instance. `PROJECT.json` relates each definition to the lines it models,
each property to a hazard of the code and to a change of the code that breaks it.

Contents: 1 the system, 2 the modules, 3 what the runs check, 4 what is proved,
5 where code and documents disagree, 6 other observations, 7 what is not modelled,
8 what could follow.

## 1. The system

### Components

| component | code | state | operations |
|---|---|---|---|
| arguments | `main.cpp` | the global settings | read the switches in turn, each with or without a value |
| main loop, trace reader | `main.cpp` | file position, `isReadingFinished`, `vSWF` | read a batch, run a second, test for the end |
| Users | `Users.cpp` | lines to submit, `clock` | submit what is due and whose dependency is finished |
| JobQueue | `JobQueue.cpp` | `mapSingleJob`, `mapRunningSingleJob`, `vFinishedJobID`, VMs finished per job, tables of latencies | insert, take the first, report a VM, test a job |
| DataCenter | `DataCenter.cpp` | `clock`, `qWaitingVMs`, servers, supply temperature, accumulators and logs | `EveryASecond`, `RecalculateHeatDistribution`, control of the CRAC, `PrintResults` |
| Server | `Server.cpp` | four flags, `vRunningVMs`, `vFinishedVMs`, `powerOnServer`, two ring buffers, own `clock`, power draw, samples and predictions | power off and on, run its VMs, give copies away, end transfers, sense the inlet, compute its draw |
| VirtualMachine | `VirtualMachine.cpp` | time left, load, `TimeMoveFinish`, `isFinished` | run a second, be copied |
| ServersPOOL | `PoolServers.cpp` | three vectors of servers: off, booting, pooled; windows of arrivals, which nothing fills | hand out a server, power servers on, first power-off, end of transfers and of power-ons |
| schedulers | `SchedulingAlgorithm.cpp`, `OtherScheduling.cpp` | array of candidates during a call | `AssignVMs` of eleven classes: nine that an option selects, xint and 2D_VB |
| policies | `OptimizationAlgorithmServers.cpp` | vectors of candidates and of sources during a call | low utilisation, high temperature, idle |
| network | `Topology.cpp`, `Switches.cpp`, `Links.cpp`, `Rack.cpp` | switches, links, racks | wire once, follow the servers every second |
| sorting | `QuickSort.cpp` | none | rank candidates |
| prediction | `AlgorithmPrediction.cpp`, `RoutinesTisean.cpp` | `CENTER` | polynomial and radial-basis regression over a window |

### How they interact

There is one thread. `main` calls Users, DataCenter and Topology once per second.
`DataCenter::EveryASecond` (lines 145-372) fixes an order on which nearly everything
depends: jobs leave the JobQueue and become VMs; every so often, if asked for, all VMs
go back to the queue; the scheduler assigns; the policies run on their periods (60 and
120 s); predictions that fall due are compared; every server runs its VMs and samples
its inlet; the pool powers off (second 1), ends transfers and power-ons; heat and supply
air are computed; finished VMs are reported to the JobQueue and deleted; energy and
utilisation are added up and flushed at the end of an interval. The components share
the server objects by pointer: scheduler, policies, pool, data center and network all set
their flags, and VM objects are raw pointers that move between a queue and vectors.

### What is hard about it

No concurrency, no persistence, no messages: the difficulty is that one second is a
long sequence of steps of six components over shared objects, that much is stated
twice (flags and vectors; clocks of the data center, the pool and each server; links listed
at both ends; energy per interval and in total), that deadlines are tested with `==`, that
a policy uses what it read before its first migration, that a migration duplicates a VM for
a while, that several loops end only if something they do not check is so, that arrays
and ring buffers are indexed by computed amounts, and that a load of 0/0 spreads through
comparisons that are all false. The hazards in `PROJECT.json` list these line by line.

What makes the components correct: the pool never loses or doubles a server, and a
server's modes follow one life cycle; no VM sits where nothing runs it; no VM is lost
or held twice, deadlines are met, a job ends when all its VMs did; the outer loop loses no
job and ends; a scheduler keeps its limits and touches the pool last; a policy empties what
it set out to and stays in its vectors; any switch may fail without cutting off a
server; a server senses air that is as old as its way is long, and the control does
not run away; each second's energy is that of the VMs that ran, and is booked once; a
prediction is compared in its second, with the error it has; the regression continues a
series that obeys a law; the sort stays inside its part of the array.

## 2. The modules

| module | models | abstracts |
|---|---|---|
| `ServersPool` | power modes, vectors of the pool, the phases of a second | which server a step picks; of VMs only whether a server has any |
| `DataCenter` | the VMs: creation, running, copies, transfers, reports | which server a step picks, as `ServersPool`; power and temperature |
| `Simulation` | loop, reader, Users, JobQueue, tables of latencies | servers: `Capacity` VMs at a time; which of them run, stand still or are reported in a second |
| `Scheduling` | one call of `AssignVMs`, eleven schedulers | time |
| `Policies` | one call of each migration policy | time left of the VMs |
| `Topology` | wiring, links, access switches | speeds, delays |
| `Cooling` | ring buffers, heat, supply temperature | how much heat a server makes |
| `Power` | capping of the performance, fans and draw of a server | floating point: integers, rounded down |
| `Accounting` | one second as the logs see it: who computes a draw anew and when, `REASSIGN_VMS`, energies, utilisations, their flush | which server a step picks, the air; sparse logs keep sums |
| `Report` | what `PrintResults` derives from the logs | averages are fractions; layout |
| `Prediction` | samples, window, queue of predictions, statistics of their errors | what the regression returns |
| `Forecast` | `runPolynom`, `runRBF`, `solvele` | doubles: elements of a finite field |
| `QuickSort` | `quickSort` with its own stack of calls | rankings: ranks, and one that is no number |
| `Options` | `ParsingArguments` | wording |

`ServersPool` is the abstract specification. `DataCenter` refines it: `PoolSpec` is
`ServersPool!Spec` with `hasVMs` read as "`vRunningVMs` is not empty"; a run checks it and
`DataCenter_proofs` proves it.
`Scheduling` and `Policies` make the choices that `ServersPool` leaves open, and
`PoolSteps` says that each of their steps is one of its steps or none; `Scheduling_proofs`
proves it for the schedulers, `Simulation_proofs` for the policies.
`Simulation` puts the loop around a reduced data center. `Topology`, `Cooling` and
`Accounting` share only flags and loads of the servers with the rest, and let them change
at will. `Report` extends `Accounting`, which extends `Power`. `Prediction`, `Forecast`,
`QuickSort` and `Options` are sequential and share no state; `MCAlgorithms`
puts them side by side, one of them running at a time.

Correspondence, in outline (`map` in `PROJECT.json` has every definition):

* **ServersPool.** `pc` walks through the phases of `EveryASecond`; calls made for
  different servers in one phase are separate steps. The boolean members of `Server`
  are sets. A vector of the pool is a function that counts occurrences, since
  every use sorts it by a temperature read afresh. `RemoveServerPOOL`,
  `ServerPowerON` (one server per step, `wakeUP` counts what is owed),
  `PowerOFFDC` (its two loops), `FinishMigrations`, `FinishPowerOn` are the pool;
  `ReassignVMs` is `REASSIGN_VMS`, phase "reassign"; `AssignOneVM`, `AssignFromPool` the scheduler; `Police*`, `MigrateToServer`,
  `MigrateToPool` the policies; `RunServers` the servers.
* **DataCenter.** A VM object is a number into `vm`, a record of its job, half
  seconds left, deadline of its transfer, and `done`. `VirtualMachine` with
  `Truncated` is the constructor that copies: whole seconds only. `GetALLVMs` and
  `GetNVMs` copy to a target and leave the original running until `Moved`.
  `ReassignVMs` puts the VMs of all servers that are not off behind those that wait, originals
  in transfer included; the history variable `reassigned` names these.
  `FinishedVMsDeleted` reports, VM by VM, in the order of the servers.
* **Simulation.** A line is a record; `IsValid` has the tests that `ReadMoreLines` makes of
  a line, `Parsed` folds `Kept` over a batch. `Loop` is the head of the `while`. The tables of
  arrivals and of scheduled and finished jobs are part of the state. `running` is the VMs of all
  servers, in `vRunningVMs` or, once finished, in `vFinishedVMs`. In each second a VM runs or
  *stands*: its load is no number, or its server is pooled or boots (`Server.cpp:215`, `322`). A
  finished VM is reported or, as its server was turned off in that second (`DataCenter.cpp:349`),
  left for a later one. A scheduler that does not return (`SchedulingAlgorithm.cpp:677`) leaves `pc`
  at "assigning". `DataCenter` has what decides this; here it is a pick.
* **Scheduling.** `Collect` builds and ranks the array, `Assign` and `Skip` are the
  two branches of the round, `NextRound` resets, `TakeFromPool` extends the array.
  The other schedulers are `Place` with the server `Best` names; xint's draws are
  picked first and go stale while it places, as in the code.
* **Policies.** `from` and `to` are the loop indices `k` and `l`; `MigrateLow`, `NextTargetLow`,
  `NoTargetLow` the branches of one policy, `MigrateHigh`, `NextTargetHigh`,
  `MigrateToPool` of the other. `Estimates` is what the code may find for `calcTemp`: the supply
  temperature, or anything for a server behind the end of the array of estimates.
* **Topology.** One step wires one server or one lower switch; the indices
  are those of the nested loops. Then `TurnOFF`, `TurnON`, `EveryASecond`.
* **Cooling.** `RunServers` senses, clears the slot and counts the server's clock;
  `RecalculateHeatDistribution` writes the heat of the second; three actions
  are the three ways to set the supply temperature. The heat that reaches a server may be negative, as
  entries of the matrix are (`DataCenter.h:146-195`). `sent` and `blind` are history
  variables: nothing reads them but properties.
* **Accounting.** Every operation that changes the VMs or the mode of a server says
  whether it computes the draw anew, and with which air, which is where the code could forget it. `air`
  is the supply air of the next second, which a server senses once its clock has counted on; `inlet` is the
  air of this one with the heat. `Migrate` gives all or some VMs to an active server, to one of
  the pool, to one that migrates or to the source itself. The
  logs of the servers, of the switches and of the policies are three, flushed at
  different places of a second. The histograms are their counters that are not zero. Inlet and
  supply start at `LOWEST_SUPPLY_TEMPERATURE`.
* **Prediction.** The clock, the window and the queue of a server; the scheduler's
  `Predict`, the comparison of the data center, and the sampling of the server
  are steps in the order of a second.
* **Forecast.** One step is one phase of the routine: rescaling, basis, normal
  equations, elimination, forecast. In a field of P elements the algebra is exact, so
  "the forecast continues the law" is a statement about the routine and not about
  rounding. `SeriesOf` gives, for each law, series that follow it.
* **QuickSort.** One step is one pass of one scan loop, a swap, or a return; `calls`
  is the recursion.
* **Options.** One step reads one argument and, where the switch takes a value, the next.

### Abstractions that all runs share

* A release build without `_DEBUG`, and without `NO_DEP_CHECK`, which only an old
  Makefile defines (it also names seven source files only; the Visual Studio project
  is the build that is modelled).
* `MaxClock`, `MaxVMs`, `MaxQueue`, `MaxCandidates`, `MaxArguments`, `MaxStandstill` bound
  seconds, VM objects, waiting VMs, inputs and the seconds in which a VM begins or ceases to
  stand still. They are bounds of the model, not of
  the code. A behaviour that reaches one stops, so deadlock is not checked; that loops end
  is checked by liveness properties instead.
* Undefined behaviour is explicit: a read past the end of a vector leads to
  `"undefined"` or to any outcome the build can give.
* Shares, periods and sizes are scaled: 50/50 and 0/50 percent instead of 80/10,
  since 80 and 10 leave nothing to a pool of fewer than ten servers; periods of 2 and 4 s
  instead of 60 and 120; windows of 2 values instead of 600.
* The types are stated once per module and checked with the first invariant of the run
  (`OneOwner`, `NoJobLost`, `WaitsOnlyWhenFull`, `InRange`, `PortsKept`, `TwoAccountsAgree`);
  for all modules but `Options` they are proved, in `Forecast` phase by phase.

## 3. What the runs check

Runs that pass:

**pool** (438,184 states; 4 servers, 7 s, boot time 3). At second 1 half of the
servers are powered off and half pooled; then migrations, idle power-offs, wake-ups and
reassignments of VMs interleave in every order. `ListsMatchFlags`: flags and vectors never drift
apart, so no server is lost or handed out twice. `NoVMsOnDormantServers`: no VM where
nothing runs it. `PowerOnNeverMissed`: no booting server lets its deadline
pass. `LifeCycle`: off, booting, pooled, active, migrating, off.
`PowerOnCompletes`: booting ends in the pool. Four servers are the fewest with two in the
pool and two off, hence two concurrent boots with two deadlines; seven seconds hold two
rounds of both policies and two full boots.

**datacenter** (1,632,334 states; 2 servers, 5 s, jobs of 1 and 2 VMs, transfer 2 s, at
most 5 VM objects, all VMs reassigned at second 5, when transfers are under way). `OneOwner`: every VM
object is in one container. `MoveNeverMissed`: no transfer misses its end, but of the originals that
`REASSIGN_VMS` took from their server: these, and no others, wait in the queue or run on a server that
does not migrate, where nobody looks at the end of their transfer. `VMsAccounted`: copies and
originals together always suffice to complete the job, and until the first copy is made the books are
exact. `PoolSpec`: the refinement. Five objects are three VMs and two copies, so a copy can be
copied again. The two servers are symmetric: no definition chooses one by its name (the scheduler, the
policies and the pool pick any), and the properties of the run are invariants and a refinement
without fairness.

**loop** (772,492 states; 2 or 3 lines, batches of 2, capacity 2; skipped, invalid, late
and dependent lines; three sizes of CPU time; VMs that stand still and finished VMs that nobody
reports). `NoJobLost`: each line read is in one stage, and the tables of the results book it
once. `SubmittedInTime`: not before its time, not before its dependency. `OnlyTheseGivenUp`: the
loop gives up the jobs with a waiting VM, those with a VM that finished on a server that was turned
off in the same second and not reported since, and the rest of the file that was not read; no
others, and all of these. `Terminates`: if no line depends on another the loop ends, unless VMs
stand still again and again or 2D_Prediction does not return. A VM may begin or cease to stand in the
first two seconds (`MaxStandstill`), so it stands for a while, or for ever; sixteen seconds
(`MaxClock`) are more than any behaviour without such VMs takes.

**scheduling** (785,889 states; 3 servers in every split of active, pooled, other;
empty, at 60 % or with a load that is no number; cold or hot; up to 3 VMs of 30 % or
100 %). `WaitsOnlyWhenFull`: a VM waits only if nothing could take it. `LoadsLimited`:
the limit of each scheduler, as far as it keeps one. `PoolOnlyWhenFull`: the pool is asked
last. `PoolSteps`, and `Returns`: the call ends. The second server has much
recirculation, so rank and limit differ; 60 + 30 meets the 90 % exactly.

**policies** (54,498 states; low: 5 servers with every choice of loads; high: 3 active
servers with air of 26 to 31 degrees, 1 or 2 in the pool, one perhaps outside the array of estimates). `InRange`: no index leaves its
vector. `PassComplete`: all but one lightly loaded server are emptied, every hot one is
handled. `TargetsLimited`: no target above 90 %, none from the pool while another would do (and has an
estimate of its own).
`PoolSteps`, `Returns`. Five servers are enough for the index `to` to fall behind `from`, the
case that could run out of the vector.

**topology** (48,428 states; 1-6 chassis of 1, 2, 3 or 5 servers, switches counted for
6 x 2, racks of 2 chassis, 6 ports). `SurvivesOneSwitch`, `PortsKept` and `IsCreated` for the
sizes the usage text allows, `SwitchesFollowServers` for all. Racks that fill a group of
switches in the middle occur, as do sizes beyond the usage text, where the wiring may leave
its arrays.

**cooling** (789,818 states; travel 1 and 2 s, rings of 3 slots, 8 s, heat -2, 0 or 4).
`InletsCurrent`: a server senses the supply of exactly its travel time ago and the heat of
one second, whatever its modes were. `NoOvershoot`: the base temperature exceeds its
threshold by at most what the recirculation can cool a server by, and 5 steps per second of delay or
without a sensing server; with instant change and travel no inlet exceeds the emergency
temperature. (Without the first term -2 violates the bound.) The rings come round more than twice.

**energy** (229,713 states; 2 servers of one chassis, 2 VMs, 4 s in intervals of 2, all VMs
reassigned every 3 s, inlets of -20, 45 and 61 degrees: colder than the supply of 10, capped, and
beyond the root of a negative number; migrations of all or some VMs to any server that may be a
target). `HeatIsOfTheVMs`: the draw of which the heat is spread is that of the VMs and modes of this
second. Its fans are those of this second's inlet too, but for a server that migrates: it was computed
anew when the transfers were looked at, with the air of the next second and no heat of others. A server
that came up in this second still shows the draw of booting. `TwoAccountsAgree`: the sums per interval and those of the whole run are of the
same seconds, and so are the counts of arrived, waiting and scheduled VMs.
`IntervalsAddUp`: what `PrintResults` divides and adds is consistent, with the second that
the first interval lacks; a chassis is as warm on average as its seconds over the emergency temperature
say, but for inlets below zero. Two intervals are the fewest of which one is the first and one is not.

**algorithms** (476,812 states). *Prediction*: 1 server, 10 s, a sample every 2 s,
a window of 2, forecasts of 2 values: four windows slide and predictions of three
windows overlap. `PredictionsCompared`: each is compared in its second, once.
`WindowHasNoGap`: the window is the last samples. `StatisticsAgree`: the printed averages,
variances and hits are of the same errors. *Forecast*: 10 values in the field of 7
elements, 2 values back, degree 2, 3 centers, 3 casts. `LawIsFound`: a series that obeys a
recurrence is continued by it. `LeastSquares`: other series get the least squares fit.
*QuickSort*: up to 5 candidates of 3 ranks, or no number. `SortIsRight`: inside the part,
a permutation, sorted if all ranks are numbers. *Options*: up to 4 arguments.
`SettingsFitTogether`: whatever the order, the settings that a run starts with are within
their limits and fit each other.

Runs that show a disagreement (section 5): **migrated_twice** (about 135,000 states until the
violation), **finished_runs** (19,000) and **loop_dependency** (15,000).

### Fairness

The program is one thread that never blocks, so every fair specification has the one
condition `WF_vars(Next)`: while some step is possible the program goes on. No
single action is assumed fair; where the code may go round for ever (`2D_Prediction` with a
full data center, a dependency that is not finished, VMs that never end) the model does so too, and
`Returns` and `Terminates` name those cases.

## 4. What is proved

TLAPS checks the following for every number of servers and all values of the
constants under the assumptions of the modules.

`ServersPool_proofs` (415 obligations). `TypeCorrect`, `PoolConsistent`
(`ListsMatchFlags` and `OneMode`), `DormantServersRunNothing`, `PowerOnDeadline`,
`LifeCycleHolds`, from `ServersAssumption` and `TimeAssumption`: nothing about shares,
and only that periods are positive. None of the invariants is inductive alone. The
inductive invariant `IInv` adds

* `BeforePowerOFFDC`: until the first power-off is done nothing is pooled, booting or
  owed. `PowerOFFDCFillPool` adds its candidates to the pool without
  looking whether they are there already, so the vector would list them twice;
* `PowerOFFDCAtOne`: that power-off happens at second 1 only;
* `PassOK`: the candidates a policy recorded are still able to run VMs when their turn comes.
  The code does not test this again; it holds because within a pass a server can only
  become migrating, or leave the pool.

`OneMode` is needed too: with flags that overlapped, `TurnON` would clear one and leave
a server listed in another vector. Two lemmas, `InsertLists` and `EraseLists`, say what the two
vector operations do to "lists exactly S"; every action that changes a vector cites
them.

`DataCenter_proofs` (2225 obligations). `Refinement` (`PoolSpec`), `OneOwnerAlways` (`OneOwner`),
`MovesEndInTime` (`MoveNeverMissed`), `AccountOfEveryJob` (`VMsAccounted`), and `NoVMOnDormantServers`,
which reads the pool's `DormantServersRunNothing` for the VMs themselves; from `ServersAssumption`,
`TimeAssumption`, `ShareAssumption`, `JobAssumption` and `ReassignAssumption`, which lets the
reassignment be on or off and happen at any period. `ServersPool_proofs` is instantiated with
`hasVMs <- Occupied`, so its inductive invariant holds of every state of `DataCenter` once each
step is known to be one of the pool's or none. That each is needs facts about the VMs, and these
need the pool's: the two are proved in one induction (`SpecInv`). Besides the types,
`Once` (each object in one place) and `MoveNeverMissed` it holds

* `Alive`: what a container holds has not been deleted;
* `QueueStays`: a VM that waits in the queue has no transfer to end, if `REASSIGN_VMS` did not
  take it from a server as an original in transfer;
* `MovesAhead`: when the second is about to end, every transfer ends later, because the servers
  have been through it with `==`. The `reassigned` originals are excepted: the code loses sight
  of them, and `MoveNeverMissed` says of all the others that it does not;
* `Account`, for the books of the jobs. `VMsAccounted` asks for two states of the model,
  with copies and without; `Exact` compares the VM objects there are with the sum of what the
  launched jobs asked for: while both are equal no copy was ever made, and the books are exact.

`CopiesMade` says what `GetALLVMs` and `GetNVMs` create, new objects that nobody holds yet;
`HeadLeaves` what the assignment takes from the queue.

`Surroundings_proofs` (3008 obligations) has two parts that share no state. *Cooling*: `TypeCorrect`,
`InletsInStep` (`InletsCurrent`) and `ControlBounded` (`NoOvershoot`), from `CoolingAssumption`: travel
times shorter than the ring, which the constructor of the data center checks up to an off by one
(section 6), and the order of the thresholds. The heat that recirculates may be any integers, below
zero too, as the matrix has it. The invariant consists of

* `SameTime`: every server's clock is the data center's, although each counts alone and
  through all its modes;
* `OneSentPerSecond`: one temperature is sent each second;
* `AirOnTheWay`: not only the slot that is sensed next but all the slots up to the travel time hold
  the air sent for them. `InletsCurrent` looks at one slot and is not inductive;
* `HeatOfThisSecond`.

That a write ahead never hits air on its way is `ModDistinct`: two numbers less than N
apart differ modulo N. For the overshoot `RisesSlowly` adds that the base is what was
sent last, and that between two seconds it rises by at most five steps for each
second: whatever raises the base further was decided on air sent so shortly before that it
lay above the threshold already, and then the control cools instead. What is sensed is the air
with the heat of this second (`HeatPicked`), so it may be colder than it was sent, by as much as the
most negative heat (`Cooled`); the bound is as much higher.

*Topology*: `TopologyTypeCorrect` and `SwitchesFollow` (`SwitchesFollowServers`), for
all sizes of chassis, racks and ports and any redundancy that `SizeAssumption` allows. `Wiring` bounds
the indices of the nested loops: switches come in groups of `Redundancy`, and a group that begins in a
tier ends in it. Only the loop over a rack may pass the last switch, and then no server is left.
`Linked` says that the servers' and the switches' lists name the same links. Nothing but
the wiring establishes this, and power-off relies on it: the server turns its links off by one
list, and the switch looks at the other. `ActiveWhenOn` is kept by `TurnOFF` and `TurnON` only because
they go through all links of a server.

`NoPortsMissing` (`PortsKept`) and `RedundancyHolds` (`SurvivesOneSwitch`) have a hypothesis,
`PortsSuffice`: a full rack of the default size and its uplinks fit an access switch, and the links
from below, dealt out evenly, and the uplinks fit the switches of the next tier. The code relies on it and
checks it nowhere; `PortsOfTheCode` computes that its constants meet it (26 access, 4 aggregation
and 2 core switches). The invariant `Network` has `Places`, where the loops are in terms of
racks: as long as the arguments are within the usage text a rack never fills its group, so
the second step of the index inside the loop is never taken; `Reach`, each server and switch that was
passed has links to all of a group above it, of which one failure leaves another; and `Ports`: the
uplinks of a tier are dealt round robin (`Round`), so no switch has more than one link more than another.

`Scheduling_proofs` (1433 obligations). `WaitingMeansFull` (`WaitsOnlyWhenFull`), `PoolIsLastResort`
(`PoolOnlyWhenFull`), `LoadsHaveLimits` (`LoadsLimited`) and `SchedulingImplements` (`PoolSteps`), for every set of servers, split into
active and pooled, loads, temperatures, rankings and queue, from `SchedulingAssumption` and
`UtilizationAssumption`. The scheduler decides by its array and a counter, and the properties are
about the servers. What connects them:

* `Recorded`: the array shows the load of an active server as it is, and that of a server of the
  pool without its first VM (`Unseen`). So "full in the array" implies "full", and a VM dealt out by
  the array takes a server no further than 90 % (2D_VB: 100 %), plus that first VM;
* `Counted`: the counter never runs ahead of the round, and if it has kept step every entry so
  far was full for the VM that is still the next. Once a VM is assigned it falls behind and cannot
  catch up before the next round resets it;
* `Distinct` and `Entries`: each server that takes part has one entry, each active one does once
  the array is built, and none that is still pooled does; 2D_VB lists active servers only.

The other schedulers keep no array, and their limits follow from the choice: who looks for room
takes a server with room if there is one; the server `uniform_task` takes has the smallest load, so the
loads drift apart by the VM at most (`SpreadIs`). For xint a second invariant, `Draws`, says that
a remembered draw is no number exactly where the load is none. The trials then only add draws as
long as no VM is smaller than the one before, the highest temperature increase grows with the draws
(`HighestGrows`), and the first server wins (`XintLimited`), whatever the matrix.

`Algorithms_proofs` (8137 obligations) has four sequential parts. *Prediction*: `TypeCorrect`,
`PredictionsAreCompared` (`PredictionsCompared`) and `WindowIsARun` (`WindowHasNoGap`), for every set of
servers, period, window, horizon and change of modes. The data center looks at the front of a queue
only, once a second, and compares its second with `==`. `NoPredictionMissed` is the invariant over the
whole queue: the seconds are strictly increasing and lie between the clock and the horizon; what keeps
it is `DueBefore`: while the scheduler of a second is still to run, all that was predicted earlier is
due before this second's horizon, so that a new prediction never shares a second. The window
needs an invariant over all its neighbours: every second between two of them at which a sample was
due is in the history variable `missed`, the seconds the server was away. `LinesOfAServerAgree`
(`StatisticsAgree`), for any number of errors of any size: the counters and the sum of the errors
are those of the list (`ErrorsBooked`), and the variance that is printed rests on the sum of
(n*e - S)^2 being n*(n*Q - S^2), where S and Q are the sums of e and e^2: proved over sums of any length (`SumOfDeviations`, `VarianceOfErrors`).

*QuickSort*: `SortCorrect` (`SortIsRight`) for arrays of any length, rankings of any order and candidates
that are not ordered at all. The scans test no bound. What stops them is an invariant on the pass:
something in front of `i` is not below the pivot's rank and something behind `j` is not above it,
at first the pivot itself and later what was exchanged. For the result, the calls that are open cover the
array, and across the bounds between two of them nothing on the left ranks above anything on the
right. A ranking that is no number stops both scans, which is why the reads stay inside, and why
nothing is claimed of the order.

*Options*: `SettingsStayTogether` (`SettingsFitTogether`), for any number of arguments. A value is stored
before it is tested, so the invariant (`Kinds`, `WithinLimits`, `CappingFirst`) is claimed as long as
the parser has not refused. A flag is never taken back, which makes the one test of the order of two
switches sufficient.

*Forecast*: `FitIsLeastSquares` (`LeastSquares`) and `LawIsContinued` (`LawIsFound`), for every series,
dimension, delay, order, number of centers, scale and kernel, from `ForecastAssumption`: P is a prime that
does not divide the numbers of values the sums are divided by, and the series is longer than what one
prediction looks back at. The invariant, `ForecastInvariant`, has one part for each phase:

* `Rescaled`: the series is the given one, divided by the scale; `Based`: the basis is the one of this series;
* `Solving`: any coefficients satisfy the equations as they are now if and only if they satisfy the normal
  equations (`Wanted`), and the columns passed are zero below the diagonal (`Cleared`) with pivots that are
  not. Adding a multiple of one row to others (`RowsAdded`) and exchanging two rows with their right hand
  sides keep the solutions; with rows alone exchanged, as the mutant has it, they do not;
* `Casting`: the coefficients are the only ones that do so, and the window holds the last values of
  the series as it was continued so far.

The last pivot is not tested by the code; where it is zero the results are not finite and nothing is
claimed. From the normal equations follows what the printed errors are made of (`NothingLeft`), and
`FactorsPrinted` and `PrintedCoefficients` relate the printed coefficients to the series as it was
given. For the recurrence: its coefficients, divided by the scale to the power of each product's
order, satisfy the normal equations without any remainder, and as there is only one solution they
are what elimination finds. This takes that the basis has every product of order at most N, once: a
code is a number whose digits to the base N + 1 are the exponents (`DigitRules`),
`make_codingPOLYNOM` lists those of each order by the newest value's exponent (`CodesListed`), and
`number_parsPOLYNOM` counts the same by another recursion (`ParsIsLength`); both are recursive
functions, whose values are found by induction over a set of numbers.

`Simulation_proofs` (5220 obligations). `EveryJobInOnePlace` (`NoJobLost`), `NoJobTooEarly`
(`SubmittedInTime`) and `NothingElseGivenUp` (`OnlyTheseGivenUp`) for every trace, batch, capacity
and interval of the log that `LoopAssumption` allows, whichever VMs stand still or go unreported. `LoopInv` says, besides the types,

* `InMemory`, `InOnePlace`: what is in `vSWF` is the end of what was read, what came before it waits,
  runs or is finished, and the maps of the JobQueue have an entry for each;
* `InTime`: what was submitted was due, its dependency finished;
* `VMsInPlace`: for each job that runs, the VMs reported, those on servers, finished and not reported
  ones included, and those waiting are its number;
* `Ages`: what a VM has left and the age of its job are at least its run time, and a finished VM has
  nothing left, however late it is reported (`Started` is the second it may be ahead). This is what the
  latency of a job that ends is bounded with, hence its percentage;
* `LatencyTable`, `ArrivalTable`: the tables are sums over exactly the jobs that finished, or were
  launched, interval by interval.

`Parsed`, the reader, is a fold over the lines. `ReadRule` characterises it as a recursive
function on the sets of line numbers, and an induction over these shows that the jobs it keeps are distinct,
valid and in the order of the file.

The second part of `Simulation_proofs` is about *Policies*: `TargetsInRange` (`InRange`), `PassesComplete`
(`PassComplete`), `MovesLimited` (`TargetsLimited`) and `PoliciesImplement` (`PoolSteps`), for any servers,
VMs and readings that `SituationAssumption` allows. `PoliceInv` holds, besides the types,

* `RecordedNow`, `RecordedAtFirst`, `OnlyAdded`: the recorded utilisation of a candidate is the one it has,
  that of a server to empty the one it had when the pass began. They part as soon as a source has itself
  been a target, which is the case `TargetsLimited` excludes by name;
* `OneEntryEach`, `AllListed`: each active server has one entry, each one taken from the pool too, and the
  servers to empty are the first of them in the same order;
* `Rejected`: every candidate behind the index was too hot or too full for this source, or has no
  estimate of its own, so that a server leaves the pool only after all were asked;
* `SourcesMigrate`: which sources the loop has passed without emptying them, one at most;
* `RoomLeft`, why `PoliceLowUtilization` never reads in front of the vector, which no line of the code
  tests. A source has at most 30 %, so a target is passed by only above 60 %, after it took two sources if
  it was one of the lightly loaded ones itself (`Taken`). So the two indices meet in the upper third of
  the sources; after that each target passed by took one source at least, and there are more
  targets left than sources. With a limit of 50 % for a source this fails, as the mutant shows.

The copies are sums of loads: `SumOfConcat` and `CopiesOfSome` say what a target gains from all VMs of a source
or from some of them, `NoLoad` that a server without load has no VM.

`Accounting_proofs` (4138 obligations). `HeatFollowsTheVMs` (`HeatIsOfTheVMs`), `BothAccountsAgree`
(`TwoAccountsAgree`) and `ReportAddsUp` (`IntervalsAddUp`), for all servers, VMs, loads, inlets,
intervals and periods, from `PowerAssumption` and `AccountingAssumption`. `AccountingInv` holds, besides
the types,

* `Fresh`: once the servers have had their second, the draw of each that is on is that of what it does,
  with the inlet of this second. Before that it may be stale, and often is; after it the pool looks at
  the transfers, and computes the draw of the migrating servers again, with the air of the next second
  and whichever VMs are left. `HeatIsOfTheVMs` is what holds after that, and names the two cases in
  which a draw is not that of this second's inlet and mode;
* `EnergyBooked`: energy per interval, with the open one, and per chassis;
* `LoadsCounted`: the histogram, weighed by load, and the sum of the utilisations. In between, while the second
  is in the one and not in the other, they differ by what the servers do now;
* `VMsCounted`, and `InTime`: a server is hot or changes its frequency at most once in a second.

`ReportInv` adds what the figures that are printed need: `SecondsLogged` and `SwitchesLogged`, lengths
and seconds of both logs as quotient and remainder of the clock, which differ during the second that
ends an interval; `TotalsKept`, totals beside the logs; `EntriesSound`, bounds of each entry by its
seconds; `DrawsSound`; `HotSeconds`, a server that was hot counts a second and has added its
temperature to that of its chassis, where `HotAhead` is the second that is still to be
counted and seconds of inlets below zero count against it (`Chilled`); `ServersCounted`, both histograms count as many servers. In the first second nothing was
computed yet: that no server is hot then rests on the supply starting below the emergency
temperature, as `Constants.h:7` and `8` have it and `AccountingAssumption` states.

`SumTheorems` are the lemmas that these modules share: induction over the numbers and over the
finite subsets of a set, with a set in the place of a predicate (which is how an operator as a parameter
is avoided), and what sums over sets and sequences do when one element is added, taken or changed.

### What is only model-checked

Liveness (`PowerOnCompletes`, `Terminates`, both `Returns`, `IsCreated`, and `UsersReturns`,
which fails): outside this prover. All other properties of the passing runs are theorems.

## 5. Where code and documents disagree

Each is a run that violates one property; `findings` quotes the lines.

1. `migrated_twice`: a migrated VM is reported by the copy and by the original. The
   second report may find the job erased: `JobQueue.cpp:60` then uses `end()`, while lines
   88-90 expect an exception.
2. `finished_runs`: `GetNVMs` copies a VM in its last second into a finished VM with
   load 0/0. The NaN spreads over its server, whose VMs never end.
3. `loop_dependency`: `Users::EveryASecond` never returns for a due job whose
   dependency is not finished.

## 6. Other observations

Behaviour met while reading and modelling, which no text of the repository
contradicts or which lies outside the models.

Servers and policies:

* With four servers or fewer `PowerOFFDC` powers all off that have no VM; if many servers are
  busy at second 1, the pool gets fewer than its 10 %.
* Finished VMs on a server powered off in the same second are not reported until the
  server is used again, and if it never is the loop ends without them. `VMsAccounted` counts them as
  not lost, `OnlyTheseGivenUp` names them.
* `REASSIGN_VMS` takes the VMs from all servers that are not off and counts them as scheduled a second
  time. An original in transfer may then go to a server that does not migrate, where the end of
  its transfer is not looked at: unless it is copied again it runs to its end beside its copy.
* The draw of a migrating server is computed again in `ServersPOOL::EveryASecond`, after the clock of
  the server has counted on: with the supply of the next second and no recirculated heat.
* A policy may overload a target when the source had received copies in the same pass
  (excluded by name in `Policies!TargetsLimited`). `calcTemp` is assigned to a variable that
  shadows the sum, so the estimate is the supply temperature. The array of estimates is
  `[50][10]`: with more than 10 servers in a chassis it is written and read out of its range
  (`OptimizationAlgorithmServers.cpp:109`, `167`, `176`), and `Policies` lets the estimate be anything
  for the servers behind its end.
* With one to three VMs, a quarter of them is none: the server is marked migrating and
  nothing is copied.
* `DefineNewSizePool` and the windows of arrivals have no caller: the comment at
  `DataCenter.cpp:190` has the inserts into the windows only, and the size that would be computed is
  kept nowhere. So `runRBF` never runs either.

Schedulers:

* Those without the pool test `IsOFF` only and assign to pooled, booting and migrating
  servers; the switches for pool and migrations are constants that are true.
* `2D_Prediction` goes round for ever when nothing fits (`FitsNowhere`).
* `bestI` is not initialised in `best_performance`, `uniform_task` and `xint`; with no candidate
  `quickSort(array, 0, -1)` reads outside; a prediction that is empty leaves entries unranked;
  `totalScheduling` is initialised by the two schedulers with prediction only.
* `min_hr` and `center_rack_first` go through the chassis of an order of 50 even if there
  are fewer, and then name servers that do not exist.
* xint compares draws that it does not compute anew after a trial, so it prefers the first
  server. `DataCenter.h:24` names it, but no option creates it: an unknown name falls back to
  `best_performance`. 2D_VB multiplies by `0,01`, a comma expression whose value is 1.

The loop and its arguments:

* The loop ends with waiting VMs, with VMs that finished and were not reported, or with an unread rest
  of the file, exactly as `OnlyTheseGivenUp` says.
* VMs that never end keep the loop running for ever: those of a server whose load is no number
  (`Server.cpp:322`, finding 2), and those that a scheduler without a pool put on a server that is
  pooled or boots (`Server.cpp:215`), unless it becomes active. So does `2D_Prediction` when it does
  not return. `Terminates` excepts these cases by name.
* A second line with the number of a job that waits is dropped without a word (`JobQueue.cpp:102`).
* 31526918 s are subtracted from every submit time. Latencies index their tables without
  a bound.
* Up to 60 servers per chassis are accepted, the usage text says 10: ports of the switches
  and fixed arrays do not suffice. The aggressiveness is tested against 20 while message and
  usage say 9. The usage text offers switches the parser rejects (`Offered` and `Switches`
  in `Options`).

Heat, energy and logs:

* A travel time of exactly 1024 passes the check but falls into the slot of the present second.
* With instant travel and gradual control the control senses a slot that is written after it was
  read, the lowest temperature or air that is 1024 seconds old, and raises the supply further
  and further: `GradualBound` excludes the combination. With an air multiplier of 10 or a change
  rate of 50 its bound lies above the emergency temperature; with the defaults, and air that is not
  cooled on its way, below it.
* Performance capping takes the root of a negative number above 30 degrees over the
  emergency temperature; the load is then no number, and the histogram of utilisations is
  indexed by it. That of temperatures is indexed beyond 100 after a warning.
* 484 of the 2,500 entries of the recirculation matrix are negative (`DataCenter.h:146-195`): a chassis may be
  cooled by what others draw, and the control then senses air colder than the supply (`Cooled`).
* The first interval has one second less than it is divided by; the seconds since the last
  interval are in none; the printed supply temperature comes out low; "Total Migrations"
  lacks what the last interval did; a run shorter than an interval prints 0/0. The
  distributions print 100 of their 101 entries.
* `PowerOFFAllLinks` is never called, so aggregation and core switches draw what they drew
  at the start.

Prediction:

* The window is 600 samples, one per 120 s: no prediction is made in the first 20 hours.
* `CENTER` shrinks to `LENGTH` for good when a series is shorter. `runPolynom` frees arrays it
  did not allocate, `make_errorPOLYNOM` divides by one value too many. `runMutual` has no
  caller and would write through null pointers.
* Not compiled: `rbf.c`, `polynomp.cpp`, `variance.c`, `solvele.c`, `rescale_data.c`,
  `check_alloc.c`, `get_series.c`, `myfgets.c`, `OtherScheduling.cpp`.

## 7. What is not modelled

* `ParametersPrediction.cpp`: scanning of the options of the command-line programs that the
  prediction routines were taken from; nothing in the simulator calls it. `runMutual`
  neither, and it is not modelled.
* The three windows of arrivals and `ServersPOOL::DefineNewSizePool`, which nothing calls: there is no
  order of calls to model.
* Memory of VMs, delays and bandwidths of links, the text of a trace line, tables and wording
  of the output, and the vendored headers of boost.
* Floating point. Loads are tenths or percents, temperatures whole degrees, powers tenths of
  a watt, rounded down; a slow server in `DataCenter` runs its VMs at half speed and
  no other. In `Forecast` numbers are elements of a finite field, where a pivot is zero
  far more often and no rounding exists; scale, kernel and drift of the centers are picks.
* In `Accounting` the migrations of three policies are booked under one name.

## 8. What could follow

Rounding in `Forecast`: which pivots are too small for doubles. The choices of scale, kernel and drift would
then have to be computed instead of picked. And the memory of VMs and the delays of links (section 7), as
soon as the program uses them.
