---------------------------- MODULE Simulation -----------------------------
(***************************************************************************)
(* The outermost loop (main.cpp): lines of the trace file are read in      *)
(* batches, Users submits them as jobs when their time has come, the       *)
(* JobQueue launches them, the data center runs their VMs, and the loop    *)
(* stops when JobQueue, DataCenter and Users say that they are finished.   *)
(*                                                                         *)
(* The data center is reduced to what the loop sees of it: it holds        *)
(* Capacity VMs at a time and keeps the others waiting.  Which of them run *)
(* in a second and which are reported depends on servers, schedulers and   *)
(* policies, and is left open here; DataCenter.tla has its servers.        *)
(***************************************************************************)
EXTENDS Integers, Sequences, FiniteSets, Functions, SequencesExt

CONSTANTS
  Traces,                \* the trace files: sequences of lines
  SWF_BUFFER_MIN_LINES,  \* lines read at a time, and least to keep in memory
  SKIP_x_SECONDS,        \* seconds left out at the beginning of the trace
  FINISHES_AT,           \* last second of submission, 0: none
  PERIODIC_LOG_INTERVAL, \* seconds of one column of the tables
  MAX_NUMBER_OF_ELEMENTS_LOG_INTERVAL,  \* columns of the tables of latencies
  Capacity,              \* VMs the servers can run at a time
  MaxStandstill,         \* last second in which a VM begins or ceases to stand
  MaxClock               \* last second of a loop that does not end

Lines == [job : Nat \ {0}, submit : Nat, dependency : Nat, numCPUs : Nat,
          runTimeSec : Nat, avgCPUTimeSec : Int]

ASSUME TraceAssumption ==
  \A trace \in Traces :
    /\ trace \in Seq(Lines)
    /\ \A i, k \in DOMAIN trace : trace[i].job = trace[k].job => i = k

ASSUME LoopAssumption ==
  /\ SWF_BUFFER_MIN_LINES \in Nat \ {0}
  /\ SKIP_x_SECONDS \in Nat /\ FINISHES_AT \in Nat
  /\ PERIODIC_LOG_INTERVAL \in Nat \ {0}
  /\ MAX_NUMBER_OF_ELEMENTS_LOG_INTERVAL \in Nat \ {0}
  /\ Capacity \in Nat /\ MaxStandstill \in Nat /\ MaxClock \in Nat

VARIABLES
  trace,                \* the file
  position,             \* lines of it that have been read
  isReadingFinished,
  vSWF,                 \* lines read that Users has not submitted
  clock,                \* of Users; DataCenter counts the same seconds
  pc,                   \* who has the turn in the loop
  mapSingleJob,         \* lines of the submitted jobs
  mapRunningSingleJob,  \* lines of the launched jobs
  finishedVMs,          \* VMs finished, by launched job
  vFinishedJobID,
  latency,              \* averageLatency...: all jobs, and per interval
  arrival,              \* of VMs: gaps, run times and sizes
  qWaitingVMs,          \* VMs without a server, a sequence
  running               \* VMs of the servers, a sequence: vRunningVMs and,
                        \* once they are finished, vFinishedVMs

file  == <<trace, position, isReadingFinished>>
queue == <<mapSingleJob, mapRunningSingleJob, finishedVMs, vFinishedJobID>>
tables == <<latency, arrival>>
vars  == <<file, vSWF, clock, pc, queue, tables, qWaitingVMs, running>>

SmallerOf(m, n) == IF m <= n THEN m ELSE n

-----------------------------------------------------------------------------
(* ReadMoreLines keeps the valid lines of the simulated period and counts  *)
(* submit times from its beginning.                                        *)
IsValid(line) ==
  /\ line.runTimeSec > 0 /\ line.numCPUs > 0
  /\ line.avgCPUTimeSec >= -1
  /\ line.submit >= SKIP_x_SECONDS
  /\ FINISHES_AT > 0 => line.submit - SKIP_x_SECONDS <= FINISHES_AT

(* The CPU time is all of the run time when it is not known, and between 1  *)
(* and the run time.                                                       *)
CPUTime(line) ==
  IF line.avgCPUTimeSec = 0 THEN 1
  ELSE IF line.avgCPUTimeSec \in 1..line.runTimeSec THEN line.avgCPUTimeSec
  ELSE line.runTimeSec

Corrected(line) ==
  [line EXCEPT !.submit = @ - SKIP_x_SECONDS, !.avgCPUTimeSec = CPUTime(line)]

Kept(read, line) == IF IsValid(line) THEN Append(read, Corrected(line)) ELSE read

Parsed(lines) == FoldLeft(Kept, <<>>, lines)

(* It stops after SWF_BUFFER_MIN_LINES lines or at the end of the file,    *)
(* which it notices only when it finds no further line.                    *)
ReadMoreLines(f, from) ==
  LET to == SmallerOf(from + SWF_BUFFER_MIN_LINES, Len(f)) IN
  [lines    |-> Parsed(SubSeq(f, from + 1, to)),
   position |-> to,
   atEnd    |-> to - from < SWF_BUFFER_MIN_LINES]

(* The columns of the tables of latencies. *)
Intervals == 0..(MAX_NUMBER_OF_ELEMENTS_LOG_INTERVAL - 1)

NoSample == [samples |-> 0, sum |-> 0, percent |-> 0]

Init ==
  /\ trace \in Traces
  /\ LET batch == ReadMoreLines(trace, 0) IN
       /\ vSWF = batch.lines
       /\ position = batch.position
       /\ isReadingFinished = batch.atEnd
  /\ clock = 0
  /\ pc = "loop"
  /\ mapSingleJob = {} /\ mapRunningSingleJob = {}
  /\ finishedVMs = <<>> /\ vFinishedJobID = {}
  /\ latency = [samples |-> 0, sum |-> 0, interval |-> [i \in Intervals |-> NoSample]]
  /\ arrival = [clockPrevius |-> 0, avgArrivalTime |-> 0, gaps |-> <<>>,
                avgRunTime |-> 0, runTimes |-> <<>>, Small |-> 0, Medium |-> 0, Big |-> 0]
  /\ qWaitingVMs = <<>> /\ running = <<>>

(* The while condition.  DataCenter::IsFinished asks the servers only, and *)
(* these look at their vRunningVMs only.                                   *)

(* Mutant: the servers are not asked. *)
IsFinishedWithVMs == mapSingleJob = {} /\ vSWF = <<>>

JobQueueIsFinished == mapSingleJob = {}

DataCenterIsFinished == \A i \in DOMAIN running : running[i].state = "finished"

UsersIsFinished == vSWF = <<>>

IsFinished == JobQueueIsFinished /\ DataCenterIsFinished /\ UsersIsFinished

Loop ==
  /\ pc = "loop"
  /\ pc' = IF IsFinished THEN "ended" ELSE "users"
  /\ UNCHANGED <<file, vSWF, clock, queue, tables, qWaitingVMs, running>>

(* Mutant: the job has been launched. *)
IsTheSingleJobLaunched(job) ==
  job = 0 \/ \E line \in mapRunningSingleJob : line.job = job

IsTheSingleJobFinished(job) == job = 0 \/ job \in vFinishedJobID

(* Users::EveryASecond.  While the first line is due but depends on a job  *)
(* that is not finished, the code goes round its loop with nothing done:   *)
(* there is no step that continues from there.                             *)
InsertASingleJob ==
  /\ pc = "users"
  /\ vSWF # <<>>
  /\ Head(vSWF).submit <= clock
  /\ IsTheSingleJobFinished(Head(vSWF).dependency)
  /\ mapSingleJob' = mapSingleJob \cup {Head(vSWF)}
  /\ vSWF' = Tail(vSWF)
  /\ UNCHANGED <<file, clock, pc, mapRunningSingleJob, finishedVMs,
                 vFinishedJobID, tables, qWaitingVMs, running>>

(* Mutant: the clock of Users stands still. *)
UsersDoneWithoutClock ==
  /\ pc = "users"
  /\ vSWF # <<>> => Head(vSWF).submit > clock
  /\ pc' = "datacenter"
  /\ UNCHANGED <<file, vSWF, clock, queue, tables, qWaitingVMs, running>>

UsersDone ==
  /\ pc = "users"
  /\ vSWF # <<>> => Head(vSWF).submit > clock
  /\ clock < MaxClock
  /\ clock' = clock + 1
  /\ pc' = "datacenter"
  /\ UNCHANGED <<file, vSWF, queue, tables, qWaitingVMs, running>>

-----------------------------------------------------------------------------
(* DataCenter::EveryASecond, four steps of it: a second with jobs is an    *)
(* arrival (this clock is still a second behind that of Users), ...        *)
Arrival ==
  /\ pc = "datacenter"
  /\ pc' = "queue"
  /\ arrival' =
       IF mapSingleJob = {} THEN arrival
       ELSE LET gap == (clock - 1) - arrival.clockPrevius
            IN  [arrival EXCEPT !.clockPrevius = clock - 1,
                                !.avgArrivalTime = @ + gap,
                                !.gaps = Append(@, gap)]
  /\ UNCHANGED <<file, vSWF, clock, queue, latency, qWaitingVMs, running>>

(* ... the JobQueue is emptied, smallest job number first, ...             *)
VMsOf(line) ==
  [i \in 1..line.numCPUs |->
     [job |-> line.job, left |-> line.runTimeSec, state |-> "runs"]]

(* A VM is small below 35 % of a core, big from 65 % on. *)
Size(line) ==
  CASE 100 * line.avgCPUTimeSec < 35 * line.runTimeSec -> "Small"
    [] 100 * line.avgCPUTimeSec >= 65 * line.runTimeSec -> "Big"
    [] OTHER -> "Medium"

Arrived(line) ==
  [arrival EXCEPT !.avgRunTime = @ + line.numCPUs * line.runTimeSec,
                  !.runTimes = @ \o [i \in 1..line.numCPUs |-> line.runTimeSec],
                  ![Size(line)] = @ + line.numCPUs]

TakeFirst ==
  /\ pc = "queue"
  /\ mapSingleJob # {}
  /\ LET first == CHOOSE l \in mapSingleJob :
                    \A other \in mapSingleJob : l.job <= other.job IN
       /\ mapSingleJob' = mapSingleJob \ {first}
       /\ mapRunningSingleJob' = mapRunningSingleJob \cup {first}
       /\ finishedVMs' = [j \in DOMAIN finishedVMs \cup {first.job} |->
                            IF j = first.job THEN 0 ELSE finishedVMs[j]]
       /\ qWaitingVMs' = qWaitingVMs \o VMsOf(first)
       /\ arrival' = Arrived(first)
  /\ UNCHANGED <<file, vSWF, clock, pc, vFinishedJobID, latency, running>>

(* ... the waiting VMs are assigned, as many as there is room for, ...     *)
Assigned ==
  LET busy == {i \in DOMAIN running : running[i].state # "finished"}
      room == Capacity - Cardinality(busy)
  IN  IF room > 0 THEN SmallerOf(Len(qWaitingVMs), room) ELSE 0

AssignVMs ==
  /\ pc = "queue"
  /\ mapSingleJob = {}
  /\ running' = running \o SubSeq(qWaitingVMs, 1, Assigned)
  /\ qWaitingVMs' = SubSeq(qWaitingVMs, Assigned + 1, Len(qWaitingVMs))
  /\ pc' = "run"
  /\ UNCHANGED <<file, vSWF, clock, queue, tables>>

(* (2D_Prediction tries the same servers again and again as long as a VM   *)
(* waits: there is no step that continues from there, either,)             *)
AssignVMsForever ==
  /\ pc = "queue"
  /\ mapSingleJob = {}
  /\ Assigned < Len(qWaitingVMs)
  /\ pc' = "assigning"
  /\ UNCHANGED <<file, vSWF, clock, queue, tables, qWaitingVMs, running>>

(* ... the servers run their VMs for a second, and those that had less     *)
(* left are finished, ...  On a server that is pooled or booting, or whose *)
(* load is no number, a VM stands still, for ever or until the server is   *)
(* back; on one with too much load it loses part of each second.           *)
Ran(v) ==
  IF v.left < 1 THEN [v EXCEPT !.left = 0, !.state = "finished"]
  ELSE [v EXCEPT !.left = @ - 1, !.state = "runs"]

Stood(v) == [v EXCEPT !.state = "stands"]

RunVMs ==
  /\ pc = "run"
  /\ \E still \in SUBSET DOMAIN running :
       /\ \A i \in still : running[i].state # "finished"
       /\ clock > MaxStandstill =>
            still = {i \in DOMAIN running : running[i].state = "stands"}
       /\ running' = [i \in DOMAIN running |->
                        IF running[i].state = "finished" THEN running[i]
                        ELSE IF i \in still THEN Stood(running[i]) ELSE Ran(running[i])]
  /\ pc' = "finish"
  /\ UNCHANGED <<file, vSWF, clock, queue, tables, qWaitingVMs>>

(* ... and the finished ones are reported one by one.                      *)
Booked(line) ==
  LET elapsed == clock - line.submit
      index == line.submit \div PERIODIC_LOG_INTERVAL
  IN  [samples  |-> latency.samples + 1,
       sum      |-> latency.sum + elapsed,
       interval |->
         IF index \in Intervals
         THEN [latency.interval EXCEPT ![index] =
                 [samples |-> @.samples + 1,
                  sum     |-> @.sum + elapsed,
                  percent |-> @.percent + (100 * elapsed) \div line.runTimeSec]]
         ELSE latency.interval]

OneVMFinished ==
  /\ pc = "finish"
  /\ \E i \in DOMAIN running :
       /\ running[i].state = "finished"
       /\ running' = RemoveAt(running, i)
       /\ \E line \in mapRunningSingleJob :
            /\ line.job = running[i].job
            /\ finishedVMs' = [finishedVMs EXCEPT ![line.job] = @ + 1]
            /\ IF finishedVMs[line.job] + 1 = line.numCPUs
                 THEN /\ mapRunningSingleJob' = mapRunningSingleJob \ {line}
                      /\ vFinishedJobID' = vFinishedJobID \cup {line.job}
                      /\ latency' = Booked(line)
                 ELSE UNCHANGED <<mapRunningSingleJob, vFinishedJobID, latency>>
  /\ UNCHANGED <<file, vSWF, clock, pc, mapSingleJob, arrival, qWaitingVMs>>

(* Servers that were turned off in this second, or whose turn has not come *)
(* again since, are passed over: their finished VMs stay where they are.   *)
SecondDone ==
  /\ pc = "finish"
  /\ pc' = "read"
  /\ UNCHANGED <<file, vSWF, clock, queue, tables, qWaitingVMs, running>>

(* Mutant: the batch replaces what is in memory. *)
ReadTraceOver ==
  /\ pc = "read"
  /\ IF ~ isReadingFinished /\ Len(vSWF) < SWF_BUFFER_MIN_LINES
       THEN LET batch == ReadMoreLines(trace, position) IN
              /\ vSWF' = batch.lines
              /\ position' = batch.position
              /\ isReadingFinished' = batch.atEnd
       ELSE UNCHANGED <<vSWF, position, isReadingFinished>>
  /\ pc' = "loop"
  /\ UNCHANGED <<trace, clock, queue, tables, qWaitingVMs, running>>

(* The end of the loop body: one more batch, if memory holds few lines.    *)
ReadTrace ==
  /\ pc = "read"
  /\ IF ~ isReadingFinished /\ Len(vSWF) < SWF_BUFFER_MIN_LINES
       THEN LET batch == ReadMoreLines(trace, position) IN
              /\ vSWF' = vSWF \o batch.lines
              /\ position' = batch.position
              /\ isReadingFinished' = batch.atEnd
       ELSE UNCHANGED <<vSWF, position, isReadingFinished>>
  /\ pc' = "loop"
  /\ UNCHANGED <<trace, clock, queue, tables, qWaitingVMs, running>>

-----------------------------------------------------------------------------
Next ==
  \/ Loop \/ InsertASingleJob \/ UsersDone
  \/ Arrival \/ TakeFirst \/ AssignVMs \/ AssignVMsForever
  \/ RunVMs \/ OneVMFinished \/ SecondDone
  \/ ReadTrace

Spec == Init /\ [][Next]_vars

(* One thread, which takes a step whenever it has one. *)
FairSpec == Spec /\ WF_vars(Next)

-----------------------------------------------------------------------------
JobNumbers(S) == {line.job : line \in S}

Read == Parsed(SubSeq(trace, 1, position))

VMRecord == [job : Nat, left : Nat, state : {"runs", "stands", "finished"}]

TypeOK ==
  /\ trace \in Seq(Lines)
  /\ position \in 0..Len(trace)
  /\ isReadingFinished \in BOOLEAN
  /\ vSWF \in Seq(Lines)
  /\ clock \in Nat
  /\ pc \in {"loop", "users", "datacenter", "queue", "assigning", "run",
             "finish", "read", "ended"}
  /\ mapSingleJob \subseteq Lines /\ mapRunningSingleJob \subseteq Lines
  /\ \A j \in DOMAIN finishedVMs : finishedVMs[j] \in Nat
  /\ vFinishedJobID \subseteq Nat
  /\ qWaitingVMs \in Seq(VMRecord)
  /\ running \in Seq(VMRecord)

-----------------------------------------------------------------------------
(* What the tables at the end show: the jobs that were submitted in each   *)
(* interval up to the last one.  The table is written in bounds and read   *)
(* without any.                                                            *)
Columns == 0..(clock \div PERIODIC_LOG_INTERVAL)

JobsOfColumn(i) == latency.interval[i].samples

LatencyOfColumn(i) == latency.interval[i].sum

PercentOfColumn(i) == latency.interval[i].percent

(* The statistics of the trace, as fractions <<numerator, denominator>>:    *)
(* 0/0 is what the code prints when no VM arrived, or for the variance of  *)
(* one value.  The length less one of no values is the greatest unsigned   *)
(* number, and the variance then 0.                                        *)
Average(total, values) == <<total, Len(values)>>

Variance(total, values) ==
  LET n == Len(values)
      deviations == [i \in 1..n |-> (n * values[i] - total) * (n * values[i] - total)]
  IN  IF n = 0 THEN <<0, 1>> ELSE <<SumFunction(deviations), n * n * (n - 1)>>

AverageArrivalTime == Average(arrival.avgArrivalTime, arrival.gaps)
VarianceArrivalTime == Variance(arrival.avgArrivalTime, arrival.gaps)
AverageRunTime == Average(arrival.avgRunTime, arrival.runTimes)
VarianceRunTime == Variance(arrival.avgRunTime, arrival.runTimes)

(* An average lies between the least and the greatest value, and the       *)
(* variance is the mean square less the squared mean, times n / (n - 1).   *)
Describes(average, var, values) ==
  LET n == Len(values)
      squares == [i \in 1..n |-> values[i] * values[i]]
  IN  values # <<>> =>
        /\ average[2] = n
        /\ \E i, k \in 1..n : n * values[i] <= average[1] /\ average[1] <= n * values[k]
        /\ var = <<n * n * SumFunction(squares) - n * average[1] * average[1], n * n * (n - 1)>>

(* Every job that is finished was booked once, in the interval in which it *)
(* was submitted, with a latency of more than its run time; the columns    *)
(* that are printed have all of them while the table has room for the      *)
(* intervals.  Every VM of a launched job is in the statistics of arrivals *)
(* once, and the gaps between arrivals reach from the start to the last;   *)
(* their averages and variances describe them.                             *)
TablesMatchJobs ==
  LET finished == {line \in ToSet(Read) : line.job \in vFinishedJobID}
      launched == finished \cup mapRunningSingleJob
      in(i) == {line \in finished : line.submit \div PERIODIC_LOG_INTERVAL = i}
      vms == [line \in launched |-> line.numCPUs]
      work == [line \in launched |-> line.numCPUs * line.runTimeSec]
      least == [line \in finished |-> line.runTimeSec + 1]
      samples == [i \in Intervals |-> JobsOfColumn(i)]
      sizes == <<arrival.Small, arrival.Medium, arrival.Big>>
  IN  /\ latency.samples = Cardinality(finished)
      /\ \A i \in Intervals :
           /\ JobsOfColumn(i) = Cardinality(in(i))
           /\ LatencyOfColumn(i) >= SumFunctionOnSet(least, in(i))
           /\ PercentOfColumn(i) >= 100 * JobsOfColumn(i)
      /\ Columns \subseteq Intervals =>
           SumFunctionOnSet(samples, Columns) = latency.samples
      /\ Len(arrival.runTimes) = SumFunction(vms)
      /\ sizes[1] + sizes[2] + sizes[3] = Len(arrival.runTimes)
      /\ arrival.avgRunTime = SumFunction(work)
      /\ arrival.avgArrivalTime = arrival.clockPrevius
      /\ arrival.clockPrevius = SumFunction(arrival.gaps)
      /\ Describes(AverageArrivalTime, VarianceArrivalTime, arrival.gaps)
      /\ Describes(AverageRunTime, VarianceRunTime, arrival.runTimes)

(* The types, and that every valid line that was read is in exactly one    *)
(* place, whatever the batches: still in memory, submitted, launched, or   *)
(* finished; and the tables of the results agree with that.                *)
NoJobLost ==
  LET inMemory == JobNumbers(ToSet(vSWF))
      places == <<inMemory, JobNumbers(mapSingleJob),
                  JobNumbers(mapRunningSingleJob), vFinishedJobID>>
  IN  /\ TypeOK
      /\ UNION {places[i] : i \in 1..4} = JobNumbers(ToSet(Read))
      /\ \A i, k \in 1..4 : i # k => places[i] \cap places[k] = {}
      /\ TablesMatchJobs

(* A job that runs, waits or ended was submitted no earlier than its       *)
(* submit time, with the job it depends on finished before.                *)
SubmittedInTime ==
  \A i \in DOMAIN Read :
    LET line == Read[i] IN
    line.job \in JobNumbers(mapSingleJob \cup mapRunningSingleJob) \cup vFinishedJobID
      => /\ line.submit <= clock
         /\ line.dependency \in vFinishedJobID \cup {0}

Unread == Parsed(SubSeq(trace, position + 1, Len(trace)))

(* The loop does not always run "until all jobs are done" (main.cpp:139):  *)
(* it leaves the jobs with a VM that no server has taken, those with a VM  *)
(* that finished on a server that was turned off before it was asked, and  *)
(* the part of the trace that was not read.  No other job is given up, and *)
(* each of these is.                                                       *)
OnlyTheseGivenUp ==
  pc = "ended" =>
    JobNumbers(ToSet(Parsed(trace))) \ vFinishedJobID =
      JobNumbers(ToSet(Unread)) \cup {v.job : v \in ToSet(qWaitingVMs)}
        \cup {v.job : v \in {u \in ToSet(running) : u.state = "finished"}}

(* When no line of the trace waits for another job, the simulation ends,   *)
(* but for a scheduler that goes round for ever, and for VMs that stand    *)
(* still again and again.                                                  *)
SomeVMStands == \E i \in DOMAIN running : running[i].state = "stands"

Terminates ==
  (\A i \in DOMAIN trace : trace[i].dependency = 0) =>
    <>(pc \in {"ended", "assigning"}) \/ []<>SomeVMStands

(* Users "launch any job to the job queue" and returns (Users.cpp:17).     *)
UsersReturns == pc = "users" ~> pc = "datacenter"

=============================================================================
