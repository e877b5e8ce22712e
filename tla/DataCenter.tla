----------------------------- MODULE DataCenter -----------------------------
(***************************************************************************)
(* One second of the simulator with its virtual machines: jobs enter the   *)
(* JobQueue, become VMs, are assigned to servers, run, are copied by the   *)
(* migration policies, finish, and are reported back to the JobQueue.      *)
(*                                                                         *)
(* The module refines ServersPool (property PoolSpec): it shares its       *)
(* phases, flags and vectors, and replaces hasVMs by the VM objects        *)
(* themselves.  A VM object is a number; the two vectors of a server are   *)
(* sets of them, since only GetNVMs depends on an order, one it makes by   *)
(* sorting.                                                                *)
(*                                                                         *)
(* Run times are counted in half seconds.  A slow server, whose VMs ask    *)
(* for more than it can give, runs them at half speed; the constructors    *)
(* that copy a VM truncate what it has left to whole seconds.              *)
(***************************************************************************)
EXTENDS Integers, Sequences, FiniteSets, Functions, SequencesExt

CONSTANTS
  Servers, POWER_ON, HighPeriod, LowPeriod, PowerOFFPercent, PoolPercent,
  MaxClock,           \* as in ServersPool
  Jobs,               \* job numbers of the trace
  numCPUs,            \* VMs of each job
  runTimeSec,         \* run time of the VMs of each job
  TRANSFER_TIME_VMS,  \* seconds a migration takes
  REASSIGN_VMS,       \* whether VMs that run are assigned again
  ReassignPeriod,     \* after so many seconds (16384 in the code)
  MaxVMs              \* bound: VM objects that are created

ASSUME ServersAssumption == IsFiniteSet(Servers)

ASSUME TimeAssumption ==
  /\ POWER_ON \in Nat
  /\ HighPeriod \in Nat \ {0}
  /\ LowPeriod \in Nat \ {0}
  /\ MaxClock \in Nat

ASSUME ShareAssumption == PowerOFFPercent \in 0..100 /\ PoolPercent \in 0..100

ASSUME JobAssumption ==
  /\ Jobs \subseteq Nat \ {0}
  /\ numCPUs \in [Jobs -> Nat \ {0}]
  /\ runTimeSec \in [Jobs -> Nat \ {0}]
  /\ TRANSFER_TIME_VMS \in Nat \ {0}

ASSUME ReassignAssumption ==
  REASSIGN_VMS \in BOOLEAN /\ ReassignPeriod \in Nat \ {0}

VARIABLES
  clock, pc, isOFF, isPOOL, isMigrating, isInitializing, powerOnServer,
  serversPowerOFF, serversPowerON, serversPOOL, wakeUP,
  ServerOPT, VMsToMigrate,  \* as in ServersPool
  stage,              \* what comes before AssignVMs in a second
  vm,                 \* the VM objects created so far, a sequence of records
  qWaitingVMs,        \* queue of VMs that no server has taken
  running, finished,  \* vRunningVMs and vFinishedVMs of every server
  reassigned,         \* originals taken back in transfer; the code has no
                      \* such list, only the invariants read it
  unsubmitted,        \* jobs of the trace that Users has not inserted
  mapSingleJob, mapRunningSingleJob, vFinishedJobID,
  finishedVMs         \* VMs reported finished for each job

Occupied == {s \in Servers : running[s] # {}}

Pool == INSTANCE ServersPool WITH hasVMs <- Occupied

queues   == <<unsubmitted, mapSingleJob, mapRunningSingleJob, vFinishedJobID,
              finishedVMs>>
machines == <<vm, qWaitingVMs, running, finished, reassigned>>
power    == <<isOFF, isPOOL, isMigrating, isInitializing, powerOnServer,
              serversPowerOFF, serversPowerON, serversPOOL, wakeUP>>
pass     == <<ServerOPT, VMsToMigrate>>
vars     == <<clock, pc, stage, power, pass, machines, queues>>

(* Run times that are no time: of a VM that ran for 0/0 seconds, and what  *)
(* its conversion to int gives.                                            *)
NaN == -1
INT_MIN == -2

Truncated(time) == IF time < 0 THEN INT_MIN ELSE time - (time % 2)

VMs == 1..Len(vm)

VirtualMachine(j, left, done) ==
  [job |-> j, left |-> left, move |-> 0, done |-> done]

ReturnIsMove(x) == x.move # 0

-----------------------------------------------------------------------------
Init ==
  /\ clock = 0 /\ pc = "reassign" /\ stage = "submit"
  /\ isOFF = {} /\ isPOOL = {} /\ isMigrating = {} /\ isInitializing = {}
  /\ powerOnServer = [s \in Servers |-> 0]
  /\ serversPowerOFF = [s \in Servers |-> 0]
  /\ serversPowerON = [s \in Servers |-> 0]
  /\ serversPOOL = [s \in Servers |-> 0]
  /\ wakeUP = 0
  /\ ServerOPT = {} /\ VMsToMigrate = {}
  /\ vm = <<>> /\ qWaitingVMs = <<>>
  /\ running = [s \in Servers |-> {}]
  /\ finished = [s \in Servers |-> {}] /\ reassigned = {}
  /\ unsubmitted = Jobs
  /\ mapSingleJob = {} /\ mapRunningSingleJob = {} /\ vFinishedJobID = {}
  /\ finishedVMs = [j \in Jobs |-> 0]

(* Users::EveryASecond inserts the jobs whose submit time has come. *)
InsertJobs ==
  /\ stage = "submit"
  /\ \E J \in SUBSET unsubmitted :
       /\ mapSingleJob' = mapSingleJob \cup J
       /\ unsubmitted' = unsubmitted \ J
  /\ stage' = "drain"
  /\ UNCHANGED <<clock, pc, power, pass, machines, mapRunningSingleJob,
                 vFinishedJobID, finishedVMs>>

(* TakeFirst: the job with the smallest number gets its VMs. *)
TakeFirst ==
  /\ stage = "drain"
  /\ mapSingleJob # {}
  /\ LET j == CHOOSE i \in mapSingleJob : \A k \in mapSingleJob : i <= k
         new == [i \in 1..numCPUs[j] |-> Len(vm) + i] IN
       /\ mapSingleJob' = mapSingleJob \ {j}
       /\ mapRunningSingleJob' = mapRunningSingleJob \cup {j}
       /\ vm' = vm \o [i \in 1..numCPUs[j] |->
                         VirtualMachine(j, 2 * runTimeSec[j], FALSE)]
       /\ qWaitingVMs' = qWaitingVMs \o new
  /\ UNCHANGED <<clock, pc, stage, power, pass, running, finished, reassigned,
                 unsubmitted, vFinishedJobID, finishedVMs>>

JobQueueDrained ==
  /\ stage = "drain"
  /\ mapSingleJob = {}
  /\ stage' = "assign"
  /\ UNCHANGED <<clock, pc, power, pass, machines, queues>>

(* Every ReassignPeriod seconds all VMs of the servers that are not off go *)
(* back to the queue, one server after the other.  An original in transfer *)
(* goes too, and keeps the second in which its transfer ends.              *)
TakeAVM(s) == IF s \in isOFF THEN {} ELSE running[s]

Reassigned == REASSIGN_VMS /\ clock % ReassignPeriod = 0

ReassignVMs ==
  /\ pc = "reassign" /\ stage = "assign"
  /\ \/ /\ Reassigned
        /\ LET taken == UNION {TakeAVM(s) : s \in Servers} IN
             /\ \E order \in Bijection(1..Cardinality(taken), taken) :
                  qWaitingVMs' = qWaitingVMs \o order
             /\ running' = [s \in Servers |-> running[s] \ TakeAVM(s)]
             /\ reassigned' = reassigned \cup {v \in taken : ReturnIsMove(vm[v])}
     \/ /\ ~ Reassigned
        /\ UNCHANGED <<qWaitingVMs, running, reassigned>>
  /\ pc' = "assign"
  /\ UNCHANGED <<clock, stage, power, pass, vm, finished, queues>>

-----------------------------------------------------------------------------
(* AssignVMs of the pool schedulers: the head of the queue goes to an      *)
(* active server that has room, ...                                        *)

(* Mutant: the VM is not popped from the queue. *)
GiveHeadTwice(s) ==
  /\ qWaitingVMs # <<>>
  /\ running' = [running EXCEPT ![s] = @ \cup {Head(qWaitingVMs)}]
  /\ UNCHANGED qWaitingVMs

GiveHeadTo(s) ==
  /\ qWaitingVMs # <<>>
  /\ running' = [running EXCEPT ![s] = @ \cup {Head(qWaitingVMs)}]
  /\ qWaitingVMs' = Tail(qWaitingVMs)

(* Mutant: only IsOFF is tested, as in the schedulers without a pool. *)
AssignOneVMUnlessOFF(s) ==
  /\ pc = "assign" /\ stage = "assign"
  /\ s \notin isOFF
  /\ GiveHeadTo(s)
  /\ UNCHANGED <<clock, pc, stage, power, pass, vm, finished, reassigned, queues>>

AssignOneVM(s) ==
  /\ pc = "assign" /\ stage = "assign"
  /\ s \in Pool!Active
  /\ GiveHeadTo(s)
  /\ UNCHANGED <<clock, pc, stage, power, pass, vm, finished, reassigned, queues>>

(* ... otherwise to a server of the pool, ... *)
AssignFromPool(s) ==
  /\ pc = "assign" /\ stage = "assign"
  /\ GiveHeadTo(s)
  /\ Pool!RemoveServerPOOL(s)
  /\ wakeUP' = wakeUP + 1
  /\ UNCHANGED <<clock, pc, stage, isOFF, isMigrating, isInitializing,
                 powerOnServer, serversPowerOFF, serversPowerON, pass, vm,
                 finished, reassigned, queues>>

(* ... or waits, when all active servers are full and the pool is empty.   *)
EndAssign ==
  /\ pc = "assign" /\ stage = "assign"
  /\ qWaitingVMs = <<>> \/ Pool!IsEmptyVector(serversPOOL)
  /\ pc' = "wakeAssign"
  /\ UNCHANGED <<clock, stage, power, pass, machines, queues>>

-----------------------------------------------------------------------------
(* The second in which the transfer of a VM ends; 0 when it does not move. *)
InsertTimeSecMove(x) == [x EXCEPT !.move = clock + TRANSFER_TIME_VMS]

(* Copies of the VMs in S start to run on server t; the originals run on   *)
(* until their transfer ends.  The constructor that GetNVMs uses takes a   *)
(* VM without run time for a finished one (done).                          *)
CopyVMs(S, t, byGetNVMs) ==
  LET originals == SetToSeq(S)
      copy(v) == VirtualMachine(vm[v].job, Truncated(vm[v].left),
                                byGetNVMs /\ Truncated(vm[v].left) <= 0) IN
  /\ Len(vm) + Cardinality(S) <= MaxVMs
  /\ vm' = [v \in VMs |-> IF v \in S THEN InsertTimeSecMove(vm[v]) ELSE vm[v]]
           \o [i \in 1..Len(originals) |-> copy(originals[i])]
  /\ running' = [running EXCEPT ![t] =
                   @ \cup (Len(vm) + 1)..(Len(vm) + Cardinality(S))]
  /\ reassigned' = reassigned \ S

(* GetALLVMs copies the VMs with time left, GetNVMs a given number. *)
GetALLVMs(s) == {v \in running[s] : vm[v].left > 0 /\ ~ vm[v].done}

GetNVMs(s, n) == {S \in SUBSET running[s] : Cardinality(S) = n}

(* A policy takes all VMs from a server, or half or a quarter of those of  *)
(* a hot one, by the temperature of the target.                            *)
MigrateToServer(s, t) ==
  /\ \/ pc = "migrateLow" /\ s # t
     \/ pc = "migrateHigh"
  /\ s \in VMsToMigrate /\ t \in ServerOPT
  /\ \/ CopyVMs(GetALLVMs(s), t, FALSE)
     \/ /\ pc = "migrateHigh"
        /\ \E n \in {2, 4} :
             \E S \in GetNVMs(s, Cardinality(running[s]) \div n) :
               CopyVMs(S, t, TRUE)
  /\ isMigrating' = isMigrating \cup {s}
  /\ VMsToMigrate' = VMsToMigrate \ {s}
  /\ UNCHANGED <<clock, pc, stage, isOFF, isPOOL, isInitializing,
                 powerOnServer, serversPowerOFF, serversPowerON, serversPOOL, wakeUP,
                 ServerOPT, qWaitingVMs, finished, queues>>

MigrateToPool(s, t) ==
  /\ pc = "migrateHigh"
  /\ s \in VMsToMigrate
  /\ Pool!RemoveServerPOOL(t)
  /\ CopyVMs(GetALLVMs(s), t, FALSE)
  /\ isMigrating' = isMigrating \cup {s}
  /\ VMsToMigrate' = VMsToMigrate \ {s}
  /\ ServerOPT' = ServerOPT \cup {t}
  /\ wakeUP' = wakeUP + 1
  /\ UNCHANGED <<clock, pc, stage, isOFF, isInitializing, powerOnServer,
                 serversPowerOFF, serversPowerON, qWaitingVMs, finished, queues>>

(* The steps that ServersPool takes alone. *)
PowerStep ==
  /\ UNCHANGED <<stage, machines, queues>>
  /\ \/ \E s \in Servers : Pool!ServerPowerON(s)
     \/ Pool!ServerPowerONDone
     \/ Pool!PoliceLowUtilization \/ Pool!EndLowUtilization
     \/ Pool!PoliceHighTemperature \/ Pool!EndHighTemperature
     \/ Pool!PoliceIdle
     \/ Pool!PowerOFFDC \/ Pool!PowerOFFDCFillPool \/ Pool!PowerOFFDCOutOfRange

-----------------------------------------------------------------------------
(* A VM copied without run time has the load 0/0, and so has the sum of    *)
(* the loads of its server: all its VMs are advanced by NaN seconds.       *)
Poisoned ==
  {s \in Servers : \E v \in running[s] : vm[v].done /\ vm[v].left = 0}

(* The VMs a server finds finished after it advanced them: those with less *)
(* left than that, and those that were finished before.                    *)
Done(s, seconds) ==
  {v \in running[s] :
     \/ vm[v].done
     \/ s \notin Poisoned /\ vm[v].left # NaN /\ vm[v].left < seconds}

(* VirtualMachine::RunVMAndReturnActualTime of a VM on server s. *)
RunVM(x, s, seconds) ==
  IF s \in Poisoned \/ x.left = NaN THEN [x EXCEPT !.left = NaN]
  ELSE IF x.left < seconds THEN [x EXCEPT !.left = 0, !.done = TRUE]
  ELSE [x EXCEPT !.left = @ - seconds]

(* Server::EveryASecond on all servers, some of them slow. *)
RunServers ==
  /\ pc = "run"
  /\ \E slow \in SUBSET Occupied :
       LET seconds(s) == IF s \in slow THEN 1 ELSE 2 IN
       /\ vm' = [v \in VMs |->
                   IF \E s \in Occupied : v \in running[s]
                     THEN LET s == CHOOSE s \in Occupied : v \in running[s]
                          IN  RunVM(vm[v], s, seconds(s))
                     ELSE vm[v]]
       /\ running' = [s \in Servers |-> running[s] \ Done(s, seconds(s))]
       /\ finished' = [s \in Servers |-> finished[s] \cup Done(s, seconds(s))]
  /\ pc' = IF clock = 1 THEN "poweroff" ELSE "moved"
  /\ UNCHANGED <<clock, stage, power, pass, qWaitingVMs, reassigned, queues>>

(* ServersPOOL::EveryASecond: CheckFinishMove ends the moves that are due  *)
(* now; a migrating server that has no VM left is powered off.             *)

(* Mutant: a move is over when its second has passed. *)
MovedAfter(s) == {v \in running[s] : ReturnIsMove(vm[v]) /\ vm[v].move < clock}

Moved(s) == {v \in running[s] : ReturnIsMove(vm[v]) /\ vm[v].move = clock}

FinishMigrations ==
  /\ pc = "moved"
  /\ LET checked == isMigrating \ Pool!Dormant
         empty   == {s \in checked : running[s] \subseteq Moved(s)} IN
       /\ running' = [s \in Servers |-> IF s \in checked
                        THEN running[s] \ Moved(s) ELSE running[s]]
       /\ finished' = [s \in Servers |-> IF s \in checked
                         THEN finished[s] \cup Moved(s) ELSE finished[s]]
       /\ serversPowerOFF' = Pool!InsertVector(serversPowerOFF, empty)
       /\ Pool!TurnOFF(empty)
  /\ pc' = "powered"
  /\ UNCHANGED <<clock, stage, powerOnServer, serversPowerON, serversPOOL,
                 wakeUP, pass, vm, qWaitingVMs, reassigned, queues>>

FinishPowerOn ==
  /\ UNCHANGED <<machines, queues>>
  /\ Pool!FinishPowerOn
  /\ stage' = "collect"

-----------------------------------------------------------------------------
(* "delete finished VMs": every VM in the vFinishedVMs of a server that is *)
(* neither off, pooled nor booting is reported to the JobQueue and freed.  *)
Freed == [job |-> 0, left |-> 0, move |-> 0, done |-> TRUE]

(* Mutant: a job is finished when its first VM is. *)
OneVMFinishedEarly(j) ==
  \/ /\ j \in mapRunningSingleJob
     /\ finishedVMs' = [finishedVMs EXCEPT ![j] = @ + 1]
     /\ mapRunningSingleJob' = mapRunningSingleJob \ {j}
     /\ vFinishedJobID' = vFinishedJobID \cup {j}
     /\ UNCHANGED stage
  \/ /\ j \notin mapRunningSingleJob
     /\ stage' = "undefined"
     /\ UNCHANGED <<mapRunningSingleJob, vFinishedJobID, finishedVMs>>

(* OneVMFinishedOnASingleJob.  It dereferences what find returns: for a    *)
(* job that is not in mapRunningSingleJob that is end(), and undefined.    *)
OneVMFinished(j) ==
  \/ /\ j \in mapRunningSingleJob
     /\ finishedVMs' = [finishedVMs EXCEPT ![j] = @ + 1]
     /\ IF finishedVMs[j] + 1 = numCPUs[j]
          THEN /\ mapRunningSingleJob' = mapRunningSingleJob \ {j}
               /\ vFinishedJobID' = vFinishedJobID \cup {j}
          ELSE UNCHANGED <<mapRunningSingleJob, vFinishedJobID>>
     /\ UNCHANGED stage
  \/ /\ j \notin mapRunningSingleJob
     /\ stage' = "undefined"
     /\ UNCHANGED <<mapRunningSingleJob, vFinishedJobID, finishedVMs>>

ReportVM(s, v) ==
  /\ stage = "collect"
  /\ s \notin Pool!Dormant /\ v \in finished[s]
  /\ finished' = [finished EXCEPT ![s] = @ \ {v}]
  /\ vm' = [vm EXCEPT ![v] = Freed]
  /\ OneVMFinished(vm[v].job)
  /\ UNCHANGED <<clock, pc, power, pass, qWaitingVMs, running, reassigned,
                 unsubmitted, mapSingleJob>>

FinishedVMsDeleted ==
  /\ stage = "collect"
  /\ \A s \in Servers \ Pool!Dormant : finished[s] = {}
  /\ stage' = "submit"
  /\ UNCHANGED <<clock, pc, power, pass, machines, queues>>

-----------------------------------------------------------------------------
Next ==
  \/ InsertJobs \/ TakeFirst \/ JobQueueDrained \/ ReassignVMs
  \/ \E s \in Servers : AssignOneVM(s) \/ AssignFromPool(s)
  \/ EndAssign
  \/ \E s, t \in Servers : MigrateToServer(s, t) \/ MigrateToPool(s, t)
  \/ PowerStep
  \/ RunServers \/ FinishMigrations \/ FinishPowerOn
  \/ \E s \in Servers, v \in VMs : ReportVM(s, v)
  \/ FinishedVMsDeleted

Spec == Init /\ [][Next]_vars

-----------------------------------------------------------------------------
InQueue == ToSet(qWaitingVMs)

(* The VM objects of a job that somebody still holds. *)
Live(j) == {v \in InQueue \cup UNION {running[s] \cup finished[s] : s \in Servers} :
              vm[v].job = j}

VMRecord ==
  [job : Jobs \cup {0}, left : Nat \cup {NaN, INT_MIN}, move : Nat, done : BOOLEAN]

VMTypeOK ==
  /\ stage \in {"submit", "drain", "assign", "collect", "undefined"}
  /\ vm \in Seq(VMRecord)
  /\ qWaitingVMs \in Seq(VMs)
  /\ running \in [Servers -> SUBSET VMs]
  /\ finished \in [Servers -> SUBSET VMs]
  /\ reassigned \subseteq VMs
  /\ unsubmitted \subseteq Jobs /\ mapSingleJob \subseteq Jobs
  /\ mapRunningSingleJob \subseteq Jobs /\ vFinishedJobID \subseteq Jobs
  /\ finishedVMs \in [Jobs -> Nat]

TypeOK == Pool!TypeOK /\ VMTypeOK

(* The refinement: with hasVMs read as "runs a VM", what happens to the    *)
(* servers is what ServersPool allows.                                     *)
PoolSpec == Pool!Spec

(* A VM object is in one container at most, once, and not after it was     *)
(* deleted.                                                                *)
HeldOnce ==
  /\ IsInjective(qWaitingVMs)
  /\ \A s, t \in Servers :
       /\ running[s] \cap finished[t] = {}
       /\ s # t => running[s] \cap running[t] = {} /\ finished[s] \cap finished[t] = {}
  /\ \A s \in Servers : InQueue \cap (running[s] \cup finished[s]) = {}
  /\ Live(Freed.job) = {}

(* The types, and that a VM object is held by one container only, once,    *)
(* and not after it was deleted: the vectors and the queue hold raw        *)
(* pointers, and two holders would run it twice a second and delete it     *)
(* twice.                                                                  *)
OneOwner == TypeOK /\ HeldOnce

(* The end of a transfer is tested with ==, on migrating servers only: an  *)
(* original that missed it would run to its end beside its copy.  None     *)
(* does, except those that REASSIGN_VMS took from their server meanwhile:  *)
(* only those ever wait in the queue or run on a server that does not      *)
(* migrate, and a policy that copies one again takes it in hand again.     *)
MoveNeverMissed ==
  /\ \A s \in Servers : \A v \in running[s] \ reassigned :
       ReturnIsMove(vm[v]) => s \in isMigrating /\ clock <= vm[v].move
  /\ \A v \in InQueue \ reassigned : ~ ReturnIsMove(vm[v])

NothingCopied ==
  Len(vm) = FoldFunctionOnSet(+, 0, numCPUs, Jobs \ (unsubmitted \cup mapSingleJob))

(* However often its VMs are copied, a launched job never has fewer VM     *)
(* objects left than completions it still waits for.  While no VM was      *)
(* copied the account is exact, and closed with the last VM: a finished    *)
(* job has no VM any more, a launched one waits for all it has, and every  *)
(* report finds its job.                                                   *)
VMsAccounted ==
  /\ \A j \in mapRunningSingleJob :
       finishedVMs[j] + Cardinality(Live(j)) >= numCPUs[j]
  /\ NothingCopied =>
       /\ \A j \in mapRunningSingleJob \cup vFinishedJobID :
            finishedVMs[j] + Cardinality(Live(j)) = numCPUs[j]
       /\ vFinishedJobID = {j \in Jobs : finishedVMs[j] = numCPUs[j]}
       /\ stage # "undefined"

(* "Error: One VM Finished a job that has not been launched" does not      *)
(* happen (JobQueue.cpp:89): the job of a VM that finishes is running.     *)
ReportFindsItsJob == stage # "undefined"

(* "Error: Finished VM consumed cpu time" does not happen                  *)
(* (VirtualMachine.cpp:65): no server runs a VM that is finished.          *)
FinishedVMNeverRuns ==
  pc = "run" => \A s \in Servers : \A v \in running[s] : ~ vm[v].done

=============================================================================
