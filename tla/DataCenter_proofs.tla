-------------------------- MODULE DataCenter_proofs --------------------------
(***************************************************************************)
(* DataCenter implements ServersPool, each VM object is held once, and no  *)
(* transfer misses its end: for every number of servers, all jobs and all  *)
(* times.                                                                  *)
(***************************************************************************)
EXTENDS DataCenter, SumTheorems, SequenceTheorems, FiniteSetTheorems, TLAPS

(* What is proved of the servers, for the servers of this module. *)
Proved == INSTANCE ServersPool_proofs WITH hasVMs <- Occupied

LEMMA PoolAssumptions ==
  /\ Proved!ServersAssumption
  /\ Proved!TimeAssumption
  /\ Proved!ShareAssumption
  BY ServersAssumption, TimeAssumption, ShareAssumption
  DEF Proved!IsFiniteSet, IsFiniteSet

-----------------------------------------------------------------------------
(* The invariant of the pool, read for this module, and the steps it is    *)
(* kept by.                                                                *)
LEMMA PoolFacts ==
  ASSUME Proved!IInv
  PROVE  /\ Pool!TypeOK
         /\ Pool!OneMode
         /\ Occupied \cap Pool!Dormant = {}
  BY DEF Proved!IInv, Proved!TypeOK, Pool!TypeOK, Proved!Phases, Pool!Phases,
         Proved!OneMode, Pool!OneMode, Proved!Dormant, Pool!Dormant,
         Proved!NoVMsOnDormantServers

LEMMA PoolInit == Pool!Init => Proved!IInv
  <1>1. Pool!Init => Proved!Init
    BY DEF Pool!Init, Proved!Init
  <1>2. Proved!Init => Proved!IInv
    BY PoolAssumptions, Proved!InitIInv
  <1> QED  BY <1>1, <1>2

LEMMA PoolStepInv == Proved!IInv /\ [Pool!Next]_(Pool!vars) => Proved!IInv'
  <1>1. [Pool!Next]_(Pool!vars) => [Proved!Next]_(Proved!vars)
    BY DEF Pool!Next, Proved!Next, Pool!ReassignVMs,
           Proved!ReassignVMs, Pool!AssignOneVM,
           Proved!AssignOneVM, Pool!AssignFromPool,
           Proved!AssignFromPool, Pool!ServerPowerON,
           Proved!ServerPowerON, Pool!MigrateToServer,
           Proved!MigrateToServer, Pool!MigrateToPool,
           Proved!MigrateToPool, Pool!EndAssign, Proved!EndAssign,
           Pool!ServerPowerONDone, Proved!ServerPowerONDone,
           Pool!PoliceLowUtilization, Proved!PoliceLowUtilization,
           Pool!PoliceHighTemperature, Proved!PoliceHighTemperature,
           Pool!EndLowUtilization, Proved!EndLowUtilization,
           Pool!EndHighTemperature, Proved!EndHighTemperature,
           Pool!PoliceIdle, Proved!PoliceIdle, Pool!RunServers,
           Proved!RunServers, Pool!PowerOFFDC, Proved!PowerOFFDC,
           Pool!PowerOFFDCFillPool, Proved!PowerOFFDCFillPool,
           Pool!PowerOFFDCOutOfRange, Proved!PowerOFFDCOutOfRange,
           Pool!FinishMigrations, Proved!FinishMigrations,
           Pool!FinishPowerOn, Proved!FinishPowerOn, Pool!vars,
           Proved!vars, Pool!flags, Proved!flags, Pool!vectors,
           Proved!vectors, Pool!pass, Proved!pass, Pool!InsertVector,
           Proved!InsertVector, Pool!EraseFirst, Proved!EraseFirst,
           Pool!IsEmptyVector, Proved!IsEmptyVector, Pool!Active,
           Proved!Active, Pool!Dormant, Proved!Dormant, Pool!TurnOFF,
           Proved!TurnOFF, Pool!TurnON, Proved!TurnON, Pool!addPOOL,
           Proved!addPOOL, Pool!removePOOL, Proved!removePOOL,
           Pool!RemoveServerPOOL, Proved!RemoveServerPOOL, Pool!Due,
           Proved!Due, Pool!timePowerOnServer,
           Proved!timePowerOnServer, Pool!MoveVMs, Proved!MoveVMs,
           Pool!IdleServers, Proved!IdleServers, Pool!Candidates,
           Proved!Candidates, Pool!Share, Proved!Share,
           Pool!PowerOFFTarget, Proved!PowerOFFTarget,
           Pool!PoolTarget, Proved!PoolTarget, Pool!SmallerOf,
           Proved!SmallerOf, Pool!PoweredUp, Proved!PoweredUp,
           Pool!Cardinality, Proved!Cardinality, Pool!IsFiniteSet,
           Proved!IsFiniteSet
  <1> QED  BY <1>1, PoolAssumptions, Proved!NextIInv

-----------------------------------------------------------------------------
(* DataCenter implements ServersPool. *)
LEMMA InitImplements == Init => Pool!Init
  BY DEF Init, Pool!Init, Occupied

(* Steps that leave the servers alone. *)
LEMMA QuietImplements ==
  ASSUME \/ InsertJobs \/ TakeFirst \/ JobQueueDrained \/ FinishedVMsDeleted
         \/ \E s \in Servers, v \in VMs : ReportVM(s, v)
         \/ UNCHANGED vars
  PROVE  UNCHANGED Pool!vars
  BY DEF InsertJobs, TakeFirst, JobQueueDrained, FinishedVMsDeleted, ReportVM,
         vars, power, pass, machines, queues, Occupied,
         Pool!vars, Pool!flags, Pool!vectors, Pool!pass

(* The servers that are not off lose their VMs, those of the others stay.  *)
LEMMA ReassignImplements ==
  ASSUME VMTypeOK, ReassignVMs
  PROVE  Pool!Next
<1>1. Occupied' \in {Occupied, Occupied \cap isOFF}
  BY DEF ReassignVMs, TakeAVM, Occupied, VMTypeOK
<1>2. Pool!ReassignVMs
  BY <1>1
  DEF ReassignVMs, power, pass, Pool!ReassignVMs, Pool!flags, Pool!vectors, Pool!pass
<1> QED  BY <1>2 DEF Pool!Next

LEMMA AssignImplements ==
  ASSUME VMTypeOK, NEW s \in Servers, AssignOneVM(s) \/ AssignFromPool(s)
  PROVE  [Pool!Next]_(Pool!vars)
<1>1. Occupied' = Occupied \cup {s}
  BY DEF AssignOneVM, AssignFromPool, GiveHeadTo, Occupied, VMTypeOK
<1>2. CASE AssignOneVM(s)
  <2>1. CASE s \in Occupied
    BY <1>1, <1>2, <2>1
    DEF AssignOneVM, power, pass, Pool!vars, Pool!flags, Pool!vectors, Pool!pass
  <2>2. CASE s \notin Occupied
    <3>1. Pool!AssignOneVM(s)
      BY <1>1, <1>2, <2>2
      DEF AssignOneVM, power, pass, Pool!AssignOneVM, Pool!flags, Pool!vectors,
          Pool!pass
    <3> QED  BY <3>1 DEF Pool!Next
  <2> QED  BY <2>1, <2>2
<1>3. CASE AssignFromPool(s)
  <2>1. Pool!AssignFromPool(s)
    BY <1>1, <1>3
    DEF AssignFromPool, pass, Pool!AssignFromPool, Pool!pass
  <2> QED  BY <2>1 DEF Pool!Next
<1> QED  BY <1>2, <1>3

LEMMA EndAssignImplements ==
  ASSUME EndAssign
  PROVE  Pool!Next
<1>1. Pool!EndAssign
  BY DEF EndAssign, power, pass, machines, Occupied, Pool!EndAssign, Pool!flags,
         Pool!vectors, Pool!pass
<1> QED  BY <1>1 DEF Pool!Next

(* Copies occupy their target, when there are any. *)
LEMMA CopiesImplement ==
  ASSUME VMTypeOK, NEW s \in Servers, NEW t \in Servers,
         NEW S \in SUBSET running[s], NEW b, CopyVMs(S, t, b)
  PROVE  Pool!MoveVMs(s, t)
<1> DEFINE copies == (Len(vm) + 1)..(Len(vm) + Cardinality(S))
<1>1. running' = [running EXCEPT ![t] = @ \cup copies]
  BY DEF CopyVMs
<1>2. running \in [Servers -> SUBSET VMs] /\ Len(vm) \in Nat
  BY DEF VMTypeOK
<1>3. CASE S = {}
  <2>1. copies = {}
    BY <1>2, <1>3, FS_EmptySet
  <2>2. running' = running
    BY <1>1, <1>2, <2>1
  <2> QED  BY <2>2 DEF Occupied, Pool!MoveVMs
<1>4. CASE S # {}
  <2>1. s \in Occupied
    BY <1>4 DEF Occupied
  <2>2. \/ Occupied' = Occupied
        \/ Occupied' = Occupied \cup {t}
    BY <1>1, <1>2 DEF Occupied
  <2> QED  BY <2>1, <2>2 DEF Pool!MoveVMs
<1> QED  BY <1>3, <1>4

LEMMA MigrateImplements ==
  ASSUME VMTypeOK, NEW s \in Servers, NEW t \in Servers,
         MigrateToServer(s, t) \/ MigrateToPool(s, t)
  PROVE  Pool!Next
<1>1. GetALLVMs(s) \in SUBSET running[s]
  BY DEF GetALLVMs
<1>2. \A n : GetNVMs(s, n) \subseteq SUBSET running[s]
  BY DEF GetNVMs
<1>3. Pool!MoveVMs(s, t)
  BY <1>1, <1>2, CopiesImplement DEF MigrateToServer, MigrateToPool
<1>4. CASE MigrateToServer(s, t)
  <2>1. Pool!MigrateToServer(s, t)
    BY <1>3, <1>4 DEF MigrateToServer, Pool!MigrateToServer, Pool!vectors
  <2> QED  BY <2>1 DEF Pool!Next
<1>5. CASE MigrateToPool(s, t)
  <2>1. Pool!MigrateToPool(s, t)
    BY <1>3, <1>5 DEF MigrateToPool, Pool!MigrateToPool
  <2> QED  BY <2>1 DEF Pool!Next
<1> QED  BY <1>4, <1>5

LEMMA PowerImplements ==
  ASSUME PowerStep \/ FinishPowerOn
  PROVE  Pool!Next
  BY DEF PowerStep, FinishPowerOn, Pool!Next

LEMMA RunImplements ==
  ASSUME Proved!IInv, VMTypeOK, RunServers
  PROVE  Pool!Next
<1>1. PICK slow \in SUBSET Occupied :
        running' = [s \in Servers |->
          running[s] \ Done(s, IF s \in slow THEN 1 ELSE 2)]
  BY DEF RunServers
<1>2. Occupied' = Occupied \ (Occupied \ Occupied') /\ Occupied' \subseteq Occupied
  BY <1>1 DEF Occupied
<1>3. Occupied \ Occupied' \in SUBSET (Occupied \ Pool!Dormant)
  BY PoolFacts
<1>4. Pool!RunServers
  BY <1>2, <1>3
  DEF RunServers, power, pass, Pool!RunServers, Pool!flags, Pool!vectors, Pool!pass
<1> QED  BY <1>4 DEF Pool!Next

LEMMA FinishMigrationsImplements ==
  ASSUME Proved!IInv, VMTypeOK, FinishMigrations
  PROVE  Pool!Next
<1> DEFINE checked == isMigrating \ Pool!Dormant
           empty == {s \in checked : running[s] \subseteq Moved(s)}
           done == {s \in Occupied \cap checked : running[s] \subseteq Moved(s)}
<1>1. running' = [s \in Servers |->
                    IF s \in checked THEN running[s] \ Moved(s) ELSE running[s]]
  BY DEF FinishMigrations
<1>2. Occupied' = Occupied \ done
  <2>1. \A s \in Servers : Moved(s) \subseteq running[s]
    BY DEF Moved
  <2> QED  BY <1>1, <2>1 DEF Occupied
<1>3. isMigrating \subseteq Servers
  BY PoolFacts DEF Pool!TypeOK
<1>4. empty = checked \ (Occupied \ done)
  BY <1>3 DEF Occupied
<1>5. Pool!FinishMigrations
  BY <1>2, <1>4
  DEF FinishMigrations, pass, Pool!FinishMigrations, Pool!pass
<1> QED  BY <1>5 DEF Pool!Next

LEMMA NextImplements ==
  ASSUME Proved!IInv, VMTypeOK, [Next]_vars
  PROVE  [Pool!Next]_(Pool!vars)
<1>1. CASE \/ InsertJobs \/ TakeFirst \/ JobQueueDrained \/ FinishedVMsDeleted
           \/ \E s \in Servers, v \in VMs : ReportVM(s, v)
           \/ UNCHANGED vars
  BY <1>1, QuietImplements
<1>2. CASE \E s \in Servers : AssignOneVM(s) \/ AssignFromPool(s)
  BY <1>2, AssignImplements
<1>3. CASE EndAssign
  BY <1>3, EndAssignImplements
<1>4. CASE \E s, t \in Servers : MigrateToServer(s, t) \/ MigrateToPool(s, t)
  BY <1>4, MigrateImplements
<1>5. CASE PowerStep \/ FinishPowerOn
  BY <1>5, PowerImplements
<1>6. CASE RunServers
  BY <1>6, RunImplements
<1>7. CASE FinishMigrations
  BY <1>7, FinishMigrationsImplements
<1>8. CASE ReassignVMs
  BY <1>8, ReassignImplements
<1> QED  BY <1>1, <1>2, <1>3, <1>4, <1>5, <1>6, <1>7, <1>8 DEF Next

-----------------------------------------------------------------------------
(* What creating and copying does to the VM objects. *)
LEMMA TruncatedType ==
  ASSUME NEW time \in Nat \cup {NaN, INT_MIN}
  PROVE  Truncated(time) \in Nat \cup {NaN, INT_MIN}
<1>1. CASE time \in Nat
  <2>1. time % 2 \in {0, 1} /\ time % 2 <= time
    BY <1>1
  <2> QED  BY <1>1, <2>1 DEF Truncated
<1>2. CASE time \in {NaN, INT_MIN}
  BY <1>2 DEF Truncated, NaN, INT_MIN
<1> QED  BY <1>1, <1>2

(* A set of VMs as a sequence. *)
LEMMA SetToSeqLists ==
  ASSUME NEW S, IsFiniteSet(S)
  PROVE  /\ Cardinality(S) \in Nat
         /\ SetToSeq(S) \in [1..Cardinality(S) -> S]
         /\ Len(SetToSeq(S)) = Cardinality(S)
<1>1. Cardinality(S) \in Nat /\ ExistsBijection(1..Cardinality(S), S)
  BY FS_CardinalityType
<1>2. \E f \in [1..Cardinality(S) -> S] : IsInjective(f)
  BY <1>1 DEF ExistsBijection, Bijection, Injection, IsInjective
<1>3. SetToSeq(S) \in [1..Cardinality(S) -> S]
  BY <1>2 DEF SetToSeq
<1> QED  BY <1>1, <1>3

(* No container holds a VM object that was deleted. *)
Held(v) ==
  \/ v \in InQueue
  \/ \E s \in Servers : v \in running[s] \cup finished[s]

Alive == \A v \in VMs : Held(v) => vm[v].job \in Jobs

(* The originals only get a deadline; the copies are new, belong to the    *)
(* same jobs, and do not move.                                             *)
Copied(S, t) ==
  /\ vm' \in Seq(VMRecord)
  /\ Len(vm) \in Nat /\ Len(vm') \in Nat /\ Len(vm) <= Len(vm')
  /\ \A v \in VMs : /\ vm'[v].job = vm[v].job
                    /\ vm'[v].move = IF v \in S THEN clock + TRANSFER_TIME_VMS
                                               ELSE vm[v].move
  /\ \A v \in (Len(vm) + 1)..Len(vm') :
       vm'[v].job \in Jobs /\ vm'[v].move = 0
  /\ \A v \in (Len(vm) + 1)..Len(vm') : \E w \in S : vm'[v].job = vm[w].job
  /\ running' = [running EXCEPT ![t] = @ \cup (Len(vm) + 1)..Len(vm')]
  /\ reassigned' = reassigned \ S

LEMMA CopiesMade ==
  ASSUME VMTypeOK, clock \in Nat, Alive,
         NEW s \in Servers, NEW t \in Servers,
         NEW S \in SUBSET running[s], NEW b \in BOOLEAN, CopyVMs(S, t, b)
  PROVE  Copied(S, t)
<1> DEFINE originals == SetToSeq(S)
           old == [v \in VMs |-> IF v \in S THEN InsertTimeSecMove(vm[v]) ELSE vm[v]]
           copy(v) == VirtualMachine(vm[v].job, Truncated(vm[v].left),
                                     b /\ Truncated(vm[v].left) <= 0)
           new == [i \in 1..Len(originals) |-> copy(originals[i])]
<1>1. /\ vm \in Seq(VMRecord) /\ Len(vm) \in Nat
      /\ running \in [Servers -> SUBSET VMs]
      /\ \A v \in VMs : vm[v] \in VMRecord
  BY DEF VMTypeOK, VMs
<1>2. S \subseteq VMs /\ IsFiniteSet(S)
  <2>1. IsFiniteSet(VMs)
    BY <1>1, FS_Interval DEF VMs
  <2> QED  BY <1>1, <2>1, FS_Subset
<1>3. /\ Cardinality(S) \in Nat
      /\ originals \in [1..Cardinality(S) -> S]
      /\ Len(originals) = Cardinality(S)
  BY <1>2, SetToSeqLists
<1>4. \A v \in S : vm[v].job \in Jobs
  BY <1>1, <1>2 DEF Alive, Held
<1>5. \A v \in VMs :
        /\ old[v] \in VMRecord
        /\ old[v].job = vm[v].job
        /\ old[v].move = IF v \in S THEN clock + TRANSFER_TIME_VMS ELSE vm[v].move
  <2>1. clock + TRANSFER_TIME_VMS \in Nat
    BY JobAssumption
  <2> QED  BY <1>1, <2>1 DEF InsertTimeSecMove, VMRecord
<1>6. \A v \in S :
        copy(v) \in VMRecord /\ copy(v).job \in Jobs /\ copy(v).move = 0
  <2> TAKE v \in S
  <2>1. vm[v].left \in Nat \cup {NaN, INT_MIN}
    BY <1>1, <1>2 DEF VMRecord
  <2>2. Truncated(vm[v].left) \in Nat \cup {NaN, INT_MIN}
    BY <2>1, TruncatedType
  <2> QED  BY <1>4, <2>2 DEF VirtualMachine, VMRecord
<1>6a. \A v \in S : copy(v).job = vm[v].job
  BY DEF VirtualMachine
<1>7. vm' = old \o new
  BY DEF CopyVMs
<1> HIDE DEF originals, old, copy
<1>8. old \in Seq(VMRecord) /\ Len(old) = Len(vm)
  <2>1. old \in [1..Len(vm) -> VMRecord]
    BY <1>5 DEF old, VMs
  <2> QED  BY <1>1, <2>1
<1>9. /\ new \in Seq(VMRecord) /\ Len(new) = Cardinality(S)
      /\ \A i \in 1..Len(new) : new[i].job \in Jobs /\ new[i].move = 0
      /\ \A i \in 1..Len(new) : \E w \in S : new[i].job = vm[w].job
  <2>1. new \in [1..Cardinality(S) -> VMRecord]
    BY <1>3, <1>6
  <2>2. \A i \in 1..Cardinality(S) : new[i].job \in Jobs /\ new[i].move = 0
    BY <1>3, <1>6
  <2>3. \A i \in 1..Cardinality(S) : new[i].job = vm[originals[i]].job
    BY <1>3, <1>6a
  <2>4. \A i \in 1..Cardinality(S) : \E w \in S : new[i].job = vm[w].job
    BY <1>3, <2>3
  <2> QED  BY <1>3, <2>1, <2>2, <2>4
<1> HIDE DEF new
<1>10. /\ vm' \in Seq(VMRecord)
       /\ Len(vm') = Len(vm) + Cardinality(S)
       /\ \A i \in 1..(Len(vm) + Cardinality(S)) :
            vm'[i] = IF i <= Len(vm) THEN old[i] ELSE new[i - Len(vm)]
  BY <1>7, <1>8, <1>9, ConcatProperties
<1>11. \A v \in VMs : vm'[v] = old[v]
  BY <1>1, <1>3, <1>10 DEF VMs
<1>12. \A v \in (Len(vm) + 1)..Len(vm') :
         vm'[v].job \in Jobs /\ vm'[v].move = 0 /\ \E w \in S : vm'[v].job = vm[w].job
  <2> TAKE v \in (Len(vm) + 1)..Len(vm')
  <2>1. v - Len(vm) \in 1..Len(new) /\ vm'[v] = new[v - Len(vm)]
    BY <1>1, <1>3, <1>9, <1>10
  <2> QED  BY <2>1, <1>9
<1>13. /\ running' = [running EXCEPT ![t] = @ \cup (Len(vm) + 1)..Len(vm')]
       /\ reassigned' = reassigned \ S
  BY <1>10 DEF CopyVMs
<1> QED  BY <1>1, <1>3, <1>5, <1>10, <1>11, <1>12, <1>13 DEF Copied

-----------------------------------------------------------------------------
(* The invariant of the VM objects.  Its parts are those of HeldOnce, those *)
(* of MoveNeverMissed, and what keeps these: when the clock is about to    *)
(* advance all moves end later than now.                                   *)
Once ==
  /\ IsInjective(qWaitingVMs)
  /\ \A s, t \in Servers :
       /\ running[s] \cap finished[t] = {}
       /\ s # t => running[s] \cap running[t] = {} /\ finished[s] \cap finished[t] = {}
  /\ \A s \in Servers : InQueue \cap (running[s] \cup finished[s]) = {}

QueueStays == \A v \in InQueue \ reassigned : vm[v].move = 0

MovesKept ==
  \A s \in Servers : \A v \in running[s] \ reassigned :
    vm[v].move # 0 => s \in isMigrating /\ clock <= vm[v].move

MovesAhead ==
  pc = "powered" =>
    \A s \in Servers : \A v \in running[s] \ reassigned :
      vm[v].move # 0 => clock < vm[v].move

VMInv ==
  /\ VMTypeOK
  /\ Once
  /\ Alive
  /\ QueueStays
  /\ MovesKept
  /\ MovesAhead

LEMMA Containers ==
  ASSUME VMTypeOK
  PROVE  /\ vm \in Seq(VMRecord) /\ Len(vm) \in Nat /\ VMs = 1..Len(vm)
         /\ qWaitingVMs \in Seq(VMs) /\ InQueue \subseteq VMs
         /\ running \in [Servers -> SUBSET VMs]
         /\ finished \in [Servers -> SUBSET VMs]
         /\ reassigned \subseteq VMs
         /\ \A v : Held(v) => v \in VMs
         /\ \A v \in VMs : vm[v] \in VMRecord
<1>1. vm \in Seq(VMRecord) /\ Len(vm) \in Nat /\ VMs = 1..Len(vm)
  BY DEF VMTypeOK, VMs
<1>2. /\ qWaitingVMs \in Seq(VMs)
      /\ running \in [Servers -> SUBSET VMs]
      /\ finished \in [Servers -> SUBSET VMs] /\ reassigned \subseteq VMs
  BY DEF VMTypeOK
<1>3. InQueue \subseteq VMs
  BY <1>2 DEF InQueue, ToSet
<1>4. \A v : Held(v) => v \in VMs
  BY <1>2, <1>3 DEF Held
<1>5. \A v \in VMs : vm[v] \in VMRecord
  BY <1>1
<1> QED  BY <1>1, <1>2, <1>3, <1>4, <1>5

LEMMA InvHeldOnce == VMInv => HeldOnce
<1> SUFFICES ASSUME VMInv  PROVE HeldOnce
  OBVIOUS
<1>1. Live(Freed.job) = {}
  <2>1. \A v \in VMs : Held(v) => vm[v].job # 0
    BY JobAssumption DEF VMInv, Alive
  <2>2. \A v \in Live(0) : Held(v) /\ vm[v].job = 0
    BY DEF Live, Held
  <2> QED  BY <2>1, <2>2, Containers DEF VMInv, Freed
<1> QED  BY <1>1 DEF VMInv, Once, HeldOnce

LEMMA InitVMInv == Init => VMInv
<1> SUFFICES ASSUME Init  PROVE VMInv
  OBVIOUS
<1>1. InQueue = {}
  BY DEF Init, InQueue, ToSet
<1>2. VMTypeOK
  BY DEF Init, VMTypeOK, VMs
<1> QED  BY <1>1, <1>2 DEF Init, VMInv, Once, Alive, Held, QueueStays, MovesKept,
         MovesAhead, IsInjective

-----------------------------------------------------------------------------
(* Steps that leave the VMs alone. *)
LEMMA MachinesKept ==
  ASSUME VMInv, UNCHANGED machines
  PROVE  Once' /\ Alive' /\ QueueStays'
  BY DEF VMInv, machines, Once, Alive, Held, QueueStays, InQueue, VMs

LEMMA QuietInv ==
  ASSUME VMInv,
         InsertJobs \/ JobQueueDrained \/ EndAssign \/ FinishedVMsDeleted \/ UNCHANGED vars
  PROVE  VMInv'
<1> USE DEF InsertJobs, JobQueueDrained, EndAssign, FinishedVMsDeleted, vars, machines,
        queues, power, VMInv
<1>1. UNCHANGED machines
  OBVIOUS
<1>2. VMTypeOK'
  BY DEF VMTypeOK, VMs
<1>3. MovesKept' /\ MovesAhead'
  BY DEF MovesKept, MovesAhead
<1> QED  BY <1>1, <1>2, <1>3, MachinesKept

(* A server with VMs goes on migrating: only servers that do not are       *)
(* powered on or off by these steps.                                       *)
LEMMA PowerKeepsMigrating ==
  ASSUME Proved!IInv, PowerStep
  PROVE  isMigrating' = isMigrating /\ pc' # "powered" /\ clock' = clock
<1>1. /\ Pool!OneMode
      /\ \A s \in Servers : serversPowerOFF[s] > 0 => s \in isOFF
  <2>1. \A s \in Servers : serversPowerOFF[s] > 0 => s \in isOFF
    BY DEF Proved!IInv, Proved!ListsMatchFlags, Proved!Lists
  <2> QED  BY <2>1, PoolFacts
<1> USE DEF Pool!flags, Pool!vectors, Pool!pass
<1>2. CASE \E s \in Servers : Pool!ServerPowerON(s)
  BY <1>1, <1>2 DEF Pool!ServerPowerON, Pool!TurnON, Pool!OneMode, Pool!Dormant
<1>3. CASE Pool!ServerPowerONDone
  BY <1>3 DEF Pool!ServerPowerONDone
<1>4. CASE Pool!PoliceLowUtilization \/ Pool!EndLowUtilization
  BY <1>4 DEF Pool!PoliceLowUtilization, Pool!EndLowUtilization
<1>5. CASE Pool!PoliceHighTemperature \/ Pool!EndHighTemperature
  BY <1>5 DEF Pool!PoliceHighTemperature, Pool!EndHighTemperature
<1>6. CASE Pool!PoliceIdle
  BY <1>6 DEF Pool!PoliceIdle, Pool!IdleServers, Pool!Active, Pool!TurnOFF
<1>7. CASE Pool!PowerOFFDC
  BY <1>7 DEF Pool!PowerOFFDC, Pool!Candidates, Pool!TurnOFF
<1>8. CASE Pool!PowerOFFDCFillPool \/ Pool!PowerOFFDCOutOfRange
  BY <1>8 DEF Pool!PowerOFFDCFillPool, Pool!PowerOFFDCOutOfRange
<1> QED  BY <1>2, <1>3, <1>4, <1>5, <1>6, <1>7, <1>8 DEF PowerStep

LEMMA PowerInv ==
  ASSUME Proved!IInv, VMInv, PowerStep
  PROVE  VMInv'
<1>1. UNCHANGED machines /\ UNCHANGED queues /\ UNCHANGED stage
  BY DEF PowerStep
<1>2. VMTypeOK'
  BY <1>1 DEF VMInv, VMTypeOK, VMs, machines, queues
<1>3. MovesKept' /\ MovesAhead'
  BY <1>1, PowerKeepsMigrating DEF VMInv, MovesKept, MovesAhead, machines
<1> QED  BY <1>1, <1>2, <1>3, MachinesKept DEF VMInv

LEMMA FinishPowerOnInv ==
  ASSUME Proved!IInv, VMInv, FinishPowerOn
  PROVE  VMInv'
<1>1. UNCHANGED machines /\ UNCHANGED queues /\ stage' = "collect"
  BY DEF FinishPowerOn
<1>2. VMTypeOK'
  BY <1>1 DEF VMInv, VMTypeOK, VMs, machines, queues
<1>3. /\ pc = "powered" /\ pc' = "reassign" /\ clock \in Nat /\ clock' = clock + 1
      /\ isMigrating' = isMigrating
  BY PoolFacts, TimeAssumption DEF FinishPowerOn, Pool!FinishPowerOn, Pool!TypeOK
<1>4. \A s \in Servers : \A v \in running[s] : vm[v].move \in Nat
  <2> TAKE s \in Servers
  <2> TAKE v \in running[s]
  <2>1. v \in VMs /\ vm[v] \in VMRecord
    BY Containers DEF VMInv
  <2> QED  BY <2>1 DEF VMRecord
<1>5. MovesKept' /\ MovesAhead'
  BY <1>1, <1>3, <1>4 DEF VMInv, MovesKept, MovesAhead, machines
<1> QED  BY <1>1, <1>2, <1>5, MachinesKept DEF VMInv

-----------------------------------------------------------------------------
(* A job is a number, so a set of jobs has a smallest one. *)
LEMMA SmallestJob ==
  ASSUME NEW T, T \subseteq Jobs, T # {}
  PROVE  (CHOOSE i \in T : \A k \in T : i <= k) \in T
<1> DEFINE Less == {ss \in Nat \X Nat : ss[1] < ss[2]}
<1>1. T \subseteq Nat
  BY JobAssumption
<1>2. IsWellFoundedOn(Less, Nat)
  BY NatLessThanWellFounded DEF OpToRel
<1>3. PICK i \in T : \A k \in T : <<k, i>> \notin Less
  <2> HIDE DEF Less
  <2> QED  BY <1>1, <1>2, WFMin
<1>4. \A k \in T : i <= k
  <2> TAKE k \in T
  <2>1. i \in Nat /\ k \in Nat /\ ~ (k < i)
    BY <1>1, <1>3
  <2> QED  BY <2>1
<1> QED  BY <1>4

LEMMA FunctionIsSeq ==
  ASSUME NEW n \in Nat, NEW S, NEW f \in [1..n -> S]
  PROVE  f \in Seq(S) /\ Len(f) = n
  OBVIOUS

LEMMA TakeFirstInv ==
  ASSUME VMInv, TakeFirst
  PROVE  VMInv'
<1> DEFINE j == CHOOSE i \in mapSingleJob : \A k \in mapSingleJob : i <= k
           n == numCPUs[j]
           made == [i \in 1..n |-> VirtualMachine(j, 2 * runTimeSec[j], FALSE)]
           new == [i \in 1..n |-> Len(vm) + i]
<1>1. j \in mapSingleJob /\ j \in Jobs
  <2>1. mapSingleJob \subseteq Jobs /\ mapSingleJob # {}
    BY DEF TakeFirst, VMInv, VMTypeOK
  <2>2. j \in mapSingleJob
    BY <2>1, SmallestJob
  <2> QED  BY <2>1, <2>2
<1> HIDE DEF j
<1>2. n \in Nat /\ 2 * runTimeSec[j] \in Nat
  <2>1. runTimeSec[j] \in Nat /\ numCPUs[j] \in Nat
    BY <1>1, JobAssumption
  <2> QED  BY <2>1
<1>3. /\ mapSingleJob' = mapSingleJob \ {j}
      /\ mapRunningSingleJob' = mapRunningSingleJob \cup {j}
      /\ vm' = vm \o made /\ qWaitingVMs' = qWaitingVMs \o new
      /\ UNCHANGED <<clock, pc, stage, power, pass, running, finished, reassigned,
                     unsubmitted, vFinishedJobID, finishedVMs>>
  BY DEF TakeFirst, j
<1> HIDE DEF n
<1>4. /\ made \in Seq(VMRecord) /\ Len(made) = n
      /\ \A i \in 1..n : made[i].job = j /\ made[i].move = 0
  <2>1. VirtualMachine(j, 2 * runTimeSec[j], FALSE) \in VMRecord
    BY <1>1, <1>2 DEF VirtualMachine, VMRecord
  <2>2. made \in [1..n -> VMRecord]
    BY <2>1
  <2>3. \A i \in 1..n : made[i].job = j /\ made[i].move = 0
    BY DEF VirtualMachine
  <2>4. made \in Seq(VMRecord) /\ Len(made) = n
    BY ONLY <1>2, <2>2, FunctionIsSeq
  <2> QED  BY <2>3, <2>4
<1> HIDE DEF made
<1>0. /\ vm \in Seq(VMRecord) /\ Len(vm) \in Nat /\ VMs = 1..Len(vm)
      /\ qWaitingVMs \in Seq(VMs)
      /\ running \in [Servers -> SUBSET VMs]
      /\ finished \in [Servers -> SUBSET VMs] /\ reassigned \subseteq VMs
  BY Containers DEF VMInv
<1> USE <1>0 DEF VMInv
<1>5. /\ vm' \in Seq(VMRecord) /\ Len(vm') = Len(vm) + n
      /\ \A i \in 1..(Len(vm) + n) :
           vm'[i] = IF i <= Len(vm) THEN vm[i] ELSE made[i - Len(vm)]
  BY <1>3, <1>4, ConcatProperties
<1>6. /\ VMs' = 1..(Len(vm) + n) /\ VMs \subseteq VMs'
      /\ \A v \in VMs : vm'[v] = vm[v]
  BY <1>2, <1>5 DEF VMs
<1>7. \A v \in VMs' \ VMs : vm'[v].job = j /\ vm'[v].move = 0
  <2> TAKE v \in VMs' \ VMs
  <2>1. v - Len(vm) \in 1..n /\ vm'[v] = made[v - Len(vm)]
    BY <1>2, <1>5, <1>6
  <2> QED  BY <2>1, <1>4
<1>8. new \in Seq(VMs') /\ Len(new) = n
  <2>1. new \in [1..n -> VMs']
    BY <1>2, <1>6
  <2> QED  BY ONLY <1>2, <2>1, FunctionIsSeq
<1>9. /\ qWaitingVMs' \in Seq(VMs') /\ Len(qWaitingVMs) \in Nat
      /\ Len(qWaitingVMs') = Len(qWaitingVMs) + n
      /\ \A i \in 1..(Len(qWaitingVMs) + n) :
           qWaitingVMs'[i] = IF i <= Len(qWaitingVMs) THEN qWaitingVMs[i]
                             ELSE Len(vm) + (i - Len(qWaitingVMs))
  <2>1. qWaitingVMs \in Seq(VMs')
    BY <1>6, SeqMonotonic
  <2>2. \A i \in (Len(qWaitingVMs) + 1)..(Len(qWaitingVMs) + n) :
          new[i - Len(qWaitingVMs)] = Len(vm) + (i - Len(qWaitingVMs))
    BY <1>2
  <2>3. Len(qWaitingVMs) \in Nat /\ qWaitingVMs' = qWaitingVMs \o new
    BY <1>3, <2>1
  <2> HIDE DEF new
  <2>4. /\ qWaitingVMs' \in Seq(VMs')
        /\ Len(qWaitingVMs') = Len(qWaitingVMs) + n
        /\ \A i \in 1..(Len(qWaitingVMs) + n) :
             qWaitingVMs'[i] = IF i <= Len(qWaitingVMs) THEN qWaitingVMs[i]
                               ELSE new[i - Len(qWaitingVMs)]
    BY ONLY <1>8, <2>1, <2>3, ConcatProperties
  <2> QED  BY ONLY <1>2, <2>2, <2>3, <2>4
<1> HIDE DEF new
<1>10. InQueue' \subseteq InQueue \cup (VMs' \ VMs)
  <2>1. SUFFICES ASSUME NEW i \in 1..(Len(qWaitingVMs) + n)
                 PROVE  qWaitingVMs'[i] \in InQueue \cup (VMs' \ VMs)
    BY <1>2, <1>9 DEF InQueue, ToSet
  <2>2. CASE i <= Len(qWaitingVMs)
    BY <1>9, <2>2 DEF InQueue, ToSet
  <2>3. CASE i > Len(qWaitingVMs)
    BY <1>2, <1>6, <1>9, <2>3
  <2> QED  BY <1>9, <2>2, <2>3
<1>11. IsInjective(qWaitingVMs')
  <2>1. DOMAIN qWaitingVMs' = 1..(Len(qWaitingVMs) + n)
    BY <1>2, <1>9
  <2>2. \A a, b \in 1..Len(qWaitingVMs) : qWaitingVMs[a] = qWaitingVMs[b] => a = b
    BY DEF Once, IsInjective
  <2>3. \A a \in 1..Len(qWaitingVMs) : qWaitingVMs[a] \in 1..Len(vm)
    OBVIOUS
  <2>4. ASSUME NEW a \in 1..(Len(qWaitingVMs) + n), NEW b \in 1..(Len(qWaitingVMs) + n),
               qWaitingVMs'[a] = qWaitingVMs'[b]
        PROVE  a = b
    <3>1. CASE a <= Len(qWaitingVMs) /\ b <= Len(qWaitingVMs)
      BY ONLY <1>2, <1>9, <2>2, <2>4, <3>1
    <3>2. CASE a > Len(qWaitingVMs) /\ b > Len(qWaitingVMs)
      BY ONLY <1>0, <1>2, <1>9, <2>4, <3>2
    <3>3. CASE a <= Len(qWaitingVMs) /\ b > Len(qWaitingVMs)
      <4>1. qWaitingVMs'[a] \in 1..Len(vm) /\ qWaitingVMs'[b] > Len(vm)
        BY ONLY <1>0, <1>2, <1>9, <2>3, <3>3
      <4> QED  BY ONLY <1>0, <2>4, <4>1
    <3>4. CASE a > Len(qWaitingVMs) /\ b <= Len(qWaitingVMs)
      <4>1. qWaitingVMs'[b] \in 1..Len(vm) /\ qWaitingVMs'[a] > Len(vm)
        BY ONLY <1>0, <1>2, <1>9, <2>3, <3>4
      <4> QED  BY ONLY <1>0, <2>4, <4>1
    <3> QED  BY ONLY <1>2, <1>9, <3>1, <3>2, <3>3, <3>4
  <2> QED  BY <2>1, <2>4 DEF IsInjective
<1>12. Once'
  BY <1>3, <1>10, <1>11 DEF Once
<1>13. Alive' /\ QueueStays'
  <2>1. \A v \in VMs : Held(v)' => Held(v)
    BY ONLY <1>3, <1>10 DEF Held
  <2>2. \A v \in VMs : v \in InQueue' => v \in InQueue
    BY ONLY <1>10
  <2>3. InQueue' \subseteq VMs'
    BY <1>6, <1>10, Containers
  <2> QED  BY <1>1, <1>3, <1>6, <1>7, <2>1, <2>2, <2>3 DEF Alive, QueueStays
<1>14. MovesKept' /\ MovesAhead'
  BY <1>3, <1>6 DEF MovesKept, MovesAhead, power
<1>15. VMTypeOK'
  BY <1>1, <1>3, <1>5, <1>6, <1>9 DEF VMTypeOK
<1> QED  BY <1>12, <1>13, <1>14, <1>15

-----------------------------------------------------------------------------
(* The head of the queue occurs once, so it leaves the queue. *)
LEMMA HeadLeaves ==
  ASSUME VMInv, NEW s \in Servers, GiveHeadTo(s)
  PROVE  /\ Head(qWaitingVMs) \in InQueue
         /\ InQueue' = InQueue \ {Head(qWaitingVMs)}
         /\ qWaitingVMs' \in Seq(VMs)
         /\ IsInjective(qWaitingVMs')
         /\ running' = [running EXCEPT ![s] = @ \cup {Head(qWaitingVMs)}]
<1> DEFINE q == qWaitingVMs
<1>1. /\ q \in Seq(VMs) /\ q # <<>> /\ qWaitingVMs' = Tail(q)
      /\ running' = [running EXCEPT ![s] = @ \cup {Head(q)}]
      /\ IsInjective(q)
  BY Containers DEF GiveHeadTo, VMInv, Once
<1>2. /\ Tail(q) \in Seq(VMs) /\ Len(Tail(q)) = Len(q) - 1 /\ Len(q) \in Nat \ {0}
      /\ Head(q) = q[1]
      /\ \A i \in 1..Len(Tail(q)) : Tail(q)[i] = q[i + 1]
  BY <1>1, HeadTailProperties, EmptySeq
<1>3. DOMAIN q = 1..Len(q) /\ DOMAIN Tail(q) = 1..(Len(q) - 1)
  BY <1>1, <1>2
<1>4. \A a, b \in 1..Len(q) : q[a] = q[b] => a = b
  BY <1>1, <1>3 DEF IsInjective
<1> HIDE DEF q
<1>5. \A i \in 1..(Len(q) - 1) : i + 1 \in 1..Len(q) /\ i + 1 # 1 /\ Tail(q)[i] = q[i + 1]
  BY ONLY <1>2
<1>6. IsInjective(Tail(q))
  <2>1. \A a, b \in 1..(Len(q) - 1) : a + 1 = b + 1 => a = b
    BY ONLY <1>2
  <2> QED  BY ONLY <1>3, <1>4, <1>5, <2>1 DEF IsInjective
<1>7. \A k \in 1..Len(q) : k # 1 => \E i \in 1..(Len(q) - 1) : Tail(q)[i] = q[k]
  <2> TAKE k \in 1..Len(q)
  <2> HAVE k # 1
  <2>1. k - 1 \in 1..(Len(q) - 1) /\ (k - 1) + 1 = k
    BY ONLY <1>2, k \in 1..Len(q), k # 1
  <2>2. Tail(q)[k - 1] = q[(k - 1) + 1]
    BY ONLY <1>5, <2>1
  <2> QED  BY ONLY <2>1, <2>2
<1>8. 1 \in 1..Len(q)
  BY ONLY <1>2
<1>9. ToSet(Tail(q)) = ToSet(q) \ {q[1]}
  <2> DEFINE m == Len(q)
             tail == Tail(q)
  <2>1. /\ ToSet(q) = {q[k] : k \in 1..m}
        /\ ToSet(tail) = {tail[i] : i \in 1..(m - 1)}
    BY ONLY <1>3 DEF ToSet
  <2> HIDE DEF tail, m
  <2>2. \A i \in 1..(m - 1) : tail[i] = q[i + 1] /\ q[i + 1] # q[1]
    BY ONLY <1>4, <1>5, <1>8 DEF tail, m
  <2>3. ASSUME NEW i \in 1..(m - 1)
        PROVE  tail[i] \in ToSet(q) \ {q[1]}
    <3>1. m \in Nat
      BY ONLY <1>2 DEF m
    <3>2. i + 1 \in 1..m
      BY ONLY <3>1, i \in 1..(m - 1)
    <3>3. tail[i] = q[i + 1] /\ q[i + 1] # q[1]
      BY ONLY <2>2, i \in 1..(m - 1)
    <3>4. q[i + 1] \in ToSet(q)
      BY ONLY <2>1, <3>2
    <3> QED  BY ONLY <3>3, <3>4
  <2>4. \A k \in 1..m : k # 1 => q[k] \in {tail[i] : i \in 1..(m - 1)}
    BY ONLY <1>7 DEF m, tail
  <2>5. \A k \in 1..m : q[k] # q[1] => q[k] \in ToSet(tail)
    BY ONLY <2>1, <2>4
  <2>6. ToSet(q) \ {q[1]} \subseteq ToSet(tail)
    BY ONLY <2>1, <2>5
  <2>7. ToSet(tail) \subseteq ToSet(q) \ {q[1]}
    BY ONLY <2>1, <2>3
  <2> QED  BY ONLY <2>6, <2>7 DEF tail
<1>10. q[1] \in ToSet(q)
  BY ONLY <1>3, <1>8 DEF ToSet
<1> QED  BY <1>1, <1>2, <1>6, <1>9, <1>10 DEF InQueue, q

LEMMA AssignInv ==
  ASSUME Proved!IInv, VMInv, NEW s \in Servers, AssignOneVM(s) \/ AssignFromPool(s)
  PROVE  VMInv'
<1> DEFINE h == Head(qWaitingVMs)
<1>1. /\ h \in InQueue /\ InQueue' = InQueue \ {h}
      /\ qWaitingVMs' \in Seq(VMs) /\ IsInjective(qWaitingVMs')
      /\ running' = [running EXCEPT ![s] = @ \cup {h}]
  BY HeadLeaves DEF AssignOneVM, AssignFromPool
<1> HIDE DEF h
<1>2. /\ UNCHANGED <<clock, pc, stage, isMigrating, vm, finished, reassigned>>
      /\ UNCHANGED queues
      /\ pc = "assign"
  BY DEF AssignOneVM, AssignFromPool, power, queues
<1>3. /\ running \in [Servers -> SUBSET VMs] /\ InQueue \subseteq VMs
      /\ finished \in [Servers -> SUBSET VMs]
  BY Containers DEF VMInv
<1>4. \A r \in Servers : running'[r] = IF r = s THEN running[r] \cup {h} ELSE running[r]
  BY <1>1, <1>3
<1>5. VMTypeOK'
  <2>1. VMs' = VMs
    BY <1>2 DEF VMs
  <2>2. running' \in [Servers -> SUBSET VMs]
    BY <1>1, <1>3
  <2> QED  BY <1>1, <1>2, <2>1, <2>2 DEF VMInv, VMTypeOK, queues
<1>6. Once'
  <2>1. \A r \in Servers : h \notin running[r] /\ h \notin finished[r]
    BY <1>1 DEF VMInv, Once
  <2> QED  BY <1>1, <1>2, <1>4, <2>1 DEF VMInv, Once
<1>7. Alive' /\ QueueStays'
  <2>1. \A v : Held(v)' => Held(v)
    BY <1>1, <1>2, <1>4 DEF Held
  <2> QED  BY <1>1, <1>2, <2>1 DEF VMInv, Alive, QueueStays, VMs
<1>8. MovesKept' /\ MovesAhead'
  <2>1. h \in reassigned \/ vm[h].move = 0
    BY <1>1 DEF VMInv, QueueStays
  <2> QED  BY <1>2, <1>4, <2>1 DEF VMInv, MovesKept, MovesAhead
<1> QED  BY <1>5, <1>6, <1>7, <1>8 DEF VMInv

-----------------------------------------------------------------------------
(* The VMs taken back stand behind those that waited, each of them once.   *)
LEMMA Requeued ==
  ASSUME VMInv, NEW taken \in SUBSET VMs, taken \cap InQueue = {},
         NEW order \in Bijection(1..Cardinality(taken), taken),
         qWaitingVMs' = qWaitingVMs \o order
  PROVE  /\ qWaitingVMs' \in Seq(VMs)
         /\ IsInjective(qWaitingVMs')
         /\ InQueue' = InQueue \cup taken
<1>1. IsFiniteSet(taken) /\ Cardinality(taken) \in Nat
  <2>1. IsFiniteSet(VMs)
    BY Containers, FS_Interval DEF VMInv
  <2>2. IsFiniteSet(taken)
    BY <2>1, FS_Subset
  <2> QED  BY <2>2, FS_CardinalityType
<1>2. PICK n \in Nat : n = Cardinality(taken)
  BY <1>1
<1>3. /\ order \in [1..n -> taken]
      /\ \A a, b \in 1..n : order[a] = order[b] => a = b
      /\ \A v \in taken : \E a \in 1..n : order[a] = v
  BY <1>2 DEF Bijection, Injection, Surjection, IsInjective
<1>4. order \in Seq(VMs) /\ Len(order) = n
  <2>1. order \in [1..n -> VMs]
    BY <1>3
  <2> QED  BY ONLY <1>2, <2>1, FunctionIsSeq
<1>5. qWaitingVMs \in Seq(VMs) /\ IsInjective(qWaitingVMs)
  BY Containers DEF VMInv, Once
<1>6. PICK m \in Nat : m = Len(qWaitingVMs)
  BY <1>5
<1>7. /\ qWaitingVMs' \in Seq(VMs) /\ Len(qWaitingVMs') = m + n
      /\ \A i \in 1..(m + n) :
           qWaitingVMs'[i] = IF i <= m THEN qWaitingVMs[i] ELSE order[i - m]
  BY <1>4, <1>5, <1>6, ConcatProperties
<1>8. DOMAIN qWaitingVMs' = 1..(m + n) /\ DOMAIN qWaitingVMs = 1..m
  BY <1>5, <1>6, <1>7
<1>9. InQueue = {qWaitingVMs[i] : i \in 1..m} /\ InQueue' = {qWaitingVMs'[i] : i \in 1..(m + n)}
  BY <1>8 DEF InQueue, ToSet
<1>10. \A a, b \in 1..m : qWaitingVMs[a] = qWaitingVMs[b] => a = b
  BY <1>5, <1>8 DEF IsInjective
<1>11. \A i \in 1..(m + n) :
         (i <= m => i \in 1..m) /\ (~ (i <= m) => i - m \in 1..n)
  BY <1>2, <1>6
<1>12. ASSUME NEW a \in 1..(m + n), NEW b \in 1..(m + n),
              qWaitingVMs'[a] = qWaitingVMs'[b]
       PROVE  a = b
  <2>1. CASE a <= m /\ b <= m
    BY <1>7, <1>10, <1>11, <1>12, <2>1
  <2>2. CASE ~ (a <= m) /\ ~ (b <= m)
    <3>1. order[a - m] = order[b - m] /\ a - m \in 1..n /\ b - m \in 1..n
      BY <1>7, <1>11, <1>12, <2>2
    <3>2. a - m = b - m
      BY <1>3, <3>1
    <3> QED  BY <1>2, <1>6, <3>2
  <2>3. CASE a <= m /\ ~ (b <= m)
    <3>1. qWaitingVMs'[a] \in InQueue /\ qWaitingVMs'[b] \in taken
      BY <1>3, <1>7, <1>9, <1>11, <2>3
    <3> QED  BY <1>12, <3>1
  <2>4. CASE ~ (a <= m) /\ b <= m
    <3>1. qWaitingVMs'[b] \in InQueue /\ qWaitingVMs'[a] \in taken
      BY <1>3, <1>7, <1>9, <1>11, <2>4
    <3> QED  BY <1>12, <3>1
  <2> QED  BY <2>1, <2>2, <2>3, <2>4
<1>13. InQueue' \subseteq InQueue \cup taken
  <2>1. \A i \in 1..(m + n) : qWaitingVMs'[i] \in InQueue \cup taken
    BY <1>3, <1>7, <1>9, <1>11
  <2> QED  BY <1>9, <2>1
<1>14. InQueue \subseteq InQueue'
  <2>1. \A i \in 1..m : i \in 1..(m + n) /\ i <= m
    BY <1>2, <1>6
  <2> QED  BY <1>7, <1>9, <2>1
<1>15. taken \subseteq InQueue'
  <2> SUFFICES ASSUME NEW v \in taken  PROVE v \in InQueue'
    OBVIOUS
  <2>1. PICK a \in 1..n : order[a] = v
    BY <1>3
  <2>2. m + a \in 1..(m + n) /\ ~ (m + a <= m) /\ (m + a) - m = a
    BY <1>2, <1>6
  <2> QED  BY <1>7, <1>9, <2>1, <2>2
<1> QED  BY <1>7, <1>8, <1>12, <1>13, <1>14, <1>15 DEF IsInjective

(* What REASSIGN_VMS does to the containers: the VMs of the servers that   *)
(* are not off leave them for the queue.                                   *)
LEMMA TakenBack ==
  ASSUME VMInv, ReassignVMs, Reassigned
  PROVE  \E taken \in SUBSET VMs :
           /\ \A s \in Servers : \/ running[s] \subseteq taken /\ running'[s] = {}
                                 \/ running[s] \cap taken = {} /\ running'[s] = running[s]
           /\ \A v \in taken : \E s \in Servers : v \in running[s]
           /\ running' \in [Servers -> SUBSET VMs]
           /\ qWaitingVMs' \in Seq(VMs) /\ IsInjective(qWaitingVMs')
           /\ InQueue' = InQueue \cup taken
           /\ reassigned' = reassigned \cup {v \in taken : vm[v].move # 0}
<1> DEFINE taken == UNION {TakeAVM(s) : s \in Servers}
<1>1. /\ running \in [Servers -> SUBSET VMs]
      /\ \A s \in Servers : TakeAVM(s) \subseteq running[s]
      /\ \A s, t \in Servers : s # t => running[s] \cap running[t] = {}
      /\ \A s \in Servers : InQueue \cap running[s] = {}
  BY Containers DEF VMInv, Once, TakeAVM
<1>2. taken \in SUBSET VMs /\ taken \cap InQueue = {}
  BY <1>1
<1>3. /\ running' = [s \in Servers |-> running[s] \ TakeAVM(s)]
      /\ \E order \in Bijection(1..Cardinality(taken), taken) :
           qWaitingVMs' = qWaitingVMs \o order
      /\ reassigned' = reassigned \cup {v \in taken : vm[v].move # 0}
  BY DEF ReassignVMs, ReturnIsMove
<1>4. \A s \in Servers : \/ running[s] \subseteq taken /\ running'[s] = {}
                         \/ running[s] \cap taken = {} /\ running'[s] = running[s]
  <2> TAKE s \in Servers
  <2>1. CASE s \in isOFF
    <3>1. TakeAVM(s) = {}
      BY <2>1 DEF TakeAVM
    <3>2. \A t \in Servers : running[s] \cap TakeAVM(t) = {}
      BY <1>1, <3>1
    <3> QED  BY <1>3, <3>1, <3>2
  <2>2. CASE s \notin isOFF
    <3>1. TakeAVM(s) = running[s]
      BY <2>2 DEF TakeAVM
    <3> QED  BY <1>3, <3>1
  <2> QED  BY <2>1, <2>2
<1>5. \A v \in taken : \E s \in Servers : v \in running[s]
  BY <1>1
<1>6. running' \in [Servers -> SUBSET VMs]
  BY <1>1, <1>3
<1> HIDE DEF taken
<1>7. /\ qWaitingVMs' \in Seq(VMs) /\ IsInjective(qWaitingVMs')
      /\ InQueue' = InQueue \cup taken
  BY <1>2, <1>3, Requeued
<1> QED  BY <1>2, <1>3, <1>4, <1>5, <1>6, <1>7

LEMMA ReassignInv ==
  ASSUME VMInv, ReassignVMs
  PROVE  VMInv'
<1>1. /\ UNCHANGED <<clock, stage, isMigrating, vm, finished>> /\ UNCHANGED queues
      /\ pc' = "assign" /\ VMs' = VMs
  BY DEF ReassignVMs, power, VMs
<1>2. CASE Reassigned
  <2>1. PICK taken \in SUBSET VMs :
          /\ \A s \in Servers : \/ running[s] \subseteq taken /\ running'[s] = {}
                                \/ running[s] \cap taken = {} /\ running'[s] = running[s]
          /\ \A v \in taken : \E s \in Servers : v \in running[s]
          /\ running' \in [Servers -> SUBSET VMs]
          /\ qWaitingVMs' \in Seq(VMs) /\ IsInjective(qWaitingVMs')
          /\ InQueue' = InQueue \cup taken
          /\ reassigned' = reassigned \cup {v \in taken : vm[v].move # 0}
    BY <1>2, TakenBack
  <2>2. VMTypeOK'
    BY <1>1, <2>1 DEF VMInv, VMTypeOK, queues
  <2>3. \A s \in Servers : running'[s] \subseteq running[s] /\ running'[s] \cap taken = {}
    BY <2>1
  <2>4. Once'
    <3>1. /\ \A s, t \in Servers :
               /\ running[s] \cap finished[t] = {}
               /\ s # t => running[s] \cap running[t] = {} /\ finished[s] \cap finished[t] = {}
          /\ \A s \in Servers : InQueue \cap (running[s] \cup finished[s]) = {}
      BY DEF VMInv, Once
    <3>2. \A s \in Servers : taken \cap finished[s] = {}
      BY <2>1, <3>1
    <3>3. \A s, t \in Servers :
            /\ running'[s] \cap finished'[t] = {}
            /\ s # t => running'[s] \cap running'[t] = {} /\ finished'[s] \cap finished'[t] = {}
      BY <1>1, <2>3, <3>1
    <3>4. \A s \in Servers : InQueue' \cap (running'[s] \cup finished'[s]) = {}
      BY <1>1, <2>1, <2>3, <3>1, <3>2
    <3> QED  BY <2>1, <3>3, <3>4 DEF Once
  <2>5. Alive'
    <3>1. \A v : Held(v)' => Held(v)
      BY <1>1, <2>1, <2>3 DEF Held
    <3> QED  BY <1>1, <3>1 DEF VMInv, Alive
  <2>6. QueueStays'
    BY <1>1, <2>1 DEF VMInv, QueueStays
  <2>7. MovesKept' /\ MovesAhead'
    BY <1>1, <2>1, <2>3 DEF VMInv, MovesKept, MovesAhead
  <2> QED  BY <2>2, <2>4, <2>5, <2>6, <2>7 DEF VMInv
<1>3. CASE ~ Reassigned
  <2>1. UNCHANGED machines
    BY <1>1, <1>3 DEF ReassignVMs, machines
  <2>2. VMTypeOK'
    BY <1>1, <2>1 DEF VMInv, VMTypeOK, queues, machines
  <2>3. MovesKept' /\ MovesAhead'
    BY <1>1, <2>1 DEF VMInv, MovesKept, MovesAhead, machines
  <2> QED  BY <2>1, <2>2, <2>3, MachinesKept DEF VMInv
<1> QED  BY <1>2, <1>3

-----------------------------------------------------------------------------
LEMMA MigrateInv ==
  ASSUME Proved!IInv, VMInv, NEW s \in Servers, NEW t \in Servers,
         MigrateToServer(s, t) \/ MigrateToPool(s, t)
  PROVE  VMInv'
<1>1. \E S \in SUBSET running[s] : \E b \in BOOLEAN : CopyVMs(S, t, b)
  <2>1. GetALLVMs(s) \in SUBSET running[s]
    BY DEF GetALLVMs
  <2>2. \A n : GetNVMs(s, n) \subseteq SUBSET running[s]
    BY DEF GetNVMs
  <2> QED  BY <2>1, <2>2 DEF MigrateToServer, MigrateToPool
<1>2. PICK S \in SUBSET running[s], b \in BOOLEAN : CopyVMs(S, t, b)
  BY <1>1
<1>3. clock \in Nat
  BY PoolFacts, TimeAssumption DEF Pool!TypeOK
<1>4. /\ UNCHANGED <<clock, pc, stage, qWaitingVMs, finished>>
      /\ UNCHANGED queues
      /\ pc # "powered" /\ isMigrating' = isMigrating \cup {s}
  BY DEF MigrateToServer, MigrateToPool
<1>5. /\ vm' \in Seq(VMRecord)
      /\ Len(vm) \in Nat /\ Len(vm') \in Nat /\ Len(vm) <= Len(vm')
      /\ \A v \in VMs : /\ vm'[v].job = vm[v].job
                        /\ vm'[v].move = IF v \in S THEN clock + TRANSFER_TIME_VMS
                                                   ELSE vm[v].move
      /\ \A v \in (Len(vm) + 1)..Len(vm') :
           vm'[v].job \in Jobs /\ vm'[v].move = 0
      /\ running' = [running EXCEPT ![t] = @ \cup (Len(vm) + 1)..Len(vm')]
      /\ reassigned' = reassigned \ S
  <2>1. VMTypeOK /\ Alive
    BY DEF VMInv
  <2> HIDE DEF VMInv
  <2>2. Copied(S, t)
    BY <1>2, <1>3, <2>1, CopiesMade
  <2> QED  BY <2>2 DEF Copied
<1> DEFINE copies == (Len(vm) + 1)..Len(vm')
<1>6. /\ VMs' = VMs \cup copies /\ VMs \cap copies = {}
      /\ \A v \in copies : vm'[v].job \in Jobs /\ vm'[v].move = 0
      /\ running' = [running EXCEPT ![t] = @ \cup copies]
      /\ reassigned' = reassigned \ S
  <2>1. VMs = 1..Len(vm) /\ VMs' = 1..Len(vm')
    BY DEF VMs
  <2>2. VMs' = VMs \cup copies /\ VMs \cap copies = {}
    BY ONLY <1>5, <2>1
  <2> QED  BY ONLY <1>5, <2>2
<1> HIDE DEF copies
<1>7. /\ running \in [Servers -> SUBSET VMs] /\ InQueue \subseteq VMs
      /\ finished \in [Servers -> SUBSET VMs] /\ qWaitingVMs \in Seq(VMs)
      /\ reassigned \subseteq VMs /\ InQueue' = InQueue
  BY <1>4, Containers DEF VMInv, InQueue
<1>8. \A r \in Servers : running'[r] = IF r = t THEN running[r] \cup copies ELSE running[r]
  BY <1>6, <1>7
<1>9. VMTypeOK'
  <2>1. running' \in [Servers -> SUBSET VMs'] /\ finished' \in [Servers -> SUBSET VMs']
    BY <1>4, <1>6, <1>7
  <2>2. qWaitingVMs' \in Seq(VMs')
    BY <1>4, <1>6, <1>7, SeqMonotonic
  <2>3. reassigned' \subseteq VMs'
    BY <1>6, <1>7
  <2> QED  BY <1>4, <1>5, <2>1, <2>2, <2>3 DEF VMInv, VMTypeOK, queues
<1>10. Once'
  <2>1. \A r \in Servers : /\ copies \cap running[r] = {}
                          /\ copies \cap finished[r] = {}
    BY <1>6, <1>7
  <2>2. copies \cap InQueue = {}
    BY <1>6, <1>7
  <2>3. /\ IsInjective(qWaitingVMs)
        /\ \A r, u \in Servers :
             /\ running[r] \cap finished[u] = {}
             /\ r # u => running[r] \cap running[u] = {} /\ finished[r] \cap finished[u] = {}
        /\ \A u \in Servers : InQueue \cap (running[u] \cup finished[u]) = {}
    BY DEF VMInv, Once
  <2>4. IsInjective(qWaitingVMs')
    BY <1>4, <2>3
  <2>5. ASSUME NEW r \in Servers, NEW u \in Servers
        PROVE  /\ running'[r] \cap finished'[u] = {}
               /\ r # u => /\ running'[r] \cap running'[u] = {}
                          /\ finished'[r] \cap finished'[u] = {}
    <3>1. finished' = finished
      BY <1>4
    <3>2. running'[r] \subseteq running[r] \cup copies
      BY ONLY <1>8, r \in Servers
    <3>3. running'[r] \cap finished'[u] = {}
      BY ONLY <2>1, <2>3, <3>1, <3>2, r \in Servers, u \in Servers
    <3>4. r # u => running'[r] \cap running'[u] = {}
      BY ONLY <1>8, <2>1, <2>3, r \in Servers, u \in Servers
    <3> QED  BY ONLY <2>3, <3>1, <3>3, <3>4, r \in Servers, u \in Servers
  <2>6. ASSUME NEW u \in Servers
        PROVE  InQueue' \cap (running'[u] \cup finished'[u]) = {}
    <3>1. finished' = finished /\ InQueue' = InQueue
      BY <1>4, <1>7
    <3> QED  BY ONLY <1>8, <2>2, <2>3, <3>1, u \in Servers
  <2> QED  BY ONLY <2>4, <2>5, <2>6 DEF Once
<1>11. Alive' /\ QueueStays'
  <2>1. \A v \in VMs : Held(v)' => Held(v)
    BY <1>4, <1>6, <1>7, <1>8 DEF Held
  <2>2. Alive'
    BY <1>5, <1>6, <2>1 DEF VMInv, Alive
  <2>3. InQueue \cap S = {}
    BY DEF VMInv, Once
  <2>4. QueueStays'
    BY <1>5, <1>6, <1>7, <2>3 DEF VMInv, QueueStays
  <2> QED  BY <2>2, <2>4
<1>12. MovesKept' /\ MovesAhead'
  <2>1. ASSUME NEW r \in Servers, NEW v \in running'[r] \ reassigned', vm'[v].move # 0
        PROVE  r \in isMigrating' /\ clock' <= vm'[v].move
    <3>1. v \notin copies /\ v \in running[r] /\ v \in VMs
      BY <1>6, <1>7, <1>8, <2>1
    <3>2. CASE v \in S
      <4>1. r = s
        BY <3>1, <3>2 DEF VMInv, Once
      <4>2. clock <= clock + TRANSFER_TIME_VMS
        BY <1>3, JobAssumption
      <4> QED  BY <1>4, <1>5, <3>1, <3>2, <4>1, <4>2
    <3>3. CASE v \notin S
      <4>1. v \notin reassigned
        BY <1>6, <2>1, <3>3
      <4> QED  BY <1>4, <1>5, <2>1, <3>1, <3>3, <4>1 DEF VMInv, MovesKept
    <3> QED  BY <3>2, <3>3
  <2> QED  BY <1>4, <2>1 DEF MovesKept, MovesAhead
<1> QED  BY <1>9, <1>10, <1>11, <1>12 DEF VMInv

-----------------------------------------------------------------------------
(* VMs that leave vRunningVMs for vFinishedVMs of the same server: the set  *)
(* D[s] of each server s.                                                  *)
LEMMA ShiftOnce ==
  ASSUME VMInv, NEW D, \A s \in Servers : D[s] \subseteq running[s],
         \A s \in Servers : /\ running'[s] = running[s] \ D[s]
                           /\ finished'[s] = finished[s] \cup D[s],
         qWaitingVMs' = qWaitingVMs
  PROVE  Once' /\ InQueue' = InQueue /\ \A v : Held(v)' => Held(v)
<1>1. InQueue' = InQueue
  BY DEF InQueue
<1>2. Once'
  <2>1. ASSUME NEW s \in Servers, NEW t \in Servers
        PROVE  /\ running'[s] \cap finished'[t] = {}
               /\ s # t => /\ running'[s] \cap running'[t] = {}
                          /\ finished'[s] \cap finished'[t] = {}
    <3>1. /\ running[s] \cap finished[t] = {} /\ running[t] \cap finished[s] = {}
          /\ s # t => /\ running[s] \cap running[t] = {}
                     /\ finished[s] \cap finished[t] = {}
      BY DEF VMInv, Once
    <3> QED  BY <3>1
  <2>2. \A s \in Servers : InQueue' \cap (running'[s] \cup finished'[s]) = {}
    BY <1>1 DEF VMInv, Once
  <2>3. IsInjective(qWaitingVMs')
    BY DEF VMInv, Once
  <2> QED  BY <2>1, <2>2, <2>3 DEF Once
<1>3. \A v : Held(v)' => Held(v)
  BY <1>1 DEF Held
<1> QED  BY <1>1, <1>2, <1>3

LEMMA RunVMType ==
  ASSUME NEW x \in VMRecord, NEW s \in Servers, NEW seconds \in {1, 2}
  PROVE  /\ RunVM(x, s, seconds) \in VMRecord
         /\ RunVM(x, s, seconds).job = x.job
         /\ RunVM(x, s, seconds).move = x.move
<1>1. x.left \in Nat \cup {NaN, INT_MIN}
  BY DEF VMRecord
<1>2. CASE s \in Poisoned \/ x.left = NaN
  BY <1>2 DEF RunVM, VMRecord
<1>3. CASE ~ (s \in Poisoned \/ x.left = NaN) /\ x.left < seconds
  BY <1>3 DEF RunVM, VMRecord
<1>4. CASE ~ (s \in Poisoned \/ x.left = NaN) /\ ~ (x.left < seconds)
  <2>1. x.left - seconds \in Nat
    BY <1>1, <1>4 DEF NaN, INT_MIN
  <2> QED  BY <1>4, <2>1 DEF RunVM, VMRecord
<1> QED  BY <1>2, <1>3, <1>4

LEMMA RunInv ==
  ASSUME VMInv, RunServers
  PROVE  VMInv'
<1>1. PICK slow \in SUBSET Occupied :
        LET seconds(s) == IF s \in slow THEN 1 ELSE 2 IN
        /\ vm' = [v \in VMs |->
                    IF \E s \in Occupied : v \in running[s]
                      THEN LET s == CHOOSE s \in Occupied : v \in running[s]
                           IN  RunVM(vm[v], s, seconds(s))
                      ELSE vm[v]]
        /\ running' = [s \in Servers |-> running[s] \ Done(s, seconds(s))]
        /\ finished' = [s \in Servers |-> finished[s] \cup Done(s, seconds(s))]
  BY DEF RunServers
<1> DEFINE seconds(s) == IF s \in slow THEN 1 ELSE 2
           D == [s \in Servers |-> Done(s, seconds(s))]
<1>2. /\ \A s \in Servers : D[s] \subseteq running[s]
      /\ \A s \in Servers : /\ running'[s] = running[s] \ D[s]
                            /\ finished'[s] = finished[s] \cup D[s]
      /\ running' = [s \in Servers |-> running[s] \ D[s]]
      /\ finished' = [s \in Servers |-> finished[s] \cup D[s]]
  BY <1>1 DEF Done
<1>3. /\ UNCHANGED <<clock, stage, isMigrating, qWaitingVMs, reassigned>>
      /\ UNCHANGED queues
      /\ pc' # "powered"
  BY DEF RunServers, power
<1>4. /\ Len(vm) \in Nat /\ VMs = 1..Len(vm)
      /\ \A v \in VMs : vm[v] \in VMRecord
      /\ running \in [Servers -> SUBSET VMs]
      /\ finished \in [Servers -> SUBSET VMs]
      /\ qWaitingVMs \in Seq(VMs)
  BY Containers DEF VMInv
<1>5. \A v \in VMs : /\ vm'[v] \in VMRecord
                     /\ vm'[v].job = vm[v].job
                     /\ vm'[v].move = vm[v].move
  <2> TAKE v \in VMs
  <2>1. CASE \E s \in Occupied : v \in running[s]
    <3> DEFINE s == CHOOSE s \in Occupied : v \in running[s]
    <3>1. s \in Servers
      BY <2>1 DEF Occupied
    <3>2. vm'[v] = RunVM(vm[v], s, seconds(s))
      BY <1>1, <2>1
    <3>3. seconds(s) \in {1, 2}
      OBVIOUS
    <3> HIDE DEF s, seconds
    <3> QED  BY <1>4, <3>1, <3>2, <3>3, RunVMType
  <2>2. CASE ~ \E s \in Occupied : v \in running[s]
    BY <1>1, <1>4, <2>2
  <2> QED  BY <2>1, <2>2
<1>6. vm' \in Seq(VMRecord) /\ VMs' = VMs
  <2>1. vm' \in [1..Len(vm) -> VMRecord]
    BY <1>1, <1>4, <1>5
  <2>2. vm' \in Seq(VMRecord) /\ Len(vm') = Len(vm)
    BY ONLY <1>4, <2>1, FunctionIsSeq
  <2> QED  BY <1>4, <2>2 DEF VMs
<1> HIDE DEF D
<1>7. Once' /\ InQueue' = InQueue /\ \A v : Held(v)' => Held(v)
  BY <1>2, <1>3, ShiftOnce
<1>8. VMTypeOK'
  <2>1. running' \in [Servers -> SUBSET VMs] /\ finished' \in [Servers -> SUBSET VMs]
    BY <1>2, <1>4
  <2> QED  BY <1>3, <1>4, <1>6, <2>1 DEF VMInv, VMTypeOK, queues
<1>9. Alive' /\ QueueStays'
  <2>1. InQueue \subseteq VMs
    BY Containers DEF VMInv
  <2> QED  BY <1>3, <1>5, <1>6, <1>7, <2>1 DEF VMInv, Alive, QueueStays
<1>10. MovesKept' /\ MovesAhead'
  <2>1. ASSUME NEW s \in Servers, NEW v \in running'[s]
        PROVE  v \in running[s] /\ vm'[v].move = vm[v].move
    BY <1>2, <1>4, <1>5
  <2> QED  BY <1>3, <2>1 DEF VMInv, MovesKept, MovesAhead
<1> QED  BY <1>7, <1>8, <1>9, <1>10 DEF VMInv

LEMMA FinishMigrationsInv ==
  ASSUME Proved!IInv, VMInv, FinishMigrations
  PROVE  VMInv'
<1> DEFINE checked == isMigrating \ Pool!Dormant
           empty == {s \in checked : running[s] \subseteq Moved(s)}
           D == [s \in Servers |-> IF s \in checked THEN Moved(s) ELSE {}]
<1>1. /\ running' = [s \in Servers |->
                       IF s \in checked THEN running[s] \ Moved(s) ELSE running[s]]
      /\ finished' = [s \in Servers |->
                        IF s \in checked THEN finished[s] \cup Moved(s) ELSE finished[s]]
      /\ isMigrating' = isMigrating \ empty
      /\ UNCHANGED <<clock, stage, vm, qWaitingVMs, reassigned>> /\ UNCHANGED queues
      /\ pc = "moved"
  BY DEF FinishMigrations, Pool!TurnOFF
<1>2. /\ \A s \in Servers : D[s] \subseteq running[s]
      /\ \A s \in Servers : /\ running'[s] = running[s] \ D[s]
                            /\ finished'[s] = finished[s] \cup D[s]
      /\ running' = [s \in Servers |-> running[s] \ D[s]]
      /\ finished' = [s \in Servers |-> finished[s] \cup D[s]]
  BY <1>1 DEF Moved
<1>3. /\ Len(vm) \in Nat /\ VMs = 1..Len(vm) /\ VMs' = VMs
      /\ \A v \in VMs : vm[v] \in VMRecord
      /\ running \in [Servers -> SUBSET VMs]
      /\ finished \in [Servers -> SUBSET VMs]
      /\ isMigrating \cap Pool!Dormant = {} /\ clock \in Nat
  <2>1. isMigrating \cap Pool!Dormant = {} /\ clock \in Nat
    BY PoolFacts, TimeAssumption DEF Pool!OneMode, Pool!TypeOK
  <2> QED  BY <1>1, <2>1, Containers DEF VMInv, VMs
<1>4. MovesKept' /\ MovesAhead'
  <2>1. ASSUME NEW s \in Servers, NEW v \in running'[s] \ reassigned, vm[v].move # 0
        PROVE  s \in isMigrating' /\ clock < vm[v].move /\ clock <= vm[v].move
    <3>1. v \in running[s] /\ v \in VMs
      BY <1>2, <1>3
    <3>2. s \in isMigrating /\ clock <= vm[v].move
      BY <2>1, <3>1 DEF VMInv, MovesKept
    <3>3. s \in checked
      BY <1>3, <3>2
    <3>4. v \notin Moved(s)
      BY <1>1, <3>3
    <3>5. vm[v].move # clock
      BY <2>1, <3>1, <3>4 DEF Moved, ReturnIsMove
    <3>6. vm[v].move \in Nat
      BY <1>3, <3>1 DEF VMRecord
    <3>7. s \notin empty
      BY <3>1, <3>4
    <3> QED  BY <1>1, <1>3, <3>2, <3>5, <3>6, <3>7
  <2> QED  BY <1>1, <2>1 DEF MovesKept, MovesAhead
<1> HIDE DEF D, empty, checked
<1>5. Once' /\ InQueue' = InQueue /\ \A v : Held(v)' => Held(v)
  BY <1>1, <1>2, ShiftOnce
<1>6. VMTypeOK'
  <2>1. running' \in [Servers -> SUBSET VMs] /\ finished' \in [Servers -> SUBSET VMs]
    BY <1>2, <1>3
  <2> QED  BY <1>1, <1>3, <2>1 DEF VMInv, VMTypeOK, queues
<1>7. Alive' /\ QueueStays'
  BY <1>1, <1>3, <1>5 DEF VMInv, Alive, QueueStays
<1> QED  BY <1>4, <1>5, <1>6, <1>7 DEF VMInv

-----------------------------------------------------------------------------
LEMMA ReportInv ==
  ASSUME VMInv, NEW s \in Servers, NEW v \in VMs, ReportVM(s, v)
  PROVE  VMInv'
<1> DEFINE j == vm[v].job
<1>1. /\ v \in finished[s] /\ stage = "collect"
      /\ finished' = [finished EXCEPT ![s] = @ \ {v}]
      /\ vm' = [vm EXCEPT ![v] = Freed]
      /\ OneVMFinished(j)
      /\ UNCHANGED <<clock, pc, isMigrating, qWaitingVMs, running, reassigned,
                     unsubmitted, mapSingleJob>>
  BY DEF ReportVM, power
<1>2. /\ vm \in Seq(VMRecord) /\ Len(vm) \in Nat /\ VMs = 1..Len(vm)
      /\ qWaitingVMs \in Seq(VMs) /\ InQueue \subseteq VMs
      /\ running \in [Servers -> SUBSET VMs]
      /\ finished \in [Servers -> SUBSET VMs]
  BY Containers DEF VMInv
<1>3. j \in Jobs
  BY <1>1 DEF VMInv, Alive, Held
<1>4. /\ vm' \in Seq(VMRecord) /\ VMs' = VMs
      /\ \A w \in VMs : w # v => vm'[w] = vm[w]
  <2>1. Freed \in VMRecord
    BY DEF Freed, VMRecord
  <2>2. v \in 1..Len(vm)
    BY <1>2
  <2>3. /\ vm' \in Seq(VMRecord) /\ Len(vm') = Len(vm)
        /\ \A w \in 1..Len(vm) : vm'[w] = IF w = v THEN Freed ELSE vm[w]
    BY ONLY <1>1, <1>2, <2>1, <2>2, ExceptSeq
  <2> QED  BY <1>2, <2>3 DEF VMs
<1>5. \A r \in Servers :
        finished'[r] = IF r = s THEN finished[r] \ {v} ELSE finished[r]
  BY <1>1, <1>2
<1>6. InQueue' = InQueue
  BY <1>1 DEF InQueue
<1>7. /\ v \notin InQueue
      /\ \A r \in Servers : v \notin running[r] /\ (r # s => v \notin finished[r])
  <2>1. v \notin InQueue
    BY <1>1 DEF VMInv, Once
  <2>2. \A r \in Servers : running[r] \cap finished[s] = {}
    BY DEF VMInv, Once
  <2>3. \A r \in Servers : r # s => finished[r] \cap finished[s] = {}
    BY DEF VMInv, Once
  <2> QED  BY <1>1, <2>1, <2>2, <2>3
<1>8. Once'
  <2>1. ASSUME NEW a \in Servers, NEW b \in Servers
        PROVE  /\ running'[a] \cap finished'[b] = {}
               /\ a # b => /\ running'[a] \cap running'[b] = {}
                          /\ finished'[a] \cap finished'[b] = {}
    <3>1. /\ running[a] \cap finished[b] = {}
          /\ a # b => /\ running[a] \cap running[b] = {}
                     /\ finished[a] \cap finished[b] = {}
      BY DEF VMInv, Once
    <3> QED  BY <1>1, <1>5, <3>1
  <2>2. \A a \in Servers : InQueue' \cap (running'[a] \cup finished'[a]) = {}
    BY <1>1, <1>5, <1>6 DEF VMInv, Once
  <2>3. IsInjective(qWaitingVMs')
    BY <1>1 DEF VMInv, Once
  <2> QED  BY <2>1, <2>2, <2>3 DEF Once
<1>9. Alive' /\ QueueStays'
  <2>1. \A w \in VMs : Held(w)' => w # v /\ Held(w)
    BY <1>1, <1>5, <1>6, <1>7 DEF Held
  <2>2. Alive'
    BY <1>4, <2>1 DEF VMInv, Alive
  <2>3. QueueStays'
    BY <1>1, <1>2, <1>4, <1>6, <1>7 DEF VMInv, QueueStays
  <2> QED  BY <2>2, <2>3
<1>10. MovesKept' /\ MovesAhead'
  <2>1. \A r \in Servers : \A w \in running'[r] : w \in running[r] /\ vm'[w] = vm[w]
    BY <1>1, <1>2, <1>4, <1>7
  <2> QED  BY <1>1, <2>1 DEF VMInv, MovesKept, MovesAhead
<1>11. VMTypeOK'
  <2>1. /\ stage' \in {"collect", "undefined"}
        /\ mapRunningSingleJob' \subseteq Jobs /\ vFinishedJobID' \subseteq Jobs
        /\ finishedVMs' \in [Jobs -> Nat]
    <3>1. finishedVMs[j] + 1 \in Nat
      BY <1>3 DEF VMInv, VMTypeOK
    <3>2. /\ mapRunningSingleJob \subseteq Jobs /\ vFinishedJobID \subseteq Jobs
          /\ finishedVMs \in [Jobs -> Nat]
      BY DEF VMInv, VMTypeOK
    <3> HIDE DEF j
    <3> QED  BY <1>1, <1>3, <3>1, <3>2 DEF OneVMFinished
  <2>2. finished' \in [Servers -> SUBSET VMs]
    BY <1>1, <1>2
  <2> HIDE DEF j
  <2> QED  BY <1>1, <1>2, <1>4, <2>1, <2>2 DEF VMInv, VMTypeOK
<1> QED  BY <1>8, <1>9, <1>10, <1>11 DEF VMInv

-----------------------------------------------------------------------------
LEMMA NextVMInv ==
  ASSUME Proved!IInv, VMInv, [Next]_vars
  PROVE  VMInv'
<1>1. CASE InsertJobs \/ JobQueueDrained \/ EndAssign \/ FinishedVMsDeleted \/ UNCHANGED vars
  BY <1>1, QuietInv
<1>2. CASE TakeFirst
  BY <1>2, TakeFirstInv
<1>3. CASE \E s \in Servers : AssignOneVM(s) \/ AssignFromPool(s)
  BY <1>3, AssignInv
<1>4. CASE \E s, t \in Servers : MigrateToServer(s, t) \/ MigrateToPool(s, t)
  BY <1>4, MigrateInv
<1>5. CASE PowerStep
  BY <1>5, PowerInv
<1>6. CASE RunServers
  BY <1>6, RunInv
<1>7. CASE FinishMigrations
  BY <1>7, FinishMigrationsInv
<1>8. CASE FinishPowerOn
  BY <1>8, FinishPowerOnInv
<1>9. CASE \E s \in Servers, v \in VMs : ReportVM(s, v)
  BY <1>9, ReportInv
<1>10. CASE ReassignVMs
  BY <1>10, ReassignInv
<1> QED  BY <1>1, <1>2, <1>3, <1>4, <1>5, <1>6, <1>7, <1>8, <1>9, <1>10 DEF Next

(* Both invariants together: that of the VMs needs what is known of the    *)
(* modes, and the modes are kept by steps that the types of the VMs map to *)
(* steps of the pool.                                                      *)
LEMMA SpecInv == Spec => [](Proved!IInv /\ VMInv)
<1>1. Init => Proved!IInv /\ VMInv
  BY InitImplements, PoolInit, InitVMInv
<1>2. Proved!IInv /\ VMInv /\ [Next]_vars => (Proved!IInv /\ VMInv)'
  <2> SUFFICES ASSUME Proved!IInv, VMInv, [Next]_vars
               PROVE  Proved!IInv' /\ VMInv'
    OBVIOUS
  <2>1. [Pool!Next]_(Pool!vars)
    BY NextImplements DEF VMInv
  <2> QED  BY <2>1, PoolStepInv, NextVMInv
<1> QED  BY <1>1, <1>2, PTL DEF Spec

-----------------------------------------------------------------------------
(* DataCenter implements ServersPool: what its VMs make of the servers, the *)
(* assignments, migrations and ends of transfers that DataCenter.cpp and   *)
(* Server.cpp do VM by VM, are steps of the pool or none.                  *)
THEOREM Refinement == Spec => PoolSpec
<1>1. Init => Pool!Init
  BY InitImplements
<1>2. Proved!IInv /\ VMInv /\ [Next]_vars => [Pool!Next]_(Pool!vars)
  BY NextImplements DEF VMInv
<1> QED  BY <1>1, <1>2, SpecInv, PTL DEF Spec, PoolSpec, Pool!Spec

(* Every VM object is of its type and in one container at most: neither    *)
(* the queue and the vectors of the servers share one, nor do two servers, *)
(* nor does anything hold one that was deleted (DataCenter.cpp:335-350).   *)
THEOREM OneOwnerAlways == Spec => []OneOwner
<1>1. Proved!IInv /\ VMInv => OneOwner
  BY PoolFacts, InvHeldOnce DEF OneOwner, TypeOK, VMInv
<1> QED  BY <1>1, SpecInv, PTL

(* No VM misses the second in which its transfer ends, and none moves on a  *)
(* server that does not migrate or waits in the queue, but for those that  *)
(* REASSIGN_VMS took from their server in transfer: CheckFinishMove        *)
(* (Server.cpp) compares with ==, on migrating servers only.               *)
THEOREM MovesEndInTime == Spec => []MoveNeverMissed
<1>1. VMInv => MoveNeverMissed
  BY DEF VMInv, MovesKept, QueueStays, MoveNeverMissed, ReturnIsMove
<1> QED  BY <1>1, SpecInv, PTL

(* No VM object runs on a server that is off, pooled or booting: what is   *)
(* proved of the pool, for the VMs themselves.                             *)
THEOREM NoVMOnDormantServers ==
  Spec => [](\A s \in Servers : running[s] # {} => s \notin Pool!Dormant)
<1>1. Proved!IInv => \A s \in Servers : running[s] # {} => s \notin Pool!Dormant
  BY PoolFacts DEF Occupied
<1> QED  BY <1>1, SpecInv, PTL

-----------------------------------------------------------------------------
(* The account of the VMs of each job.  A job is inserted, then launched,  *)
(* then finished; before it is launched it has no VM object and no report. *)
(* NothingCopied compares the number of VM objects with that of the VMs of *)
(* the launched jobs, so the first is never the smaller one: a copy makes  *)
(* it the greater for good.                                                *)
Launched == Jobs \ (unsubmitted \cup mapSingleJob)

JobsApart ==
  /\ unsubmitted \cap mapSingleJob = {}
  /\ IsFiniteSet(Launched)
  /\ mapRunningSingleJob \cup vFinishedJobID = Launched

Unlaunched == \A j \in Jobs \ Launched : finishedVMs[j] = 0 /\ Live(j) = {}

Reports ==
  /\ \A j \in mapRunningSingleJob :
       /\ finishedVMs[j] < numCPUs[j]
       /\ finishedVMs[j] + Cardinality(Live(j)) >= numCPUs[j]
  /\ \A j \in vFinishedJobID : finishedVMs[j] = numCPUs[j]

Exact ==
  /\ SumFunctionOnSet(numCPUs, Launched) <= Len(vm)
  /\ SumFunctionOnSet(numCPUs, Launched) = Len(vm) =>
       /\ stage # "undefined"
       /\ \A j \in Launched : finishedVMs[j] + Cardinality(Live(j)) = numCPUs[j]

Account == JobsApart /\ Unlaunched /\ Reports /\ Exact

(* The VM objects of a job are those of it that are held. *)
LEMMA LiveIsHeld ==
  ASSUME VMTypeOK, NEW j
  PROVE  /\ Live(j) = {v \in VMs : Held(v) /\ vm[v].job = j}
         /\ IsFiniteSet(Live(j)) /\ Cardinality(Live(j)) \in Nat
<1>1. Live(j) = {v \in VMs : Held(v) /\ vm[v].job = j}
  BY Containers DEF Live, Held
<1>2. IsFiniteSet(VMs)
  BY Containers, FS_Interval
<1>3. IsFiniteSet(Live(j))
  BY <1>1, <1>2, FS_Subset
<1> QED  BY <1>1, <1>3, FS_CardinalityType

LEMMA NothingCopiedIsSum == NothingCopied <=> Len(vm) = SumFunctionOnSet(numCPUs, Launched)
  BY Zenon DEF NothingCopied, Launched, SumFunctionOnSet

LEMMA LaunchedVMs ==
  ASSUME JobsApart
  PROVE  /\ \A j \in Jobs : numCPUs[j] \in Nat \ {0}
         /\ Launched \subseteq Jobs
         /\ SumFunctionOnSet(numCPUs, Launched) \in Nat
<1>1. Launched \subseteq Jobs /\ \A j \in Jobs : numCPUs[j] \in Nat \ {0}
  BY JobAssumption DEF Launched
<1>2. \A j \in Launched : numCPUs[j] \in Nat
  BY <1>1
<1>3. SumFunctionOnSet(numCPUs, Launched) \in Nat
  BY <1>2, SumIsNat DEF JobsApart
<1> QED  BY <1>1, <1>3

LEMMA AccountHolds == VMTypeOK /\ Account => VMsAccounted
<1> SUFFICES ASSUME VMTypeOK, Account  PROVE VMsAccounted
  OBVIOUS
<1>1. \A j \in Jobs : numCPUs[j] \in Nat \ {0} /\ finishedVMs[j] \in Nat
  BY LaunchedVMs DEF VMTypeOK, Account
<1>2. vFinishedJobID = {j \in Jobs : finishedVMs[j] = numCPUs[j]}
  <2>1. vFinishedJobID \subseteq Jobs
    BY DEF VMTypeOK
  <2>2. ASSUME NEW j \in Jobs, j \notin vFinishedJobID
        PROVE  finishedVMs[j] # numCPUs[j]
    <3>1. CASE j \in mapRunningSingleJob
      BY <1>1, <3>1 DEF Account, Reports
    <3>2. CASE j \notin Launched
      BY <1>1, <3>2 DEF Account, Unlaunched
    <3> QED  BY <2>2, <3>1, <3>2 DEF Account, JobsApart
  <2> QED  BY <2>1, <2>2 DEF Account, Reports
<1>3. \A j \in mapRunningSingleJob : finishedVMs[j] + Cardinality(Live(j)) >= numCPUs[j]
  BY DEF Account, Reports
<1>4. ASSUME NothingCopied
      PROVE  /\ stage # "undefined"
             /\ \A j \in mapRunningSingleJob \cup vFinishedJobID :
                  finishedVMs[j] + Cardinality(Live(j)) = numCPUs[j]
  BY <1>4, NothingCopiedIsSum DEF Account, Exact, JobsApart
<1> QED  BY <1>2, <1>3, <1>4 DEF VMsAccounted

LEMMA InitAccount == Init => Account
<1> SUFFICES ASSUME Init  PROVE Account
  OBVIOUS
<1>1. Launched = {} /\ IsFiniteSet(Launched)
  BY FS_EmptySet DEF Init, Launched
<1>2. SumFunctionOnSet(numCPUs, Launched) = 0 /\ Len(vm) = 0
  BY <1>1, SumOfNone DEF Init
<1>3. \A j : Live(j) = {}
  BY DEF Init, Live, InQueue, ToSet
<1>4. JobsApart /\ Unlaunched /\ Reports
  BY <1>1, <1>3 DEF Init, JobsApart, Unlaunched, Reports
<1>5. Exact
  BY <1>1, <1>2 DEF Init, Exact
<1> QED  BY <1>4, <1>5 DEF Account

(* Steps that launch no job, make no VM object and let none go. *)
LEMMA AccountKept ==
  ASSUME Account,
         UNCHANGED <<mapRunningSingleJob, vFinishedJobID, finishedVMs>>,
         unsubmitted' \cap mapSingleJob' = {}, Launched' = Launched,
         Len(vm') = Len(vm), stage' # "undefined" \/ stage' = stage,
         \A j \in Jobs : Live(j)' = Live(j)
  PROVE  Account'
<1>1. JobsApart' /\ Unlaunched'
  BY DEF Account, JobsApart, Unlaunched
<1>2. Launched \subseteq Jobs /\ mapRunningSingleJob \subseteq Jobs
  BY DEF Account, JobsApart, Launched
<1>3. Reports'
  BY <1>2 DEF Account, Reports
<1>4. Exact'
  <2>1. /\ SumFunctionOnSet(numCPUs, Launched)' = SumFunctionOnSet(numCPUs, Launched)
        /\ Len(vm)' = Len(vm)
    OBVIOUS
  <2> QED  BY <1>2, <2>1 DEF Account, Exact
<1> QED  BY <1>1, <1>3, <1>4 DEF Account

(* What holds each VM object tells which are the live ones of a job. *)
LEMMA LiveKept ==
  ASSUME VMTypeOK, \A v : Held(v)' <=> Held(v),
         \A v \in VMs : vm'[v].job = vm[v].job
  PROVE  \A j \in Jobs : Live(j)' = Live(j)
<1>1. \A v : Held(v) => v \in VMs
  BY Containers
<1>2. \A j : Live(j) = {v \in VMs : Held(v) /\ vm[v].job = j}
  BY LiveIsHeld
<1>3. ASSUME NEW j \in Jobs
      PROVE  Live(j)' = {v \in VMs : Held(v)' /\ vm'[v].job = j}
  BY <1>1 DEF Live, Held
<1> QED  BY <1>2, <1>3

(* Steps that leave the VMs and the jobs alone, or only insert jobs. *)
LEMMA QuietAccount ==
  ASSUME VMTypeOK, Account,
         \/ InsertJobs \/ JobQueueDrained \/ EndAssign \/ FinishedVMsDeleted
         \/ PowerStep \/ FinishPowerOn \/ UNCHANGED vars
  PROVE  Account'
<1> USE DEF InsertJobs, JobQueueDrained, EndAssign, FinishedVMsDeleted, PowerStep,
        FinishPowerOn, vars, queues
<1>1. UNCHANGED machines
  OBVIOUS
<1>2. \A j \in Jobs : Live(j)' = Live(j)
  BY <1>1, LiveKept DEF machines, Held, InQueue
<1>3. /\ UNCHANGED <<mapRunningSingleJob, vFinishedJobID, finishedVMs>>
      /\ stage' # "undefined" \/ stage' = stage
  OBVIOUS
<1>4. unsubmitted' \cap mapSingleJob' = {} /\ Launched' = Launched
  <2>1. CASE InsertJobs
    <3>1. PICK J \in SUBSET unsubmitted : /\ mapSingleJob' = mapSingleJob \cup J
                                          /\ unsubmitted' = unsubmitted \ J
      BY <2>1
    <3> QED  BY <3>1 DEF Account, JobsApart, Launched
  <2>2. CASE ~ InsertJobs
    BY <2>2 DEF Account, JobsApart, Launched
  <2> QED  BY <2>1, <2>2
<1>5. Len(vm') = Len(vm)
  BY <1>1 DEF machines
<1> QED  BY <1>2, <1>3, <1>4, <1>5, AccountKept

(* The VM that leaves the queue runs. *)
LEMMA AssignAccount ==
  ASSUME VMInv, Account, NEW s \in Servers, AssignOneVM(s) \/ AssignFromPool(s)
  PROVE  Account'
<1> DEFINE h == Head(qWaitingVMs)
<1>1. /\ h \in InQueue /\ InQueue' = InQueue \ {h}
      /\ running' = [running EXCEPT ![s] = @ \cup {h}]
  BY HeadLeaves DEF AssignOneVM, AssignFromPool
<1> HIDE DEF h
<1>2. UNCHANGED <<stage, vm, finished, queues>>
  BY DEF AssignOneVM, AssignFromPool, queues
<1>3. running \in [Servers -> SUBSET VMs]
  BY Containers DEF VMInv
<1>4. \A r \in Servers : running'[r] = IF r = s THEN running[r] \cup {h} ELSE running[r]
  BY <1>1, <1>3
<1>5. \A v : Held(v)' <=> Held(v)
  BY <1>1, <1>2, <1>4 DEF Held
<1>6. \A j \in Jobs : Live(j)' = Live(j)
  BY <1>2, <1>5, LiveKept DEF VMInv
<1> QED  BY <1>2, <1>6, AccountKept DEF queues, Account, JobsApart, Launched

(* The VMs taken back wait. *)
LEMMA ReassignAccount ==
  ASSUME VMInv, Account, ReassignVMs
  PROVE  Account'
<1>1. UNCHANGED <<stage, vm, finished, queues>>
  BY DEF ReassignVMs, queues
<1>2. \A v : Held(v)' <=> Held(v)
  <2>1. CASE Reassigned
    <3>1. PICK taken \in SUBSET VMs :
            /\ \A s \in Servers : \/ running[s] \subseteq taken /\ running'[s] = {}
                                  \/ running[s] \cap taken = {} /\ running'[s] = running[s]
            /\ \A v \in taken : \E s \in Servers : v \in running[s]
            /\ InQueue' = InQueue \cup taken
      BY <2>1, TakenBack
    <3> QED  BY <1>1, <3>1 DEF Held
  <2>2. CASE ~ Reassigned
    BY <1>1, <2>2 DEF ReassignVMs, Held, InQueue
  <2> QED  BY <2>1, <2>2
<1>3. \A j \in Jobs : Live(j)' = Live(j)
  BY <1>1, <1>2, LiveKept DEF VMInv
<1> QED  BY <1>1, <1>3, AccountKept DEF queues, Account, JobsApart, Launched

(* VMs that leave vRunningVMs for vFinishedVMs of the same server. *)
LEMMA ShiftHeld ==
  ASSUME NEW D, \A s \in Servers : D[s] \subseteq running[s],
         \A s \in Servers : /\ running'[s] = running[s] \ D[s]
                           /\ finished'[s] = finished[s] \cup D[s],
         qWaitingVMs' = qWaitingVMs
  PROVE  \A v : Held(v)' <=> Held(v)
<1>1. InQueue' = InQueue
  BY DEF InQueue
<1>2. \A s \in Servers : running'[s] \cup finished'[s] = running[s] \cup finished[s]
  OBVIOUS
<1> QED  BY <1>1, <1>2 DEF Held

LEMMA RunAccount ==
  ASSUME VMInv, Account, RunServers
  PROVE  Account'
<1>1. PICK slow \in SUBSET Occupied :
        LET seconds(s) == IF s \in slow THEN 1 ELSE 2 IN
        /\ vm' = [v \in VMs |->
                    IF \E s \in Occupied : v \in running[s]
                      THEN LET s == CHOOSE s \in Occupied : v \in running[s]
                           IN  RunVM(vm[v], s, seconds(s))
                      ELSE vm[v]]
        /\ running' = [s \in Servers |-> running[s] \ Done(s, seconds(s))]
        /\ finished' = [s \in Servers |-> finished[s] \cup Done(s, seconds(s))]
  BY DEF RunServers
<1> DEFINE seconds(s) == IF s \in slow THEN 1 ELSE 2
           D == [s \in Servers |-> Done(s, seconds(s))]
<1>2. /\ \A s \in Servers : D[s] \subseteq running[s]
      /\ \A s \in Servers : /\ running'[s] = running[s] \ D[s]
                            /\ finished'[s] = finished[s] \cup D[s]
  BY <1>1 DEF Done
<1>3. UNCHANGED <<stage, qWaitingVMs>> /\ UNCHANGED queues
  BY DEF RunServers
<1>4. Len(vm) \in Nat /\ VMs = 1..Len(vm) /\ \A v \in VMs : vm[v] \in VMRecord
  BY Containers DEF VMInv
<1>5. \A v \in VMs : vm'[v].job = vm[v].job
  <2> TAKE v \in VMs
  <2>1. CASE \E s \in Occupied : v \in running[s]
    <3> DEFINE s == CHOOSE s \in Occupied : v \in running[s]
    <3>1. s \in Servers
      BY <2>1 DEF Occupied
    <3>2. vm'[v] = RunVM(vm[v], s, seconds(s))
      BY <1>1, <2>1
    <3>3. seconds(s) \in {1, 2}
      OBVIOUS
    <3> HIDE DEF s, seconds
    <3> QED  BY <1>4, <3>1, <3>2, <3>3, RunVMType
  <2>2. CASE ~ \E s \in Occupied : v \in running[s]
    BY <1>1, <1>4, <2>2
  <2> QED  BY <2>1, <2>2
<1>6. Len(vm') = Len(vm)
  <2>1. DOMAIN vm' = 1..Len(vm) /\ vm' = [v \in 1..Len(vm) |-> vm'[v]]
    BY <1>1, <1>4
  <2> QED  BY <1>4, <2>1, LenProperties
<1> HIDE DEF D
<1>7. \A v : Held(v)' <=> Held(v)
  BY <1>2, <1>3, ShiftHeld
<1>8. \A j \in Jobs : Live(j)' = Live(j)
  BY <1>5, <1>7, LiveKept DEF VMInv
<1> QED  BY <1>3, <1>6, <1>8, AccountKept DEF queues, Account, JobsApart, Launched

LEMMA FinishMigrationsAccount ==
  ASSUME VMInv, Account, FinishMigrations
  PROVE  Account'
<1> DEFINE checked == isMigrating \ Pool!Dormant
           D == [s \in Servers |-> IF s \in checked THEN Moved(s) ELSE {}]
<1>1. /\ running' = [s \in Servers |->
                       IF s \in checked THEN running[s] \ Moved(s) ELSE running[s]]
      /\ finished' = [s \in Servers |->
                        IF s \in checked THEN finished[s] \cup Moved(s) ELSE finished[s]]
      /\ UNCHANGED <<stage, vm, qWaitingVMs>> /\ UNCHANGED queues
  BY DEF FinishMigrations
<1>2. /\ \A s \in Servers : D[s] \subseteq running[s]
      /\ \A s \in Servers : /\ running'[s] = running[s] \ D[s]
                            /\ finished'[s] = finished[s] \cup D[s]
  BY <1>1 DEF Moved
<1> HIDE DEF D, checked
<1>3. \A v : Held(v)' <=> Held(v)
  BY <1>1, <1>2, ShiftHeld
<1>4. \A j \in Jobs : Live(j)' = Live(j)
  BY <1>1, <1>3, LiveKept DEF VMInv
<1> QED  BY <1>1, <1>4, AccountKept DEF queues, Account, JobsApart, Launched

(* Copies belong to jobs that have live VMs; the first of them ends the    *)
(* exact account.                                                          *)
LEMMA MigrateAccount ==
  ASSUME Proved!IInv, VMInv, Account, NEW s \in Servers, NEW t \in Servers,
         MigrateToServer(s, t) \/ MigrateToPool(s, t)
  PROVE  Account'
<1>1. \E S \in SUBSET running[s] : \E b \in BOOLEAN : CopyVMs(S, t, b)
  <2>1. GetALLVMs(s) \in SUBSET running[s]
    BY DEF GetALLVMs
  <2>2. \A n : GetNVMs(s, n) \subseteq SUBSET running[s]
    BY DEF GetNVMs
  <2> QED  BY <2>1, <2>2 DEF MigrateToServer, MigrateToPool
<1>2. PICK S \in SUBSET running[s], b \in BOOLEAN : CopyVMs(S, t, b)
  BY <1>1
<1>3. UNCHANGED <<stage, qWaitingVMs, finished>> /\ UNCHANGED queues
  BY DEF MigrateToServer, MigrateToPool
<1>4. /\ Len(vm) \in Nat /\ Len(vm') \in Nat /\ Len(vm) <= Len(vm')
      /\ \A v \in VMs : vm'[v].job = vm[v].job
      /\ \A v \in (Len(vm) + 1)..Len(vm') : \E w \in S : vm'[v].job = vm[w].job
      /\ running' = [running EXCEPT ![t] = @ \cup (Len(vm) + 1)..Len(vm')]
  <2>1. VMTypeOK /\ clock \in Nat /\ Alive
    BY PoolFacts, TimeAssumption DEF VMInv, Pool!TypeOK
  <2>2. Copied(S, t)
    BY <1>2, <2>1, CopiesMade
  <2> QED  BY <2>2 DEF Copied
<1> DEFINE copies == (Len(vm) + 1)..Len(vm')
<1>5. /\ running \in [Servers -> SUBSET VMs] /\ VMs = 1..Len(vm)
      /\ \A v : Held(v) => v \in VMs
  BY Containers DEF VMInv
<1>6. \A r \in Servers : running'[r] = IF r = t THEN running[r] \cup copies ELSE running[r]
  BY <1>4, <1>5
<1>7. \A v : Held(v)' <=> Held(v) \/ v \in copies
  BY <1>3, <1>6 DEF Held, InQueue
<1>8. CASE Len(vm') = Len(vm)
  <2>1. copies = {}
    BY <1>4, <1>8
  <2>2. \A j \in Jobs : Live(j)' = Live(j)
    BY <1>4, <1>7, <2>1, LiveKept DEF VMInv
  <2> QED  BY <1>3, <1>8, <2>2, AccountKept DEF queues, Account, JobsApart, Launched
<1>9. CASE Len(vm') > Len(vm)
  <2>1. VMTypeOK'
    BY MigrateInv DEF VMInv
  <2>2. \A j : Live(j) = {v \in VMs : Held(v) /\ vm[v].job = j}
    BY LiveIsHeld DEF VMInv
  <2>3. VMs' = VMs \cup copies /\ VMs \cap copies = {}
    BY <1>4 DEF VMs
  <2>4. \A j \in Jobs : Live(j)' = {v \in VMs' : Held(v)' /\ vm'[v].job = j}
    BY <1>5, <1>7, <2>3 DEF Live, Held
  <2> HIDE DEF copies
  <2>5. \A j \in Jobs : Live(j) \subseteq Live(j)'
    BY <1>4, <1>7, <2>2, <2>3, <2>4
  <2>6. ASSUME NEW j \in Jobs, Live(j) = {}
        PROVE  Live(j)' = {}
    <3>1. \A w \in S : Held(w) /\ w \in VMs
      BY <1>5 DEF Held
    <3>2. \A v \in copies : \E w \in S : vm'[v].job = vm[w].job
      BY <1>4 DEF copies
    <3>3. ASSUME NEW v \in VMs', Held(v)', vm'[v].job = j
          PROVE  FALSE
      <4>1. CASE v \in VMs
        <5>1. Held(v) /\ vm[v].job = j
          BY <1>4, <1>7, <2>3, <3>3, <4>1
        <5> QED  BY <2>2, <2>6, <4>1, <5>1
      <4>2. CASE v \in copies
        <5>1. PICK w \in S : vm'[v].job = vm[w].job
          BY <3>2, <4>2
        <5> QED  BY <2>2, <2>6, <3>1, <3>3, <5>1
      <4> QED  BY <2>3, <4>1, <4>2
    <3> QED  BY <2>4, <3>3
  <2>7. \A j \in Jobs : Cardinality(Live(j)) <= Cardinality(Live(j)')
    <3> TAKE j \in Jobs
    <3>1. IsFiniteSet(VMs')
      BY <1>4, FS_Interval DEF VMs
    <3>2. Live(j)' \subseteq VMs'
      BY <2>4
    <3>3. IsFiniteSet(Live(j)')
      BY <3>1, <3>2, FS_Subset
    <3> QED  BY <2>5, <3>3, FS_Subset
  <2>8. \A j \in Jobs : Cardinality(Live(j)) \in Nat /\ Cardinality(Live(j)') \in Nat
    <3> TAKE j \in Jobs
    <3>1. IsFiniteSet(VMs')
      BY <1>4, FS_Interval DEF VMs
    <3>2. Live(j)' \subseteq VMs'
      BY <2>4
    <3>3. IsFiniteSet(Live(j)')
      BY <3>1, <3>2, FS_Subset
    <3> QED  BY <3>3, FS_CardinalityType, LiveIsHeld DEF VMInv
  <2>9. Launched' = Launched /\ mapRunningSingleJob \subseteq Jobs /\ JobsApart'
    BY <1>3 DEF queues, Launched, JobsApart, Account, VMInv, VMTypeOK
  <2>10. Unlaunched'
    BY <1>3, <2>6, <2>9 DEF queues, Account, Unlaunched
  <2>11. Reports'
    <3>1. \A j \in mapRunningSingleJob : finishedVMs[j] \in Nat /\ numCPUs[j] \in Nat
      BY LaunchedVMs, <2>9 DEF VMInv, VMTypeOK, Account
    <3>2. \A j \in mapRunningSingleJob :
            finishedVMs[j] + Cardinality(Live(j)') >= numCPUs[j]
      BY <2>7, <2>8, <2>9, <3>1 DEF Account, Reports
    <3> QED  BY <1>3, <3>2 DEF queues, Account, Reports
  <2>12. Exact'
    <3>1. SumFunctionOnSet(numCPUs, Launched)' = SumFunctionOnSet(numCPUs, Launched)
      BY <2>9
    <3>2. SumFunctionOnSet(numCPUs, Launched) \in Nat
      BY LaunchedVMs DEF Account
    <3>3. SumFunctionOnSet(numCPUs, Launched) <= Len(vm)
      BY DEF Account, Exact
    <3> QED  BY <1>4, <1>9, <3>1, <3>2, <3>3 DEF Exact
  <2> QED  BY <2>9, <2>10, <2>11, <2>12 DEF Account
<1> QED  BY <1>4, <1>8, <1>9

(* A launched job has as many VMs as it asked for, and none was there.     *)
LEMMA TakeFirstAccount ==
  ASSUME VMInv, Account, TakeFirst
  PROVE  Account'
<1>0. PICK j : j = CHOOSE i \in mapSingleJob : \A k \in mapSingleJob : i <= k
  OBVIOUS
<1> DEFINE n == numCPUs[j]
           made == [i \in 1..n |-> VirtualMachine(j, 2 * runTimeSec[j], FALSE)]
           new == [i \in 1..n |-> Len(vm) + i]
<1>1. j \in mapSingleJob /\ j \in Jobs /\ j \notin Launched /\ n \in Nat \ {0}
  <2>1. mapSingleJob \subseteq Jobs /\ mapSingleJob # {}
    BY DEF TakeFirst, VMInv, VMTypeOK
  <2>2. j \in mapSingleJob
    BY <1>0, <2>1, SmallestJob
  <2> QED  BY <1>0, <2>1, <2>2, JobAssumption DEF Launched
<1>2. /\ mapSingleJob' = mapSingleJob \ {j}
      /\ mapRunningSingleJob' = mapRunningSingleJob \cup {j}
      /\ vm' = vm \o made /\ qWaitingVMs' = qWaitingVMs \o new
      /\ UNCHANGED <<stage, running, finished, unsubmitted, vFinishedJobID, finishedVMs>>
  BY <1>0 DEF TakeFirst
<1> HIDE DEF n
<1>3. /\ vm \in Seq(VMRecord) /\ Len(vm) \in Nat /\ VMs = 1..Len(vm)
      /\ qWaitingVMs \in Seq(Nat) /\ Len(qWaitingVMs) \in Nat
      /\ \A v : Held(v) => v \in VMs
  <2>1. qWaitingVMs \in Seq(VMs) /\ VMs \subseteq Nat
    BY Containers DEF VMInv
  <2>2. qWaitingVMs \in Seq(Nat)
    BY <2>1, SeqMonotonic
  <2> QED  BY <2>2, Containers DEF VMInv
<1>4. made \in Seq(VMRecord) /\ Len(made) = n /\ \A i \in 1..n : made[i].job = j
  <2>1. 2 * runTimeSec[j] \in Nat
    <3>1. runTimeSec[j] \in Nat
      BY <1>1, JobAssumption
    <3> QED  BY <3>1
  <2>2. VirtualMachine(j, 2 * runTimeSec[j], FALSE) \in VMRecord
    BY <1>1, <2>1 DEF VirtualMachine, VMRecord
  <2>3. made \in [1..n -> VMRecord]
    BY <2>2
  <2>4. made \in Seq(VMRecord) /\ Len(made) = n
    BY ONLY <1>1, <2>3, FunctionIsSeq
  <2> QED  BY <2>4 DEF VirtualMachine
<1>5. new \in Seq(Nat) /\ Len(new) = n /\ \A i \in 1..n : new[i] = Len(vm) + i
  <2>1. new \in [1..n -> Nat]
    BY <1>1, <1>3
  <2> QED  BY ONLY <1>1, <2>1, FunctionIsSeq
<1> HIDE DEF made, new
<1>6. /\ Len(vm') = Len(vm) + n
      /\ \A i \in 1..Len(vm) : vm'[i] = vm[i]
      /\ \A i \in (Len(vm) + 1)..(Len(vm) + n) : vm'[i].job = j
  <2>1. /\ Len(vm') = Len(vm) + n
        /\ \A i \in 1..(Len(vm) + n) :
             vm'[i] = IF i <= Len(vm) THEN vm[i] ELSE made[i - Len(vm)]
    BY <1>2, <1>3, <1>4, ConcatProperties
  <2>2. \A i \in (Len(vm) + 1)..(Len(vm) + n) : i - Len(vm) \in 1..n /\ ~ (i <= Len(vm))
                                               /\ i \in 1..(Len(vm) + n)
    BY <1>1, <1>3
  <2>3. \A i \in 1..Len(vm) : i \in 1..(Len(vm) + n) /\ i <= Len(vm)
    BY <1>1, <1>3
  <2> QED  BY <1>4, <2>1, <2>2, <2>3
<1> DEFINE fresh == (Len(vm) + 1)..(Len(vm) + n)
<1>7. InQueue' = InQueue \cup fresh
  <2> DEFINE q == Len(qWaitingVMs)
  <2>1. /\ Len(qWaitingVMs') = q + n /\ qWaitingVMs' \in Seq(Nat)
        /\ \A i \in 1..(q + n) :
             qWaitingVMs'[i] = IF i <= q THEN qWaitingVMs[i] ELSE new[i - q]
    BY <1>2, <1>3, <1>5, ConcatProperties
  <2>2. InQueue = {qWaitingVMs[i] : i \in 1..q}
    BY <1>3 DEF InQueue, ToSet
  <2>3. InQueue' = {qWaitingVMs'[i] : i \in 1..(q + n)}
    BY <2>1 DEF InQueue, ToSet
  <2>4. \A i \in 1..q : i \in 1..(q + n) /\ qWaitingVMs'[i] = qWaitingVMs[i]
    <3>1. \A i \in 1..q : i \in 1..(q + n) /\ i <= q
      BY <1>1, <1>3
    <3> QED  BY <2>1, <3>1
  <2>5. \A i \in (q + 1)..(q + n) : i \in 1..(q + n) /\ qWaitingVMs'[i] = Len(vm) + (i - q)
    BY <1>1, <1>3, <1>5, <2>1
  <2>6. \A v \in fresh : /\ q + (v - Len(vm)) \in (q + 1)..(q + n)
                         /\ Len(vm) + ((q + (v - Len(vm))) - q) = v
    BY <1>1, <1>3
  <2>7. \A i \in (q + 1)..(q + n) : Len(vm) + (i - q) \in fresh
    BY <1>1, <1>3
  <2>8. \A i \in 1..(q + n) : i \in 1..q \/ i \in (q + 1)..(q + n)
    BY <1>1, <1>3
  <2> HIDE DEF q, fresh
  <2>9. \A v \in fresh : v \in InQueue'
    BY <2>3, <2>5, <2>6
  <2>10. \A v \in InQueue : v \in InQueue'
    BY <2>2, <2>3, <2>4
  <2>11. \A v \in InQueue' : v \in InQueue \cup fresh
    BY <2>2, <2>3, <2>4, <2>5, <2>7, <2>8
  <2> QED  BY <2>9, <2>10, <2>11
<1>8. \A v : Held(v)' <=> Held(v) \/ v \in fresh
  BY <1>2, <1>7 DEF Held
<1>9. \A i : Live(i) = {v \in VMs : Held(v) /\ vm[v].job = i}
  BY LiveIsHeld DEF VMInv
<1>10. \A i : Live(i)' = {v \in VMs \cup fresh : (Held(v) \/ v \in fresh) /\ vm'[v].job = i}
  <2>1. \A i : Live(i)' = {v : v \in {w \in VMs \cup fresh : Held(w)' /\ vm'[w].job = i}}
    BY <1>3, <1>8 DEF Live, Held
  <2> QED  BY <1>8, <2>1
<1>11. Live(j)' = fresh /\ \A i \in Jobs \ {j} : Live(i)' = Live(i)
  <2>1. \A v \in fresh : vm'[v].job = j /\ v \notin VMs
    BY <1>3, <1>6
  <2>2. \A v \in VMs : vm'[v] = vm[v]
    BY <1>3, <1>6
  <2>3. Live(j) = {}
    BY <1>1 DEF Account, Unlaunched
  <2>4. \A v \in VMs : v \notin fresh
    BY <2>1
  <2> HIDE DEF fresh
  <2>5. Live(j)' = fresh
    <3>1. \A v \in VMs : Held(v) => vm'[v].job # j
      BY <1>9, <2>2, <2>3
    <3> QED  BY <1>10, <2>1, <3>1
  <2>6. ASSUME NEW i \in Jobs \ {j}
        PROVE  Live(i)' = Live(i)
    <3>1. Live(i) = {v \in VMs : Held(v) /\ vm[v].job = i}
      BY <1>9
    <3>2. Live(i)' = {v \in VMs \cup fresh : (Held(v) \/ v \in fresh) /\ vm'[v].job = i}
      BY <1>10
    <3> QED  BY <2>1, <2>2, <2>4, <3>1, <3>2
  <2> QED  BY <2>5, <2>6
<1>12. Cardinality(fresh) = n
  BY <1>1, <1>3, FS_Interval
<1>13. Launched' = Launched \cup {j} /\ JobsApart'
  <2>1. Launched' = Launched \cup {j}
    BY <1>1, <1>2 DEF Launched, Account, JobsApart
  <2>2. IsFiniteSet(Launched')
    BY <2>1, FS_AddElement DEF Account, JobsApart
  <2> QED  BY <1>1, <1>2, <2>1, <2>2 DEF Account, JobsApart
<1>14. Unlaunched'
  BY <1>2, <1>11, <1>13 DEF Account, Unlaunched
<1>15. finishedVMs[j] = 0
  BY <1>1 DEF Account, Unlaunched
<1> HIDE DEF fresh
<1>16. finishedVMs[j] + Cardinality(Live(j)') = numCPUs[j] /\ finishedVMs[j] < numCPUs[j]
  BY <1>1, <1>11, <1>12, <1>15 DEF n
<1>17. Reports'
  <2>1. \A i \in mapRunningSingleJob \cup vFinishedJobID : i \in Jobs \ {j}
    BY <1>1 DEF Account, JobsApart, Launched
  <2>2. \A i \in mapRunningSingleJob : finishedVMs[i] < numCPUs[i]
                 /\ finishedVMs[i] + Cardinality(Live(i)') >= numCPUs[i]
    BY <1>11, <2>1 DEF Account, Reports
  <2>3. /\ finishedVMs[j] < numCPUs[j]
        /\ finishedVMs[j] + Cardinality(Live(j)') >= numCPUs[j]
    BY <1>1, <1>16 DEF n
  <2>4. \A i \in vFinishedJobID : finishedVMs[i] = numCPUs[i]
    BY DEF Account, Reports
  <2> QED  BY <1>2, <2>2, <2>3, <2>4 DEF Reports
<1>18. Exact'
  <2>1. SumFunctionOnSet(numCPUs, Launched)' = SumFunctionOnSet(numCPUs, Launched) + n
    <3>1. IsFiniteSet(Launched) /\ \A y \in Launched \cup {j} : numCPUs[y] \in Int
      BY <1>1, LaunchedVMs DEF Account, JobsApart
    <3>2. SumFunctionOnSet(numCPUs, Launched \cup {j})
            = SumFunctionOnSet(numCPUs, Launched) + numCPUs[j]
      BY <1>1, <3>1, SumOfOneMore
    <3> QED  BY <1>13, <3>2 DEF n
  <2>2. SumFunctionOnSet(numCPUs, Launched) \in Nat
    BY LaunchedVMs DEF Account
  <2>3. /\ SumFunctionOnSet(numCPUs, Launched)' <= Len(vm')
        /\ SumFunctionOnSet(numCPUs, Launched)' = Len(vm')
           => SumFunctionOnSet(numCPUs, Launched) = Len(vm)
    BY <1>1, <1>3, <1>6, <2>1, <2>2 DEF Account, Exact
  <2>4. Launched \subseteq Jobs \ {j}
    BY <1>1 DEF Launched
  <2>5. ASSUME SumFunctionOnSet(numCPUs, Launched) = Len(vm)
        PROVE  /\ stage' # "undefined"
               /\ \A i \in Launched' : finishedVMs'[i] + Cardinality(Live(i)') = numCPUs[i]
    <3>1. stage # "undefined"
          /\ \A i \in Launched : finishedVMs[i] + Cardinality(Live(i)) = numCPUs[i]
      BY <2>5 DEF Account, Exact
    <3>2. \A i \in Launched : finishedVMs[i] + Cardinality(Live(i)') = numCPUs[i]
      BY <1>11, <2>4, <3>1
    <3> QED  BY <1>2, <1>13, <1>16, <3>1, <3>2
  <2> QED  BY <2>3, <2>5 DEF Exact
<1> QED  BY <1>13, <1>14, <1>17, <1>18 DEF Account

(* The VM that is reported is a live one of its job.  When the account is  *)
(* exact its job is launched and waits for it still.                       *)
LEMMA ReportAccount ==
  ASSUME VMInv, Account, NEW s \in Servers, NEW v \in VMs, ReportVM(s, v)
  PROVE  Account'
<1>0. PICK j : j = vm[v].job
  OBVIOUS
<1>1. /\ v \in finished[s] /\ stage = "collect"
      /\ finished' = [finished EXCEPT ![s] = @ \ {v}]
      /\ vm' = [vm EXCEPT ![v] = Freed]
      /\ OneVMFinished(j)
      /\ UNCHANGED <<qWaitingVMs, running, unsubmitted, mapSingleJob>>
  BY <1>0 DEF ReportVM
<1>2. /\ vm \in Seq(VMRecord) /\ Len(vm) \in Nat /\ VMs = 1..Len(vm)
      /\ finished \in [Servers -> SUBSET VMs]
      /\ \A w : Held(w) => w \in VMs
  BY Containers DEF VMInv
<1>3. Held(v) /\ j \in Jobs
  BY <1>0, <1>1 DEF VMInv, Alive, Held
<1>4. /\ Len(vm') = Len(vm) /\ VMs' = VMs
      /\ \A w \in VMs : vm'[w] = IF w = v THEN Freed ELSE vm[w]
  <2>1. Freed \in VMRecord
    BY DEF Freed, VMRecord
  <2>2. v \in 1..Len(vm)
    BY <1>2
  <2>3. /\ vm' \in Seq(VMRecord) /\ Len(vm') = Len(vm)
        /\ \A w \in 1..Len(vm) : vm'[w] = IF w = v THEN Freed ELSE vm[w]
    BY ONLY <1>1, <1>2, <2>1, <2>2, ExceptSeq
  <2> QED  BY <1>2, <2>3 DEF VMs
<1>5. \A w : Held(w)' <=> Held(w) /\ w # v
  <2>1. \A r \in Servers :
          finished'[r] = IF r = s THEN finished[r] \ {v} ELSE finished[r]
    BY <1>1, <1>2
  <2>2. /\ v \notin InQueue
        /\ \A r \in Servers : v \notin running[r] /\ (r # s => v \notin finished[r])
    BY <1>1 DEF VMInv, Once
  <2> QED  BY <1>1, <2>1, <2>2 DEF Held, InQueue
<1>6. \A i : Live(i) = {w \in VMs : Held(w) /\ vm[w].job = i}
  BY LiveIsHeld DEF VMInv
<1>7. \A i : Live(i)' = {w \in VMs : Held(w)' /\ vm'[w].job = i}
  BY <1>2, <1>5 DEF Live, Held
<1>8. Live(j)' = Live(j) \ {v} /\ v \in Live(j)
  BY <1>0, <1>3, <1>4, <1>5, <1>6, <1>7
<1>9. \A i \in Jobs \ {j} : Live(i)' = Live(i)
  BY <1>0, <1>4, <1>5, <1>6, <1>7
<1>10. /\ Cardinality(Live(j)) \in Nat
       /\ Cardinality(Live(j)') = Cardinality(Live(j)) - 1
       /\ Cardinality(Live(j)) > 0 /\ Cardinality(Live(j)') \in Nat
  <2>1. IsFiniteSet(Live(j)) /\ Cardinality(Live(j)) \in Nat
    BY LiveIsHeld DEF VMInv
  <2>2. /\ IsFiniteSet(Live(j) \ {v})
        /\ Cardinality(Live(j) \ {v}) = Cardinality(Live(j)) - 1
    BY <1>8, <2>1, FS_RemoveElement
  <2>3. Cardinality(Live(j) \ {v}) \in Nat
    BY <2>2, FS_CardinalityType
  <2> QED  BY <1>8, <2>1, <2>2, <2>3
<1>11. j \in Launched
  BY <1>3, <1>8 DEF Account, Unlaunched
<1>12. Launched' = Launched /\ unsubmitted' \cap mapSingleJob' = {}
  BY <1>1 DEF Launched, Account, JobsApart
<1>13. finishedVMs \in [Jobs -> Nat] /\ numCPUs[j] \in Nat /\ mapRunningSingleJob \subseteq Jobs
       /\ vFinishedJobID \subseteq Jobs
  BY <1>3, LaunchedVMs DEF VMInv, VMTypeOK, Account
<1>14. CASE j \in mapRunningSingleJob
  <2>1. /\ finishedVMs' = [finishedVMs EXCEPT ![j] = @ + 1] /\ stage' = stage
        /\ IF finishedVMs[j] + 1 = numCPUs[j]
             THEN /\ mapRunningSingleJob' = mapRunningSingleJob \ {j}
                  /\ vFinishedJobID' = vFinishedJobID \cup {j}
             ELSE UNCHANGED <<mapRunningSingleJob, vFinishedJobID>>
    BY <1>1, <1>14 DEF OneVMFinished
  <2>2. /\ finishedVMs'[j] = finishedVMs[j] + 1
        /\ \A i \in Jobs \ {j} : finishedVMs'[i] = finishedVMs[i]
    BY <1>3, <1>13, <2>1
  <2>3. finishedVMs[j] < numCPUs[j] /\ finishedVMs[j] \in Nat
    BY <1>3, <1>13, <1>14 DEF Account, Reports
  <2>4. j \notin vFinishedJobID
    BY <2>3 DEF Account, Reports
  <2>5. finishedVMs'[j] + Cardinality(Live(j)') = finishedVMs[j] + Cardinality(Live(j))
    BY <1>10, <2>2, <2>3
  <2>6. JobsApart'
    BY <1>12, <1>14, <2>1 DEF Account, JobsApart
  <2>7. Unlaunched'
    BY <1>9, <1>11, <1>12, <2>2 DEF Account, Unlaunched
  <2>8. Reports'
    <3>1. ASSUME NEW i \in mapRunningSingleJob'
          PROVE  finishedVMs'[i] < numCPUs[i]
                 /\ finishedVMs'[i] + Cardinality(Live(i)') >= numCPUs[i]
      <4>1. CASE i = j
        <5>1. finishedVMs[j] + 1 # numCPUs[j]
          BY <2>1, <3>1, <4>1
        <5>2. finishedVMs'[j] < numCPUs[j]
          BY <1>13, <2>2, <2>3, <5>1
        <5>3. finishedVMs[j] + Cardinality(Live(j)) >= numCPUs[j]
          BY <1>14 DEF Account, Reports
        <5> QED  BY <2>5, <4>1, <5>2, <5>3
      <4>2. CASE i # j
        <5>1. i \in mapRunningSingleJob /\ i \in Jobs \ {j}
          BY <1>13, <2>1, <4>2
        <5> QED  BY <1>9, <2>2, <5>1 DEF Account, Reports
      <4> QED  BY <4>1, <4>2
    <3>2. ASSUME NEW i \in vFinishedJobID'
          PROVE  finishedVMs'[i] = numCPUs[i]
      <4>1. CASE i = j
        BY <2>1, <2>2, <2>4, <4>1
      <4>2. CASE i # j
        <5>1. i \in vFinishedJobID /\ i \in Jobs \ {j}
          BY <1>13, <2>1, <4>2
        <5> QED  BY <2>2, <5>1 DEF Account, Reports
      <4> QED  BY <4>1, <4>2
    <3> QED  BY <3>1, <3>2 DEF Reports
  <2>9. Exact'
    <3>1. \A i \in Launched : finishedVMs'[i] + Cardinality(Live(i)')
                               = finishedVMs[i] + Cardinality(Live(i))
      BY <1>9, <2>2, <2>5 DEF Launched
    <3>2. /\ SumFunctionOnSet(numCPUs, Launched)' = SumFunctionOnSet(numCPUs, Launched)
          /\ Len(vm)' = Len(vm) /\ stage' # "undefined"
      BY <1>1, <1>4, <1>12, <2>1
    <3> QED  BY <1>12, <3>1, <3>2 DEF Account, Exact
  <2> QED  BY <2>6, <2>7, <2>8, <2>9 DEF Account
<1>15. CASE j \notin mapRunningSingleJob
  <2>1. UNCHANGED <<mapRunningSingleJob, vFinishedJobID, finishedVMs>>
    BY <1>1, <1>15 DEF OneVMFinished
  <2>2. j \in vFinishedJobID
    BY <1>11, <1>15 DEF Account, JobsApart
  <2>3. JobsApart' /\ Unlaunched'
    <3>1. Unlaunched'
      BY <1>9, <1>11, <1>12, <2>1 DEF Account, Unlaunched
    <3>2. JobsApart'
      BY <1>12, <2>1 DEF Account, JobsApart
    <3> QED  BY <3>1, <3>2
  <2>4. Reports'
    <3>1. \A i \in mapRunningSingleJob : Live(i)' = Live(i)
      BY <1>9, <1>13, <1>15
    <3> QED  BY <2>1, <3>1 DEF Account, Reports
  <2>5. SumFunctionOnSet(numCPUs, Launched) # Len(vm)
    <3>1. SUFFICES ASSUME SumFunctionOnSet(numCPUs, Launched) = Len(vm)
                   PROVE  FALSE
      OBVIOUS
    <3>2. finishedVMs[j] + Cardinality(Live(j)) = numCPUs[j]
      BY <1>11, <3>1 DEF Account, Exact
    <3>3. finishedVMs[j] = numCPUs[j]
      BY <2>2 DEF Account, Reports
    <3> QED  BY <1>10, <1>13, <3>2, <3>3
  <2>6. Exact'
    <3>1. /\ SumFunctionOnSet(numCPUs, Launched)' = SumFunctionOnSet(numCPUs, Launched)
          /\ Len(vm)' = Len(vm)
      BY <1>4, <1>12
    <3> QED  BY <2>5, <3>1 DEF Account, Exact
  <2> QED  BY <2>3, <2>4, <2>6 DEF Account
<1> QED  BY <1>14, <1>15

LEMMA NextAccount ==
  ASSUME Proved!IInv, VMInv, Account, [Next]_vars
  PROVE  Account'
<1>1. CASE \/ InsertJobs \/ JobQueueDrained \/ EndAssign \/ FinishedVMsDeleted
           \/ PowerStep \/ FinishPowerOn \/ UNCHANGED vars
  BY <1>1, QuietAccount DEF VMInv
<1>2. CASE TakeFirst
  BY <1>2, TakeFirstAccount
<1>3. CASE \E s \in Servers : AssignOneVM(s) \/ AssignFromPool(s)
  BY <1>3, AssignAccount
<1>4. CASE \E s, t \in Servers : MigrateToServer(s, t) \/ MigrateToPool(s, t)
  BY <1>4, MigrateAccount
<1>5. CASE RunServers
  BY <1>5, RunAccount
<1>6. CASE FinishMigrations
  BY <1>6, FinishMigrationsAccount
<1>7. CASE \E s \in Servers, v \in VMs : ReportVM(s, v)
  BY <1>7, ReportAccount
<1>8. CASE ReassignVMs
  BY <1>8, ReassignAccount
<1> QED  BY <1>1, <1>2, <1>3, <1>4, <1>5, <1>6, <1>7, <1>8 DEF Next

(* A launched job never has fewer VM objects left than completions it      *)
(* waits for, and while no VM was copied the account of JobQueue.cpp is    *)
(* exact: a job is finished with its last VM, and no report comes for a    *)
(* job that is not running (OneVMFinishedOnASingleJob).                    *)
THEOREM AccountOfEveryJob == Spec => []VMsAccounted
<1>1. Init => Account
  BY InitAccount
<1>2. (Proved!IInv /\ VMInv) /\ Account /\ [Next]_vars => Account'
  BY NextAccount
<1>3. (Proved!IInv /\ VMInv) /\ Account => VMsAccounted
  BY AccountHolds DEF VMInv
<1> QED  BY <1>1, <1>2, <1>3, SpecInv, PTL DEF Spec

=============================================================================
