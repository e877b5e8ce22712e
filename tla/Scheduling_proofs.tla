-------------------------- MODULE Scheduling_proofs --------------------------
(***************************************************************************)
(* A call of AssignVMs leaves VMs waiting, and touches the pool, only when *)
(* no candidate can take the next VM, loads no server further than its     *)
(* scheduler means to, and does to the servers only what ServersPool       *)
(* allows: for all servers, loads, temperatures and rankings.              *)
(***************************************************************************)
EXTENDS Scheduling, SumTheorems

Entry == [server : Servers, temperature : Temperatures, utilizationCPU : Nat \cup {NaN}]

(* The invariant.  TypeOK without the number of entries, which follows from *)
(* Distinct. *)
Types ==
  /\ algorithm \in Algorithms
  /\ pc \in {"collect", "round", "first", "second", "done"}
  /\ active \subseteq Servers /\ isPOOL \subseteq Servers \ active
  /\ temperature \in [Servers -> Temperatures]
  /\ utilization \in [Servers -> Nat \cup {NaN}]
  /\ qWaitingVMs \in Seq(Loads)
  /\ serverScheduling \in Seq(Entry)
  /\ l \in 1..(Len(serverScheduling) + 1)
  /\ full \in 0..Len(serverScheduling)
  /\ RemovePOOL \in Nat

Distinct ==
  \A i, j \in DOMAIN serverScheduling :
    serverScheduling[i].server = serverScheduling[j].server => i = j

(* Who is in the array: the active servers, and none that is still pooled. *)
Entries ==
  /\ pc = "collect" => serverScheduling = <<>> /\ l = 1
  /\ pc \in {"collect", "first", "second"} => full = 0
  /\ pc = "round" => TwoD
  /\ pc \in {"first", "second"} => VB
  /\ TwoD /\ pc # "collect" => active \subseteq Listed
  /\ VB => Listed \subseteq active
  /\ Listed \cap isPOOL = {}

(* The array shows the load of an active server, and that of a server of    *)
(* the pool without its first VM.                                          *)
Unseen(s) == IF s \in active THEN {0} ELSE {0} \cup Loads

Recorded ==
  \A i \in DOMAIN serverScheduling :
    LET e == serverScheduling[i] IN
    /\ e.temperature = temperature[e.server]
    /\ e.utilizationCPU # NaN =>
         \E load \in Unseen(e.server) : utilization[e.server] = e.utilizationCPU + load

(* While every entry of the round was counted, no VM was assigned in it:   *)
(* all were full for the VM that is the next one still.                    *)
Counted ==
  /\ full <= l - 1
  /\ full = l - 1 /\ qWaitingVMs # <<>> =>
       \A i \in 1..(l - 1) : IsFull(serverScheduling[i])

CannotTake(s) == utilization[s] + Head1 > 9 \/ temperature[s] > 29

Left ==
  pc = "done" /\ qWaitingVMs # <<>> =>
    TwoD /\ isPOOL = {} /\ \A s \in active : CannotTake(s)

IInv == Types /\ Distinct /\ Entries /\ Recorded /\ Counted /\ Left

-----------------------------------------------------------------------------
LEMMA Constants ==
  /\ IsFiniteSet(Servers) /\ Servers \subseteq Nat
  /\ Loads \subseteq Nat \ {0} /\ Temperatures \subseteq Nat
  /\ NaN = -1 /\ NaN \notin Nat
  BY SchedulingAssumption DEF NaN

LEMMA EntryFields ==
  ASSUME NEW e \in Entry
  PROVE  /\ e.server \in Servers /\ e.temperature \in Temperatures
         /\ e.utilizationCPU \in Nat \cup {NaN}
  BY DEF Entry

LEMMA UnseenIsLoad ==
  ASSUME NEW s
  PROVE  0 \in Unseen(s) /\ \A load \in Unseen(s) : load \in Nat
  BY Constants DEF Unseen

(* What Recorded says of an entry. *)
LEMMA EntryLoad ==
  ASSUME Types, Recorded, NEW i \in DOMAIN serverScheduling,
         serverScheduling[i].utilizationCPU # NaN
  PROVE  LET e == serverScheduling[i] IN
         /\ e.server \in Servers /\ e.utilizationCPU \in Nat
         /\ utilization[e.server] \in Nat /\ utilization[e.server] # NaN
         /\ \E load \in Unseen(e.server) :
              load \in Nat /\ utilization[e.server] = e.utilizationCPU + load
         /\ e.utilizationCPU <= utilization[e.server]
<1> DEFINE e == serverScheduling[i]
<1>1. e \in Entry
  BY DEF Types
<1>2. e.server \in Servers /\ e.utilizationCPU \in Nat
  BY <1>1, EntryFields, Constants
<1>3. PICK load \in Unseen(e.server) : utilization[e.server] = e.utilizationCPU + load
  BY DEF Recorded
<1>4. load \in Nat
  BY UnseenIsLoad
<1> HIDE DEF e
<1>5. utilization[e.server] \in Nat /\ e.utilizationCPU <= utilization[e.server]
  BY <1>2, <1>3, <1>4
<1> QED  BY <1>2, <1>3, <1>4, <1>5, Constants DEF e

(* An entry with more load. *)
Loaded(e, load) == [e EXCEPT !.utilizationCPU = @ + load]

LEMMA LoadedEntry ==
  ASSUME NEW e \in Entry, NEW load \in Nat, e.utilizationCPU \in Nat
  PROVE  /\ Loaded(e, load) \in Entry
         /\ Loaded(e, load).server = e.server
         /\ Loaded(e, load).temperature = e.temperature
         /\ Loaded(e, load).utilizationCPU = e.utilizationCPU + load
  BY DEF Entry, Loaded

LEMMA ListedCounts ==
  ASSUME Types, Distinct
  PROVE  Len(serverScheduling) = Cardinality(Listed)
<1> DEFINE f == [i \in 1..Len(serverScheduling) |-> serverScheduling[i].server]
<1>1. Len(serverScheduling) \in Nat
      /\ DOMAIN serverScheduling = 1..Len(serverScheduling)
  BY DEF Types
<1>2. f \in Bijection(1..Len(serverScheduling), Listed)
  BY <1>1 DEF Distinct, Listed, Bijection, Injection, Surjection, IsInjective
<1>3. IsFiniteSet(1..Len(serverScheduling))
      /\ Cardinality(1..Len(serverScheduling)) = Len(serverScheduling)
  <2>1. PICK n \in Nat : n = Len(serverScheduling)
    BY <1>1
  <2>2. IsFiniteSet(1..n) /\ Cardinality(1..n) = n
    <3>1. \A b \in Int : IsFiniteSet(1..b) /\ Cardinality(1..b) = IF 1 > b THEN 0 ELSE b - 1 + 1
      BY FS_Interval, 1 \in Int
    <3>2. IsFiniteSet(1..n) /\ Cardinality(1..n) = IF 1 > n THEN 0 ELSE n - 1 + 1
      BY <3>1, n \in Int
    <3>3. (IF 1 > n THEN 0 ELSE n - 1 + 1) = n
      OBVIOUS
    <3> QED  BY ONLY <3>2, <3>3
  <2> QED  BY <2>1, <2>2
<1>4. ExistsBijection(1..Len(serverScheduling), Listed)
  BY <1>2 DEF ExistsBijection
<1> QED  BY <1>3, <1>4, FS_Bijection

LEMMA InvTypeOK == Types /\ Distinct => TypeOK
  BY ListedCounts DEF Types, TypeOK, Entry

(* The orders of a set list each member once. *)
LEMMA OrderLists ==
  ASSUME NEW S, S \subseteq Servers, NEW order \in SetToSeqs(S)
  PROVE  /\ order \in [1..Cardinality(S) -> S] /\ Cardinality(S) \in Nat
         /\ \A i, j \in DOMAIN order : order[i] = order[j] => i = j
         /\ \A s \in S : \E i \in DOMAIN order : order[i] = s
<1>1. IsFiniteSet(S) /\ Cardinality(S) \in Nat
  BY Constants, FS_Subset, FS_CardinalityType
<1>2. /\ order \in [1..Cardinality(S) -> S]
      /\ \A i, j \in 1..Cardinality(S) : i # j => order[i] # order[j]
  BY DEF SetToSeqs
<1>3. order \in Injection(1..Cardinality(S), S)
  BY <1>2 DEF Injection, IsInjective
<1>4. Cardinality(1..Cardinality(S)) = Cardinality(S)
  BY <1>1, FS_Interval
<1>5. order \in Surjection(1..Cardinality(S), S)
  BY <1>1, <1>3, <1>4, FS_Injection
<1> QED  BY <1>1, <1>2, <1>5 DEF Surjection

LEMMA HeadTail ==
  ASSUME qWaitingVMs \in Seq(Loads), qWaitingVMs # <<>>
  PROVE  Head1 \in Nat \ {0} /\ Tail(qWaitingVMs) \in Seq(Loads)
<1>1. Head(qWaitingVMs) \in Loads /\ Tail(qWaitingVMs) \in Seq(Loads)
  BY HeadTailProperties
<1> QED  BY <1>1, Constants DEF Head1

(* A server that gets the next VM has a load from then on. *)
LEMMA GiveKeeps ==
  ASSUME Types, qWaitingVMs # <<>>, NEW s \in Servers, Give(s)
  PROVE  /\ utilization' \in [Servers -> Nat \cup {NaN}]
         /\ qWaitingVMs' \in Seq(Loads)
         /\ utilization'[s] = Plus(utilization[s], Head1) /\ utilization'[s] # 0
         /\ \A t \in Servers : t # s => utilization'[t] = utilization[t]
         /\ \A t \in Servers : utilization[t] # NaN =>
              utilization'[t] # NaN /\ utilization[t] <= utilization'[t]
<1>1. Head1 \in Nat \ {0} /\ Tail(qWaitingVMs) \in Seq(Loads)
  BY HeadTail DEF Types
<1>2. /\ utilization' = [utilization EXCEPT ![s] = Plus(utilization[s], Head1)]
      /\ qWaitingVMs' = Tail(qWaitingVMs)
  BY DEF Give
<1>3. utilization \in [Servers -> Nat \cup {NaN}]
  BY DEF Types
<1>4. /\ Plus(utilization[s], Head1) \in Nat \cup {NaN}
      /\ Plus(utilization[s], Head1) # 0
      /\ utilization[s] # NaN =>
           /\ Plus(utilization[s], Head1) # NaN
           /\ utilization[s] <= Plus(utilization[s], Head1)
  BY <1>1, <1>3, Constants DEF Plus
<1> QED  BY <1>1, <1>2, <1>3, <1>4, Constants

(* When every candidate was counted in a round none can take the next VM.  *)
LEMMA FullServers ==
  ASSUME IInv, RoundOver, qWaitingVMs # <<>>, AllFull
  PROVE  \A s \in Listed : CannotTake(s)
<1> USE DEF IInv
<1>1. l = Len(serverScheduling) + 1 /\ full = Len(serverScheduling)
      /\ Len(serverScheduling) \in Nat
      /\ DOMAIN serverScheduling = 1..Len(serverScheduling)
  BY DEF Types, RoundOver, AllFull
<1>2. \A i \in DOMAIN serverScheduling : IsFull(serverScheduling[i])
  BY <1>1 DEF Counted
<1> TAKE s \in Listed
<1>3. PICK i \in DOMAIN serverScheduling : s = serverScheduling[i].server
  BY DEF Listed
<1> DEFINE e == serverScheduling[i]
<1>4. e \in Entry /\ Head1 \in Nat /\ utilization[s] \in Nat \cup {NaN}
      /\ s \in Servers
  <2>1. e \in Entry
    BY <1>1, <1>3 DEF Types
  <2>2. s \in Servers
    BY <1>3, <2>1 DEF Entry
  <2> QED  BY <2>1, <2>2, HeadTail DEF Types
<1>5. CASE e.temperature > 29
  BY <1>3, <1>5 DEF Recorded, CannotTake
<1>6. CASE Plus(e.utilizationCPU, Head1) > 9
  <2>1. e.utilizationCPU # NaN /\ e.utilizationCPU + Head1 > 9
    BY <1>4, <1>6, Constants DEF Plus
  <2>2. utilization[s] # NaN /\ e.utilizationCPU <= utilization[s]
    BY <1>3, <2>1, EntryLoad
  <2> QED  BY <1>4, <2>1, <2>2, Constants DEF CannotTake, Entry
<1> QED  BY <1>2, <1>5, <1>6 DEF IsFull

-----------------------------------------------------------------------------
LEMMA InitIInv == Init => IInv
<1> SUFFICES ASSUME Init  PROVE IInv
  OBVIOUS
<1> USE DEF Init
<1>1. /\ \A S : <<>> \in Seq(S) /\ Len(<<>>) = 0 /\ DOMAIN <<>> = {}
      /\ Listed = {}
  BY DEF Listed
<1>2. qWaitingVMs \in Seq(Loads)
  <2>1. PICK n \in 0..MaxQueue : qWaitingVMs \in [1..n -> Loads]
    BY DEF BoundedSeq, SeqOf
  <2> QED  BY <2>1
<1>3. utilization \in [Servers -> Nat \cup {NaN}]
  <2>1. Utilizations \cup {0} \subseteq Nat \cup {NaN}
    BY UtilizationAssumption
  <2> QED  BY <2>1
<1>4. Types
  BY <1>1, <1>2, <1>3 DEF Types
<1> QED  BY <1>1, <1>4 DEF IInv, Distinct, Entries, Recorded, Counted, Left

(* The candidates as the array lists them, whatever the ranking. *)
LEMMA CollectKeeps ==
  ASSUME IInv, pc = "collect", NEW order \in SetToSeqs(active),
         serverScheduling' = [i \in DOMAIN order |-> Candidate(order[i])],
         UNCHANGED <<algorithm, active, temperature, isPOOL, utilization, qWaitingVMs,
                     l, full>>
  PROVE  /\ serverScheduling' \in Seq(Entry) /\ Len(serverScheduling') \in Nat
         /\ l' = 1 /\ full' = 0
         /\ Distinct' /\ Recorded' /\ Listed' = active /\ Listed' \cap isPOOL' = {}
         /\ Counted'
<1> USE DEF IInv
<1>1. /\ order \in [1..Cardinality(active) -> active] /\ Cardinality(active) \in Nat
      /\ \A i, j \in DOMAIN order : order[i] = order[j] => i = j
      /\ \A s \in active : \E i \in DOMAIN order : order[i] = s
  BY OrderLists DEF Types
<1>2. /\ l = 1 /\ full = 0
      /\ active \subseteq Servers /\ isPOOL \subseteq Servers \ active
      /\ temperature \in [Servers -> Temperatures]
      /\ utilization \in [Servers -> Nat \cup {NaN}]
  BY DEF Entries, Types
<1>3. \A s \in Servers :
        /\ Candidate(s) \in Entry /\ Candidate(s).server = s
        /\ Candidate(s).temperature = temperature[s]
        /\ Candidate(s).utilizationCPU = utilization[s]
  BY <1>2 DEF Candidate, Entry
<1>4. \A i \in 1..Cardinality(active) : order[i] \in Servers
  BY <1>1, <1>2
<1>5. serverScheduling' \in [1..Cardinality(active) -> Entry]
  BY <1>1, <1>3, <1>4
<1>6. serverScheduling' \in Seq(Entry) /\ Len(serverScheduling') \in Nat
      /\ DOMAIN serverScheduling' = 1..Cardinality(active) /\ DOMAIN order = 1..Cardinality(active)
  BY <1>1, <1>5
<1>7. \A i \in DOMAIN serverScheduling' :
        /\ serverScheduling'[i].server = order[i]
        /\ serverScheduling'[i].temperature = temperature[order[i]]
        /\ serverScheduling'[i].utilizationCPU = utilization[order[i]]
  BY <1>3, <1>4, <1>6
<1>8. Listed' = active
  BY <1>1, <1>6, <1>7 DEF Listed
<1>9. Distinct'
  BY <1>1, <1>6, <1>7 DEF Distinct
<1>10. Recorded'
  <2> SUFFICES ASSUME NEW i \in DOMAIN serverScheduling'
               PROVE  LET f == serverScheduling'[i] IN
                      /\ f.temperature = temperature[f.server]
                      /\ f.utilizationCPU # NaN =>
                           \E load \in Unseen(f.server) :
                             utilization[f.server] = f.utilizationCPU + load
    BY DEF Recorded, Unseen
  <2> SUFFICES /\ serverScheduling'[i].temperature
                    = temperature[serverScheduling'[i].server]
               /\ serverScheduling'[i].utilizationCPU
                    = utilization[serverScheduling'[i].server]
               /\ utilization[serverScheduling'[i].server] \in Nat \cup {NaN}
    <3>1. 0 \in Unseen(serverScheduling'[i].server)
      BY UnseenIsLoad
    <3>2. utilization[serverScheduling'[i].server] + 0 = utilization[serverScheduling'[i].server]
      BY Constants
    <3> QED  BY <3>1, <3>2
  <2> QED  BY <1>2, <1>4, <1>6, <1>7
<1>11. Counted'
  BY <1>2 DEF Counted
<1> QED  BY <1>2, <1>6, <1>8, <1>9, <1>10, <1>11

(* An entry gets the next VM: the array counts what the server gets. *)
LEMMA EntryKeeps ==
  ASSUME IInv, qWaitingVMs # <<>>, NEW i \in DOMAIN serverScheduling,
         Plus(serverScheduling[i].utilizationCPU, Head1) # NaN,
         Give(serverScheduling[i].server),
         serverScheduling' = [serverScheduling EXCEPT ![i].utilizationCPU = @ + Head1],
         UNCHANGED <<algorithm, active, temperature, isPOOL>>
  PROVE  /\ utilization' \in [Servers -> Nat \cup {NaN}]
         /\ qWaitingVMs' \in Seq(Loads)
         /\ serverScheduling' \in Seq(Entry)
         /\ Len(serverScheduling') = Len(serverScheduling)
         /\ Distinct' /\ Recorded' /\ Listed' = Listed
<1> DEFINE e == serverScheduling[i]
           s == e.server
           new == Loaded(e, Head1)
<1> USE DEF IInv
<1>1. /\ serverScheduling \in Seq(Entry) /\ e \in Entry /\ Head1 \in Nat \ {0}
      /\ Len(serverScheduling) \in Nat
      /\ DOMAIN serverScheduling = 1..Len(serverScheduling)
  BY HeadTail DEF Types
<1>2. /\ s \in Servers /\ e.utilizationCPU \in Nat /\ e.utilizationCPU # NaN
      /\ new \in Entry /\ new.server = s /\ new.temperature = e.temperature
      /\ new.utilizationCPU = e.utilizationCPU + Head1
  <2>1. s \in Servers /\ e.utilizationCPU \in Nat /\ e.utilizationCPU # NaN
    BY <1>1, EntryFields, Constants DEF Plus
  <2> QED  BY <1>1, <2>1, LoadedEntry
<1>3. serverScheduling' = [serverScheduling EXCEPT ![i] = new]
  BY <1>1 DEF Loaded
<1>4. Give(s)
  OBVIOUS
<1> HIDE DEF s
<1>5. /\ utilization' \in [Servers -> Nat \cup {NaN}]
      /\ qWaitingVMs' \in Seq(Loads)
      /\ utilization'[s] = Plus(utilization[s], Head1)
      /\ \A t \in Servers : utilization[t] # NaN =>
           utilization'[t] # NaN /\ utilization[t] <= utilization'[t]
  BY <1>2, <1>4, GiveKeeps
<1> HIDE DEF new, e
<1>6. /\ serverScheduling' \in Seq(Entry)
      /\ Len(serverScheduling') = Len(serverScheduling)
      /\ DOMAIN serverScheduling' = DOMAIN serverScheduling
  BY <1>1, <1>2, <1>3
<1>7. \A j \in DOMAIN serverScheduling :
        serverScheduling'[j] = IF j = i THEN new ELSE serverScheduling[j]
  BY <1>1, <1>3
<1>8. \A j \in DOMAIN serverScheduling :
        /\ serverScheduling'[j].server = serverScheduling[j].server
        /\ serverScheduling'[j].temperature = serverScheduling[j].temperature
  BY <1>2, <1>7 DEF e, s
<1>9. Distinct'
  BY <1>6, <1>8 DEF Distinct
<1>10. Listed' = Listed
  BY <1>6, <1>8 DEF Listed
<1>11. Recorded'
  <2> SUFFICES ASSUME NEW j \in DOMAIN serverScheduling
               PROVE  LET f == serverScheduling'[j] IN
                      /\ f.temperature = temperature[f.server]
                      /\ f.utilizationCPU # NaN =>
                           \E load \in Unseen(f.server) :
                             utilization'[f.server] = f.utilizationCPU + load
    BY <1>6 DEF Recorded, Unseen
  <2>1. CASE j = i
    <3>1. /\ e.temperature = temperature[s] /\ utilization[s] \in Nat
          /\ utilization[s] # NaN
      BY <1>2, EntryLoad DEF Recorded, e, s
    <3>2. PICK load \in Unseen(s) : load \in Nat /\ utilization[s] = e.utilizationCPU + load
      BY <1>2, EntryLoad DEF e, s
    <3>3. utilization'[s] = (e.utilizationCPU + Head1) + load
      BY <1>1, <1>2, <1>5, <3>1, <3>2 DEF Plus
    <3>4. /\ serverScheduling'[j].server = s
          /\ serverScheduling'[j].temperature = e.temperature
          /\ serverScheduling'[j].utilizationCPU = e.utilizationCPU + Head1
      BY <1>2, <1>7, <2>1
    <3> QED  BY <3>1, <3>2, <3>3, <3>4
  <2>2. CASE j # i
    <3>1. serverScheduling'[j] = serverScheduling[j]
      BY <1>7, <2>2
    <3>2. serverScheduling[j].server \in Servers /\ serverScheduling[j].server # s
      BY <1>1, <2>2, EntryFields DEF Distinct, e, s
    <3>3. utilization'[serverScheduling[j].server] = utilization[serverScheduling[j].server]
      BY <1>2, <1>4, <3>2, GiveKeeps
    <3>4. Recorded
      OBVIOUS
    <3> QED  BY ONLY <3>1, <3>3, <3>4 DEF Recorded
  <2> QED  BY <2>1, <2>2
<1> QED  BY <1>5, <1>6, <1>9, <1>10, <1>11

-----------------------------------------------------------------------------
(* One step of the 2D schedulers. *)
LEMMA CollectInv == IInv /\ Collect => IInv'
<1> SUFFICES ASSUME IInv, Collect  PROVE IInv'
  OBVIOUS
<1> USE DEF Collect, frame, extra
<1>1. PICK order \in SetToSeqs(active) :
        serverScheduling' = [i \in DOMAIN order |-> Candidate(order[i])]
  BY DEF Rankings
<1>2. /\ serverScheduling' \in Seq(Entry) /\ Len(serverScheduling') \in Nat
      /\ l' = 1 /\ full' = 0
      /\ Distinct' /\ Recorded' /\ Listed' = active /\ Listed' \cap isPOOL' = {}
      /\ Counted'
  BY <1>1, CollectKeeps
<1>3. Types'
  BY <1>2 DEF IInv, Types
<1>4. Entries'
  BY <1>2 DEF Entries, TwoD, VB
<1> QED  BY <1>2, <1>3, <1>4 DEF IInv, Left

LEMMA AssignInv == IInv /\ Assign => IInv'
<1> SUFFICES ASSUME IInv, Assign  PROVE IInv'
  OBVIOUS
<1> USE DEF Assign, frame, extra
<1>1. /\ l \in DOMAIN serverScheduling /\ l \in Nat \ {0}
      /\ Len(serverScheduling) \in Nat /\ full \in Nat
  BY DEF IInv, Types
<1>2. Plus(serverScheduling[l].utilizationCPU, Head1) # NaN
  BY DEF Fits
<1>3. /\ utilization' \in [Servers -> Nat \cup {NaN}]
      /\ qWaitingVMs' \in Seq(Loads)
      /\ serverScheduling' \in Seq(Entry)
      /\ Len(serverScheduling') = Len(serverScheduling)
      /\ Distinct' /\ Recorded' /\ Listed' = Listed
  BY <1>1, <1>2, EntryKeeps
<1>4. Types'
  BY <1>1, <1>3 DEF IInv, Types
<1>5. Entries'
  BY <1>3 DEF IInv, Entries, TwoD, VB
<1>6. Counted'
  BY <1>1 DEF IInv, Counted
<1> QED  BY <1>3, <1>4, <1>5, <1>6 DEF IInv, Left

LEMMA SkipInv == IInv /\ Skip => IInv'
<1> SUFFICES ASSUME IInv, Skip  PROVE IInv'
  OBVIOUS
<1> USE DEF Skip, frame, extra
<1>1. /\ l \in 1..Len(serverScheduling) /\ Len(serverScheduling) \in Nat
      /\ full \in Nat /\ full <= l - 1
  BY DEF IInv, Types, Counted
<1>2. Types'
  BY <1>1 DEF IInv, Types
<1>3. Distinct' /\ Recorded' /\ Left' /\ Entries'
  BY DEF IInv, Distinct, Recorded, Unseen, Left, Entries, Listed, TwoD, VB
<1>4. Counted'
  <2>1. full' <= l' - 1
    BY <1>1
  <2>2. ASSUME full' = l' - 1, NEW i \in 1..(l' - 1)
        PROVE  IsFull(serverScheduling[i])
    <3>1. full = l - 1 /\ IsFull(serverScheduling[l])
      BY <1>1, <2>2
    <3>2. i = l \/ i \in 1..(l - 1)
      BY <1>1
    <3> QED  BY <3>1, <3>2 DEF IInv, Counted
  <2> QED  BY <2>1, <2>2 DEF Counted, IsFull, Head1
<1> QED  BY <1>2, <1>3, <1>4 DEF IInv

LEMMA NextRoundInv == IInv /\ NextRound => IInv'
<1> SUFFICES ASSUME IInv, NextRound  PROVE IInv'
  OBVIOUS
<1> USE DEF NextRound, RoundOver, frame, extra
<1>1. Len(serverScheduling) \in Nat
  BY DEF IInv, Types
<1>2. Types'
  BY <1>1 DEF IInv, Types
<1>3. Distinct' /\ Recorded' /\ Left' /\ Entries'
  BY DEF IInv, Distinct, Recorded, Unseen, Left, Entries, Listed, TwoD, VB
<1> QED  BY <1>2, <1>3 DEF IInv, Counted

LEMMA TakeFromPoolInv == IInv /\ TakeFromPool => IInv'
<1> SUFFICES ASSUME IInv, TakeFromPool  PROVE IInv'
  OBVIOUS
<1> USE DEF TakeFromPool, RoundOver, frame, extra
<1>1. PICK s \in isPOOL :
        /\ isPOOL' = isPOOL \ {s}
        /\ serverScheduling' = Append(serverScheduling, Candidate(s))
        /\ Give(s)
  BY DEF Coldest
<1>2. /\ serverScheduling \in Seq(Entry) /\ Len(serverScheduling) \in Nat
      /\ DOMAIN serverScheduling = 1..Len(serverScheduling)
      /\ s \in Servers /\ utilization[s] \in Nat \cup {NaN}
      /\ temperature[s] \in Temperatures
  BY <1>1 DEF IInv, Types
<1>3. /\ Candidate(s) \in Entry /\ Candidate(s).server = s
      /\ Candidate(s).temperature = temperature[s]
      /\ Candidate(s).utilizationCPU = utilization[s]
  BY <1>2 DEF Candidate, Entry
<1>4. /\ serverScheduling' \in Seq(Entry)
      /\ Len(serverScheduling') = Len(serverScheduling) + 1
      /\ DOMAIN serverScheduling' = DOMAIN serverScheduling \cup {Len(serverScheduling) + 1}
      /\ \A i \in DOMAIN serverScheduling : serverScheduling'[i] = serverScheduling[i]
      /\ serverScheduling'[Len(serverScheduling) + 1] = Candidate(s)
  BY <1>1, <1>2, <1>3
<1>5. /\ utilization' \in [Servers -> Nat \cup {NaN}]
      /\ qWaitingVMs' \in Seq(Loads)
      /\ \A t \in Servers : utilization[t] # NaN =>
           utilization'[t] # NaN /\ utilization[t] <= utilization'[t]
  BY <1>1, <1>2, GiveKeeps DEF IInv
<1>6. Listed' = Listed \cup {s} /\ s \notin Listed
  BY <1>1, <1>3, <1>4 DEF Listed, IInv, Entries
<1>7. Types'
  BY <1>1, <1>2, <1>4, <1>5 DEF IInv, Types
<1>8. Distinct'
  <2>1. \A i \in DOMAIN serverScheduling : serverScheduling[i].server # s
    BY <1>6 DEF Listed
  <2> QED  BY <1>3, <1>4, <2>1 DEF IInv, Distinct
<1>9. Entries'
  BY <1>1, <1>6 DEF IInv, Entries, TwoD, VB
<1>10. Recorded'
  <2> SUFFICES ASSUME NEW i \in DOMAIN serverScheduling'
               PROVE  LET f == serverScheduling'[i] IN
                      /\ f.temperature = temperature[f.server]
                      /\ f.utilizationCPU # NaN =>
                           \E load \in Unseen(f.server) :
                             utilization'[f.server] = f.utilizationCPU + load
    BY DEF Recorded, Unseen
  <2>1. CASE i \in DOMAIN serverScheduling
    <3>1. serverScheduling'[i] = serverScheduling[i]
      BY <1>4, <2>1
    <3>2. serverScheduling[i].server \in Servers /\ serverScheduling[i].server # s
      BY <1>2, <1>6, <2>1, EntryFields DEF Listed
    <3>3. utilization'[serverScheduling[i].server] = utilization[serverScheduling[i].server]
      BY <1>1, <1>2, <3>2, GiveKeeps DEF IInv
    <3> QED  BY <2>1, <3>1, <3>3 DEF IInv, Recorded
  <2>2. CASE i \notin DOMAIN serverScheduling
    <3>1. serverScheduling'[i] = Candidate(s)
      BY <1>4, <2>2
    <3>2. Head1 \in Unseen(s)
      <4>1. Head1 \in Loads
        BY HeadTailProperties DEF IInv, Types, Head1
      <4>2. s \notin active
        BY <1>1 DEF IInv, Types
      <4> QED  BY <4>1, <4>2 DEF Unseen
    <3>3. utilization'[s] = Plus(utilization[s], Head1)
      BY <1>1, <1>2, GiveKeeps DEF IInv
    <3> QED  BY <1>3, <3>1, <3>2, <3>3 DEF Plus
  <2> QED  BY <2>1, <2>2
<1>11. Counted' /\ Left'
  BY DEF IInv, Counted, Left
<1> QED  BY <1>7, <1>8, <1>9, <1>10, <1>11 DEF IInv

LEMMA EndAssignInv == IInv /\ EndAssign => IInv'
<1> SUFFICES ASSUME IInv, EndAssign  PROVE IInv'
  OBVIOUS
<1> USE DEF EndAssign, RoundOver, frame, extra
<1>1. Types' /\ Distinct' /\ Recorded' /\ Entries'
  BY DEF IInv, Types, Distinct, Recorded, Unseen, Entries, Listed, TwoD, VB
<1>2. Counted'
  BY DEF IInv, Counted, IsFull, Head1
<1>3. Left'
  <2> SUFFICES ASSUME qWaitingVMs # <<>>
               PROVE  TwoD /\ isPOOL = {} /\ \A s \in active : CannotTake(s)
    BY DEF Left, TwoD, CannotTake, Head1
  <2>1. TwoD /\ active \subseteq Listed
    BY DEF IInv, Entries
  <2>2. AllFull /\ isPOOL = {}
    OBVIOUS
  <2> QED  BY <2>1, <2>2, FullServers
<1> QED  BY <1>1, <1>2, <1>3 DEF IInv

-----------------------------------------------------------------------------
(* One step of the other schedulers. *)
LEMMA BestAreServers ==
  ASSUME IInv, Place
  PROVE  Best \subseteq Servers
<1>1. On \subseteq Servers
  BY DEF On, IInv, Types
<1>2. \A preference : FirstFit(preference) \subseteq Servers
  BY <1>1 DEF FirstFit, FirstOf
<1>3. \A max : LeastLoaded(max) \subseteq Servers
  BY <1>1 DEF LeastLoaded
<1>4. algorithm \in {"best_performance", "uniform_task", "low_temp_first",
                     "random", "min_hr", "center_rack_first"}
  BY SchedulingAssumption DEF Place, IInv, Types, TwoD, VB
<1> QED  BY <1>2, <1>3, <1>4
    DEF Best, LowTemperatureFirst, MinHR, CenterRackFirst, UniformTask, BestPerformance

LEMMA PlaceInv == IInv /\ (Place \/ PlaceXint \/ EndPlace) => IInv'
<1> SUFFICES ASSUME IInv, Place \/ PlaceXint \/ EndPlace  PROVE IInv'
  OBVIOUS
<1>1. /\ pc = "collect" /\ serverScheduling = <<>> /\ Listed = {}
      /\ l = 1 /\ full = 0 /\ ~ TwoD
      /\ UNCHANGED <<algorithm, active, temperature, isPOOL, serverScheduling, l,
                     full, RemovePOOL>>
  BY DEF IInv, Entries, Listed, Place, PlaceXint, EndPlace, frame, extra, TwoD
<1>2. /\ utilization' \in [Servers -> Nat \cup {NaN}]
      /\ qWaitingVMs' \in Seq(Loads)
      /\ pc' = "collect" \/ (pc' = "done" /\ qWaitingVMs' = <<>>)
  <2>1. CASE EndPlace
    BY <2>1 DEF EndPlace, IInv, Types
  <2>2. CASE Place
    <3>1. PICK s \in Best : Give(s)
      BY <2>2 DEF Place
    <3> QED  BY <2>2, <3>1, BestAreServers, GiveKeeps DEF Place, IInv
  <2>3. CASE PlaceXint
    <3>1. PICK s \in Xint : Give(s)
      BY <2>3 DEF PlaceXint
    <3>2. s \in Servers
      BY <3>1 DEF Xint, On, IInv, Types
    <3> QED  BY <2>3, <3>1, <3>2, GiveKeeps DEF PlaceXint, IInv
  <2> QED  BY <2>1, <2>2, <2>3
<1>3. Types'
  BY <1>1, <1>2 DEF IInv, Types
<1>4. Entries'
  BY <1>1, <1>2 DEF IInv, Entries, Listed, TwoD, VB
<1>5. Distinct' /\ Recorded' /\ Counted' /\ Left'
  BY <1>1, <1>2 DEF Distinct, Recorded, Counted, Left
<1> QED  BY <1>3, <1>4, <1>5 DEF IInv

LEMMA FirstIsLeast ==
  ASSUME NEW S, S \subseteq Nat, S # {}
  PROVE  Min(S) \in S /\ \A i \in S : Min(S) <= i
<1>1. PICK n \in S : \A i \in S : n <= i
  BY LeastNumber
<1> QED  BY <1>1 DEF Min

(* An entry of 2D_VB gets a VM, or none. *)
LEMMA GiveVBKeeps ==
  ASSUME IInv, qWaitingVMs # <<>>, NEW i \in DOMAIN serverScheduling,
         FitsVB(serverScheduling[i]), GiveVB(i),
         UNCHANGED <<algorithm, active, temperature, isPOOL>>
  PROVE  /\ utilization' \in [Servers -> Nat \cup {NaN}]
         /\ qWaitingVMs' \in Seq(Loads)
         /\ serverScheduling' \in Seq(Entry)
         /\ Len(serverScheduling') = Len(serverScheduling)
         /\ Distinct' /\ Recorded' /\ Listed' = Listed
<1>1. Plus(serverScheduling[i].utilizationCPU, Head1) # NaN
  BY DEF FitsVB
<1> QED  BY <1>1, EntryKeeps DEF GiveVB

LEMMA CollectVBInv == IInv /\ CollectVB => IInv'
<1> SUFFICES ASSUME IInv, CollectVB  PROVE IInv'
  OBVIOUS
<1> USE DEF CollectVB, frame, extra
<1>1. CASE qWaitingVMs = <<>>
  <2>1. Types' /\ Distinct' /\ Recorded' /\ Counted' /\ Left'
    BY <1>1 DEF IInv, Types, Distinct, Recorded, Unseen, Counted, Left
  <2>2. Entries'
    BY <1>1 DEF IInv, Entries, Listed, TwoD, VB
  <2> QED  BY <2>1, <2>2 DEF IInv
<1>2. CASE qWaitingVMs # <<>>
  <2>1. PICK order \in SetToSeqs(active) :
          serverScheduling' = [i \in DOMAIN order |-> Candidate(order[i])]
    BY <1>2
  <2>2. /\ serverScheduling' \in Seq(Entry) /\ Len(serverScheduling') \in Nat
        /\ l' = 1 /\ full' = 0
        /\ Distinct' /\ Recorded' /\ Listed' = active /\ Listed' \cap isPOOL' = {}
        /\ Counted'
    BY <2>1, CollectKeeps
  <2>3. pc' = "first"
    BY <1>2
  <2>4. Types'
    BY <2>2, <2>3 DEF IInv, Types
  <2>5. Entries'
    BY <2>2, <2>3 DEF Entries, TwoD, VB
  <2> QED  BY <2>2, <2>3, <2>4, <2>5 DEF IInv, Left
<1> QED  BY <1>1, <1>2

LEMMA AssignFirstInv == IInv /\ AssignFirst => IInv'
<1> SUFFICES ASSUME IInv, AssignFirst  PROVE IInv'
  OBVIOUS
<1> USE DEF AssignFirst, frame, extra
<1> DEFINE i == Min(FirstRound)
<1>1. Len(serverScheduling) \in Nat /\ DOMAIN serverScheduling \subseteq Nat
  BY DEF IInv, Types
<1>2. i \in FirstRound
  BY <1>1, FirstIsLeast DEF FirstRound
<1>3. i \in DOMAIN serverScheduling /\ FitsVB(serverScheduling[i]) /\ GiveVB(i)
  BY <1>2 DEF FirstRound
<1> HIDE DEF i
<1>4. /\ utilization' \in [Servers -> Nat \cup {NaN}]
      /\ qWaitingVMs' \in Seq(Loads)
      /\ serverScheduling' \in Seq(Entry)
      /\ Len(serverScheduling') = Len(serverScheduling)
      /\ Distinct' /\ Recorded' /\ Listed' = Listed
  BY <1>3, GiveVBKeeps
<1>5. full = 0 /\ VB /\ ~ TwoD
  BY DEF IInv, Entries, VB, TwoD
<1>6. Types'
  BY <1>4 DEF IInv, Types
<1>7. Entries'
  BY <1>4, <1>5 DEF IInv, Entries, TwoD, VB
<1>8. Counted' /\ Left'
  BY <1>1, <1>5 DEF IInv, Types, Counted, Left
<1> QED  BY <1>4, <1>6, <1>7, <1>8 DEF IInv

LEMMA SecondRoundInv == IInv /\ (SecondRound \/ FirstRoundAgain \/ EndVB) => IInv'
<1> SUFFICES ASSUME IInv, SecondRound \/ FirstRoundAgain \/ EndVB  PROVE IInv'
  OBVIOUS
<1>1. /\ full = 0 /\ VB /\ ~ TwoD /\ l \in Nat \ {0} /\ Len(serverScheduling) \in Nat
      /\ l' = l \/ l' = 1
      /\ pc' \in {"first", "second"} \/ (pc' = "done" /\ qWaitingVMs' = <<>>)
      /\ UNCHANGED <<algorithm, active, temperature, isPOOL, utilization, qWaitingVMs,
                     serverScheduling, full, RemovePOOL>>
  BY DEF IInv, Types, Entries, VB, TwoD, SecondRound, FirstRoundAgain, EndVB, frame,
         extra
<1>2. Types'
  BY <1>1 DEF IInv, Types
<1>3. Entries'
  BY <1>1 DEF IInv, Entries, Listed, TwoD, VB
<1>4. Counted' /\ Left'
  BY <1>1 DEF Counted, Left
<1> QED  BY <1>1, <1>2, <1>3, <1>4 DEF IInv, Distinct, Recorded, Unseen

LEMMA AssignSecondInv == IInv /\ AssignSecond => IInv'
<1> SUFFICES ASSUME IInv, AssignSecond  PROVE IInv'
  OBVIOUS
<1> USE DEF AssignSecond, frame, extra
<1>1. /\ l \in DOMAIN serverScheduling /\ l \in Nat \ {0}
      /\ Len(serverScheduling) \in Nat /\ l <= Len(serverScheduling)
      /\ full = 0 /\ VB /\ ~ TwoD
  BY DEF IInv, Types, Entries, VB, TwoD
<1>2. /\ utilization' \in [Servers -> Nat \cup {NaN}]
      /\ qWaitingVMs' \in Seq(Loads)
      /\ serverScheduling' \in Seq(Entry)
      /\ Len(serverScheduling') = Len(serverScheduling)
      /\ Distinct' /\ Recorded' /\ Listed' = Listed
  <2>1. CASE FitsVB(serverScheduling[l])
    BY <1>1, <2>1, GiveVBKeeps
  <2>2. CASE ~ FitsVB(serverScheduling[l])
    BY <2>2 DEF IInv, Types, Distinct, Recorded, Unseen, Listed
  <2> QED  BY <2>1, <2>2
<1>3. Types'
  BY <1>1, <1>2 DEF IInv, Types
<1>4. Entries'
  BY <1>1, <1>2 DEF IInv, Entries, TwoD, VB
<1>5. Counted' /\ Left'
  BY <1>1 DEF Counted, Left
<1> QED  BY <1>2, <1>3, <1>4, <1>5 DEF IInv

LEMMA NextIInv == IInv /\ [Next]_vars => IInv'
<1> SUFFICES ASSUME IInv, [Next]_vars  PROVE IInv'
  OBVIOUS
<1>1. CASE UNCHANGED vars
  BY <1>1 DEF vars, frame, extra, IInv, Types, Distinct, Entries, Recorded, Unseen, Counted, Left,
              Listed, TwoD, VB, IsFull, Head1, CannotTake
<1>2. CASE Next
  BY <1>2, CollectInv, AssignInv, SkipInv, NextRoundInv, TakeFromPoolInv, EndAssignInv,
     PlaceInv, CollectVBInv, AssignFirstInv, SecondRoundInv, AssignSecondInv
  DEF Next
<1> QED  BY <1>1, <1>2

LEMMA SpecIInv == Spec => []IInv
  BY InitIInv, NextIInv, PTL DEF Spec

-----------------------------------------------------------------------------
(* What a step does to the servers, as ServersPool sees it. *)
LEMMA GiveImplements ==
  ASSUME IInv, pc # "done", pc' # "done", qWaitingVMs # <<>>,
         NEW s \in Listed, Give(s), Listed' = Listed,
         UNCHANGED <<active, isPOOL, RemovePOOL>>
  PROVE  [Pool!Next]_(Pool!vars)
<1>1. s \in Servers /\ s \notin isPOOL /\ active \subseteq Servers /\ FromPool \subseteq Servers
      /\ FromPool' = FromPool
  <2>1. \A i \in DOMAIN serverScheduling : serverScheduling[i] \in Entry
    BY DEF IInv, Types
  <2>2. Listed \subseteq Servers
    BY <2>1, EntryFields DEF Listed
  <2> QED  BY <2>2 DEF IInv, Types, Entries, FromPool
<1>2. /\ utilization'[s] # 0
      /\ \A t \in Servers : t # s => utilization'[t] = utilization[t]
  BY <1>1, GiveKeeps DEF IInv
<1>3. {t \in Servers : utilization'[t] # 0} = {t \in Servers : utilization[t] # 0} \cup {s}
  BY <1>1, <1>2
<1>4. CASE utilization[s] # 0
  <2>1. {t \in Servers : utilization'[t] # 0} = {t \in Servers : utilization[t] # 0}
    BY <1>1, <1>3, <1>4
  <2> QED  BY <1>1, <2>1 DEF Pool!vars, Pool!flags, Pool!vectors, Pool!pass
<1>5. CASE utilization[s] = 0
  <2>1. Pool!AssignOneVM(s)
    BY <1>1, <1>3, <1>5
    DEF Pool!AssignOneVM, Pool!Active, Pool!flags, Pool!vectors, Pool!pass, FromPool
  <2> QED  BY <1>1, <2>1 DEF Pool!Next
<1> QED  BY <1>4, <1>5

(* Steps of the array alone. *)
LEMMA QuietImplements ==
  ASSUME pc # "done", pc' # "done", FromPool' = FromPool,
         UNCHANGED <<active, isPOOL, utilization, RemovePOOL>>
  PROVE  [Pool!Next]_(Pool!vars)
  BY DEF Pool!vars, Pool!flags, Pool!vectors, Pool!pass

LEMMA EndImplements ==
  ASSUME pc # "done", pc' = "done", FromPool' = FromPool,
         UNCHANGED <<active, isPOOL, utilization, RemovePOOL>>
  PROVE  [Pool!Next]_(Pool!vars)
<1>1. Pool!EndAssign
  BY DEF Pool!EndAssign, Pool!flags, Pool!vectors, Pool!pass
<1> QED  BY <1>1 DEF Pool!Next

LEMMA TakeImplements ==
  ASSUME IInv, TakeFromPool
  PROVE  [Pool!Next]_(Pool!vars)
<1> USE DEF TakeFromPool, RoundOver, frame, extra
<1>1. PICK s \in isPOOL :
        /\ isPOOL' = isPOOL \ {s}
        /\ serverScheduling' = Append(serverScheduling, Candidate(s))
        /\ Give(s)
  BY DEF Coldest
<1>2. s \in Servers /\ s \notin active /\ isPOOL \subseteq Servers
  BY <1>1 DEF IInv, Types
<1>3. /\ utilization'[s] # 0
      /\ \A t \in Servers : t # s => utilization'[t] = utilization[t]
  BY <1>1, <1>2, GiveKeeps DEF IInv
<1>4. {t \in Servers : utilization'[t] # 0} = {t \in Servers : utilization[t] # 0} \cup {s}
  BY <1>2, <1>3
<1>5. FromPool' = FromPool \cup {s}
  <2>1. /\ serverScheduling \in Seq(Entry) /\ Len(serverScheduling) \in Nat
        /\ DOMAIN serverScheduling = 1..Len(serverScheduling)
        /\ Candidate(s).server = s
    BY DEF IInv, Types, Candidate
  <2>2. /\ DOMAIN serverScheduling' = DOMAIN serverScheduling \cup {Len(serverScheduling) + 1}
        /\ \A i \in DOMAIN serverScheduling : serverScheduling'[i] = serverScheduling[i]
        /\ serverScheduling'[Len(serverScheduling) + 1] = Candidate(s)
    BY <1>1, <2>1
  <2>3. Listed' = Listed \cup {s}
    BY <2>1, <2>2 DEF Listed
  <2> QED  BY <1>2, <2>3 DEF FromPool
<1>6. active \cup isPOOL' \cup FromPool' = active \cup isPOOL \cup FromPool
  BY <1>1, <1>5
<1>7. [t \in Servers |-> IF t \in isPOOL' THEN 1 ELSE 0] =
        [[t \in Servers |-> IF t \in isPOOL THEN 1 ELSE 0] EXCEPT ![s] = @ - 1]
  <2> DEFINE pooled == [t \in Servers |-> IF t \in isPOOL THEN 1 ELSE 0]
  <2>1. pooled[s] - 1 = 0
    BY <1>1, <1>2
  <2>2. \A t \in Servers :
          (IF t \in isPOOL' THEN 1 ELSE 0) =
            IF t = s THEN pooled[s] - 1 ELSE pooled[t]
    BY <1>1, <2>1
  <2>3. [pooled EXCEPT ![s] = pooled[s] - 1] =
          [t \in Servers |-> IF t = s THEN pooled[s] - 1 ELSE pooled[t]]
    OBVIOUS
  <2> QED  BY <2>2, <2>3
<1>8. Pool!AssignFromPool(s)
  BY <1>1, <1>2, <1>4, <1>6, <1>7
  DEF Pool!AssignFromPool, Pool!RemoveServerPOOL, Pool!EraseFirst, Pool!removePOOL,
      Pool!pass
<1> QED  BY <1>2, <1>8 DEF Pool!Next

LEMMA StepImplements ==
  ASSUME IInv, [Next]_vars, TwoD \/ VB
  PROVE  [Pool!Next]_(Pool!vars)
<1>1. CASE UNCHANGED vars
  BY <1>1 DEF vars, frame, extra, Listed, FromPool, Pool!vars, Pool!flags, Pool!vectors,
              Pool!pass
<1>2. CASE Collect \/ CollectVB
  <2>1. /\ pc = "collect" /\ Listed = {} /\ FromPool = {}
        /\ UNCHANGED <<active, isPOOL, utilization, RemovePOOL>>
    BY <1>2 DEF Collect, CollectVB, frame, extra, IInv, Entries, Listed, FromPool
  <2>2. CASE pc' = "done"
    <3>1. FromPool' = {}
      BY <1>2, <2>1, <2>2 DEF Collect, CollectVB, Listed, FromPool
    <3> QED  BY <2>1, <2>2, <3>1, EndImplements
  <2>3. CASE pc' # "done"
    <3>1. PICK order \in SetToSeqs(active) :
            serverScheduling' = [i \in DOMAIN order |-> Candidate(order[i])]
      BY <1>2, <2>3 DEF Collect, CollectVB, Rankings
    <3>2. Listed' = active
      BY <1>2, <2>1, <2>3, <3>1, CollectKeeps DEF Collect, CollectVB, frame, extra
    <3>3. FromPool' = {}
      BY <2>1, <3>2 DEF FromPool
    <3> QED  BY <2>1, <2>3, <3>3, QuietImplements
  <2> QED  BY <2>2, <2>3
<1>3. CASE Assign
  <2>1. l \in DOMAIN serverScheduling
    BY <1>3 DEF Assign, IInv, Types
  <2>2. Plus(serverScheduling[l].utilizationCPU, Head1) # NaN
    BY <1>3 DEF Assign, Fits
  <2>3. Listed' = Listed
    BY <1>3, <2>1, <2>2, EntryKeeps DEF Assign, frame, extra
  <2>4. serverScheduling[l].server \in Listed /\ Give(serverScheduling[l].server)
    BY <1>3, <2>1 DEF Assign, Listed
  <2> QED  BY <1>3, <2>3, <2>4, GiveImplements DEF Assign, frame, extra
<1>4. CASE Skip \/ NextRound \/ SecondRound \/ FirstRoundAgain
  <2>1. /\ pc # "done" /\ pc' # "done"
        /\ UNCHANGED <<active, isPOOL, utilization, RemovePOOL, serverScheduling>>
    BY <1>4 DEF Skip, NextRound, RoundOver, SecondRound, FirstRoundAgain, frame, extra
  <2>2. FromPool' = FromPool
    BY <2>1 DEF FromPool, Listed
  <2> QED  BY <2>1, <2>2, QuietImplements
<1>5. CASE TakeFromPool
  BY <1>5, TakeImplements
<1>6. CASE EndAssign \/ EndVB
  <2>1. /\ pc # "done" /\ pc' = "done"
        /\ UNCHANGED <<active, isPOOL, utilization, RemovePOOL, serverScheduling>>
    BY <1>6 DEF EndAssign, RoundOver, EndVB, frame, extra
  <2>2. FromPool' = FromPool
    BY <2>1 DEF FromPool, Listed
  <2> QED  BY <2>1, <2>2, EndImplements
<1>7. CASE Place \/ PlaceXint \/ EndPlace
  BY <1>7 DEF Place, PlaceXint, EndPlace, TwoD, VB
<1>8. CASE AssignFirst
  <2> DEFINE i == Min(FirstRound)
  <2>1. DOMAIN serverScheduling \subseteq Nat
    BY DEF IInv, Types
  <2>2. i \in FirstRound
    BY <1>8, <2>1, FirstIsLeast DEF FirstRound, AssignFirst
  <2>3. /\ i \in DOMAIN serverScheduling /\ FitsVB(serverScheduling[i]) /\ GiveVB(i)
        /\ qWaitingVMs # <<>> /\ pc = "first" /\ pc' = "first"
        /\ UNCHANGED <<algorithm, active, temperature, isPOOL, RemovePOOL>>
    BY <1>8, <2>2 DEF FirstRound, AssignFirst, frame
  <2> HIDE DEF i
  <2>4. Listed' = Listed
    BY <2>3, GiveVBKeeps
  <2>5. serverScheduling[i].server \in Listed /\ Give(serverScheduling[i].server)
    BY <2>3 DEF GiveVB, Listed
  <2> QED  BY <2>3, <2>4, <2>5, GiveImplements
<1>9. CASE AssignSecond
  <2>1. /\ l \in DOMAIN serverScheduling /\ qWaitingVMs # <<>>
        /\ pc = "second" /\ pc' = "second"
        /\ UNCHANGED <<algorithm, active, temperature, isPOOL, RemovePOOL>>
    BY <1>9 DEF AssignSecond, frame, IInv, Types
  <2>2. CASE FitsVB(serverScheduling[l])
    <3>1. GiveVB(l)
      BY <1>9, <2>2 DEF AssignSecond
    <3>2. Listed' = Listed
      BY <2>1, <2>2, <3>1, GiveVBKeeps
    <3>3. serverScheduling[l].server \in Listed /\ Give(serverScheduling[l].server)
      BY <2>1, <3>1 DEF GiveVB, Listed
    <3> QED  BY <2>1, <3>2, <3>3, GiveImplements
  <2>3. CASE ~ FitsVB(serverScheduling[l])
    <3>1. UNCHANGED <<utilization, serverScheduling>>
      BY <1>9, <2>3 DEF AssignSecond
    <3>2. FromPool' = FromPool
      BY <2>1, <3>1 DEF FromPool, Listed
    <3> QED  BY <2>1, <3>1, <3>2, QuietImplements
  <2> QED  BY <2>2, <2>3
<1> QED  BY <1>1, <1>2, <1>3, <1>4, <1>5, <1>6, <1>7, <1>8, <1>9 DEF Next

-----------------------------------------------------------------------------
(* Loads and draws.                                                        *)
LEMMA LargestValue ==
  ASSUME NEW S, IsFiniteSet(S), S # {}, NEW g, \A x \in S : g[x] \in Int
  PROVE  \E i \in S : \A j \in S : g[j] <= g[i]
<1> DEFINE A == {s \in SUBSET S : s # {} => \E i \in s : \A j \in s : g[j] <= g[i]}
<1>1. {} \in A
  OBVIOUS
<1>2. ASSUME NEW s \in SUBSET S, NEW x \in S, s \in A, x \notin s PROVE s \cup {x} \in A
  <2>1. CASE s = {}
    BY <2>1
  <2>2. CASE s # {}
    <3>1. PICK i \in s : \A j \in s : g[j] <= g[i]
      BY <1>2, <2>2
    <3>2. g[i] \in Int /\ g[x] \in Int /\ \A j \in s : g[j] \in Int
      OBVIOUS
    <3>3. CASE g[x] <= g[i]
      BY <3>1, <3>3
    <3>4. CASE ~ g[x] <= g[i]
      <4>1. \A j \in s \cup {x} : g[j] <= g[x]
        BY <3>1, <3>2, <3>4
      <4> QED  BY <4>1
    <3> QED  BY <3>3, <3>4
  <2> QED  BY <2>1, <2>2
<1>3. S \in A
  <2> HIDE DEF A
  <2> QED  BY <1>1, <1>2, SubsetInduction
<1> QED  BY <1>3

LEMMA MaxIsLargest ==
  ASSUME NEW T, T \subseteq Int, NEW m \in T, \A t \in T : t <= m
  PROVE  Max(T) = m
<1>1. \A t \in T : m >= t
  OBVIOUS
<1>2. Max(T) \in T /\ \A t \in T : Max(T) >= t
  BY <1>1 DEF Max
<1>3. \A t \in T : t <= m /\ t >= m => t = m
  OBVIOUS
<1> QED  BY <1>2, <1>3

(* Only the server that gets the VM is loaded more.                        *)
LEMMA GiveRaises ==
  ASSUME Types, qWaitingVMs # <<>>, NEW r \in Servers, Give(r),
         NEW s \in Servers, utilization'[s] > utilization[s]
  PROVE  /\ s = r /\ Head1 \in Nat \ {0}
         /\ utilization[s] \in Nat /\ utilization[s] # NaN
         /\ utilization'[s] = utilization[s] + Head1
<1>1. /\ Head1 \in Nat \ {0} /\ utilization[s] \in Nat \cup {NaN}
      /\ utilization'[r] = Plus(utilization[r], Head1)
      /\ s # r => utilization'[s] = utilization[s]
  BY GiveKeeps, HeadTail DEF Types
<1>2. s = r
  BY <1>1, Constants
<1>3. utilization[s] # NaN
  BY <1>1, <1>2, Constants DEF Plus
<1> QED  BY <1>1, <1>2, <1>3 DEF Plus

LEMMA PowerDrawType ==
  ASSUME NEW u \in Nat \cup {NaN}
  PROVE  PowerDraw(u) \in Nat \cup {NaN} /\ (PowerDraw(u) = NaN <=> u = NaN)
<1>1. CASE u = NaN
  BY <1>1 DEF PowerDraw
<1>2. CASE u # NaN
  <2>1. Min({u, 10}) \in Nat
    BY <1>2, FirstIsLeast
  <2> QED  BY <1>2, <2>1, Constants DEF PowerDraw
<1> QED  BY <1>1, <1>2

(* xint remembers no number for the draw of a server that is on and has no *)
(* number for its load, and for no other.                                  *)
Draws ==
  algorithm = "xint" =>
    /\ draw \in [Servers -> Nat \cup {NaN}]
    /\ \A t \in Servers : draw[t] = NaN <=> t \in On /\ utilization[t] = NaN

LEMMA TriedDraws ==
  ASSUME IInv, Draws, algorithm = "xint", qWaitingVMs # <<>>, NEW s
  PROVE  /\ Tried(s) \in [Servers -> Nat \cup {NaN}]
         /\ \A t \in Servers : Tried(s)[t] = NaN <=> t \in On /\ utilization[t] = NaN
<1>1. ASSUME NEW t \in Servers
      PROVE  /\ PowerDraw(Plus(utilization[t], Head1)) \in Nat \cup {NaN}
             /\ PowerDraw(Plus(utilization[t], Head1)) = NaN <=> utilization[t] = NaN
  <2>1. Head1 \in Nat /\ utilization[t] \in Nat \cup {NaN}
    BY HeadTail DEF IInv, Types
  <2>2. /\ Plus(utilization[t], Head1) \in Nat \cup {NaN}
        /\ Plus(utilization[t], Head1) = NaN <=> utilization[t] = NaN
    BY <2>1, Constants DEF Plus
  <2> QED  BY <2>2, PowerDrawType
<1>2. \A t \in Servers :
        /\ draw[t] \in Nat \cup {NaN}
        /\ draw[t] = NaN <=> t \in On /\ utilization[t] = NaN
  BY DEF Draws
<1>3. \A t \in Servers :
        Tried(s)[t] = IF t \in On /\ t <= s THEN PowerDraw(Plus(utilization[t], Head1)) ELSE draw[t]
  BY DEF Tried
<1>4. ASSUME NEW t \in Servers
      PROVE  /\ Tried(s)[t] \in Nat \cup {NaN}
             /\ Tried(s)[t] = NaN <=> t \in On /\ utilization[t] = NaN
  <2>1. CASE t \in On /\ t <= s
    BY <1>1, <1>3, <2>1
  <2>2. CASE ~ (t \in On /\ t <= s)
    BY <1>2, <1>3, <2>2
  <2> QED  BY <2>1, <2>2
<1> QED  BY <1>4 DEF Tried

LEMMA InitDraws == Init => Draws
<1> SUFFICES ASSUME Init  PROVE Draws
  OBVIOUS
<1>1. /\ utilization \in [Servers -> Nat \cup {NaN}] /\ On \subseteq Servers
      /\ draw = [s \in Servers |-> IF s \in On THEN PowerDraw(utilization[s]) ELSE 0]
  BY InitIInv DEF Init, IInv, Types, On
<1>2. ASSUME NEW t \in Servers
      PROVE  draw[t] \in Nat \cup {NaN} /\ (draw[t] = NaN <=> t \in On /\ utilization[t] = NaN)
  <2>1. /\ PowerDraw(utilization[t]) \in Nat \cup {NaN}
        /\ PowerDraw(utilization[t]) = NaN <=> utilization[t] = NaN
    BY <1>1, PowerDrawType
  <2> QED  BY <1>1, <2>1, Constants
<1> QED  BY <1>1, <1>2 DEF Draws

LEMMA NextDraws == IInv /\ Draws /\ [Next]_vars => Draws'
<1> SUFFICES ASSUME IInv, Draws, [Next]_vars, algorithm' = "xint"  PROVE Draws'
  BY DEF Draws
<1>1. algorithm = "xint" /\ active' = active
  BY DEF Next, vars, frame, extra, Collect, Assign, Skip, NextRound, TakeFromPool, EndAssign,
         Place, PlaceXint, EndPlace, CollectVB, AssignFirst, SecondRound, AssignSecond,
         FirstRoundAgain, EndVB
<1>2. CASE PlaceXint
  <2>1. PICK s \in Xint : Give(s)
    BY <1>2 DEF PlaceXint
  <2>2. /\ s \in Servers /\ qWaitingVMs # <<>> /\ draw' = Tried(Max(Servers)) /\ On' = On
    BY <1>2, <2>1 DEF PlaceXint, Xint, On, frame, IInv, Types
  <2>3. ASSUME NEW t \in Servers
        PROVE  utilization'[t] = NaN <=> utilization[t] = NaN
    <3>1. Head1 \in Nat /\ utilization[t] \in Nat \cup {NaN}
      BY <2>2, HeadTail DEF IInv, Types
    <3>2. utilization'[t] = utilization[t] \/ utilization'[t] = Plus(utilization[t], Head1)
      BY <2>1, <2>2, GiveKeeps DEF IInv
    <3> QED  BY <3>1, <3>2, Constants DEF Plus
  <2>4. /\ draw' \in [Servers -> Nat \cup {NaN}]
        /\ \A t \in Servers : draw'[t] = NaN <=> t \in On /\ utilization[t] = NaN
    BY <1>1, <2>2, TriedDraws
  <2> QED  BY <2>2, <2>3, <2>4 DEF Draws
<1>3. CASE ~ PlaceXint
  <2>1. UNCHANGED <<utilization, draw, isPOOL>>
    <3>1. ~ TwoD /\ ~ VB /\ pc \notin {"round", "first", "second"}
      BY <1>1 DEF TwoD, VB, IInv, Entries
    <3> QED  BY <1>1, <1>3, <3>1
        DEF Next, vars, extra, Collect, Assign, Skip, NextRound, TakeFromPool, RoundOver, EndAssign,
            Place, EndPlace, CollectVB, AssignFirst, SecondRound, AssignSecond,
            FirstRoundAgain, EndVB
  <2> QED  BY <1>1, <2>1 DEF Draws, On
<1> QED  BY <1>2, <1>3

LEMMA SpecDraws == Spec => []Draws
  BY InitDraws, NextDraws, SpecIInv, PTL DEF Spec

-----------------------------------------------------------------------------
(* Who is loaded more by a step, and how far.                              *)
Raises ==
  \/ Assign \/ TakeFromPool \/ Place \/ PlaceXint \/ AssignFirst \/ AssignSecond

LEMMA OnlyGiven ==
  ASSUME IInv, [Next]_vars, NEW s \in Servers, utilization'[s] > utilization[s]
  PROVE  Raises
<1>1. CASE utilization' = utilization
  <2>1. utilization[s] \in Nat \cup {NaN}
    BY DEF IInv, Types
  <2> QED  BY <1>1, <2>1, Constants
<1> QED  BY <1>1 DEF Next, Raises, vars, Collect, Skip, NextRound, EndAssign, EndPlace,
                     CollectVB, SecondRound, FirstRoundAgain, EndVB

LEMMA TwoDLimited ==
  ASSUME IInv, [Next]_vars, TwoD, NEW s \in Servers, utilization'[s] > utilization[s],
         utilization'[s] > 9
  PROVE  \/ s \in isPOOL
         \/ s \in FromPool /\ \E load \in Loads : utilization'[s] - load <= 9
<1>1. Assign \/ TakeFromPool
  <2>1. ~ VB /\ algorithm # "xint"
    BY DEF TwoD, VB
  <2> QED  BY <2>1, OnlyGiven DEF Raises, Place, PlaceXint, AssignFirst, AssignSecond, IInv, Entries
<1>2. CASE TakeFromPool
  <2>1. PICK r \in isPOOL : Give(r)
    BY <1>2 DEF TakeFromPool, Coldest
  <2> QED  BY <1>2, <2>1, GiveRaises DEF TakeFromPool, IInv, Types
<1>3. CASE Assign
  <2> DEFINE e == serverScheduling[l]
  <2>1. /\ l \in DOMAIN serverScheduling /\ qWaitingVMs # <<>> /\ Give(e.server)
        /\ Plus(e.utilizationCPU, Head1) # NaN /\ Plus(e.utilizationCPU, Head1) <= 9
    BY <1>3 DEF Assign, Fits, IInv, Types
  <2>2. e.utilizationCPU # NaN
    BY <2>1 DEF Plus
  <2>3. PICK load \in Unseen(e.server) :
          load \in Nat /\ utilization[e.server] = e.utilizationCPU + load
    BY <2>1, <2>2, EntryLoad DEF IInv
  <2>4. e.server \in Servers /\ e.utilizationCPU \in Nat
    BY <2>1, <2>2, EntryLoad DEF IInv
  <2>5. s = e.server /\ Head1 \in Nat /\ utilization'[s] = utilization[s] + Head1
    BY <2>1, <2>4, GiveRaises DEF IInv
  <2>6. e.utilizationCPU + Head1 <= 9
    BY <2>1, <2>2 DEF Plus
  <2>7. e.server \in Listed
    BY <2>1 DEF Listed
  <2> HIDE DEF e
  <2>8. load # 0 /\ utilization'[s] - load <= 9
    BY <2>3, <2>4, <2>5, <2>6
  <2>9. s \notin active /\ load \in Loads
    BY <2>5, <2>8 DEF Unseen
  <2> QED  BY <2>5, <2>7, <2>8, <2>9 DEF FromPool
<1> QED  BY <1>1, <1>2, <1>3

LEMMA VBLimited ==
  ASSUME IInv, [Next]_vars, VB, NEW s \in Servers, utilization'[s] > utilization[s]
  PROVE  utilization'[s] <= 10
<1>1. AssignFirst \/ AssignSecond
  <2>1. ~ TwoD /\ algorithm # "xint"
    BY DEF TwoD, VB
  <2> QED  BY <2>1, OnlyGiven
      DEF Raises, Assign, TakeFromPool, RoundOver, Place, PlaceXint, IInv, Entries
<1>2. PICK i \in DOMAIN serverScheduling :
        FitsVB(serverScheduling[i]) /\ GiveVB(i) /\ qWaitingVMs # <<>>
  <2>1. CASE AssignFirst
    <3>1. DOMAIN serverScheduling \subseteq Nat
      BY DEF IInv, Types
    <3>2. Min(FirstRound) \in FirstRound
      BY <2>1, <3>1, FirstIsLeast DEF AssignFirst, FirstRound
    <3> QED  BY <2>1, <3>2 DEF AssignFirst, FirstRound
  <2>2. CASE AssignSecond
    <3>1. l \in DOMAIN serverScheduling /\ qWaitingVMs # <<>>
      BY <2>2 DEF AssignSecond, IInv, Types
    <3>2. FitsVB(serverScheduling[l])
      <4>1. SUFFICES ASSUME utilization' = utilization  PROVE FALSE
        BY <2>2 DEF AssignSecond
      <4>2. utilization[s] \in Nat \cup {NaN}
        BY DEF IInv, Types
      <4> QED  BY <4>1, <4>2, Constants
    <3> QED  BY <2>2, <3>1, <3>2 DEF AssignSecond
  <2> QED  BY <1>1, <2>1, <2>2
<1> DEFINE e == serverScheduling[i]
<1>3. /\ Give(e.server) /\ e.utilizationCPU # NaN
      /\ Plus(e.utilizationCPU, Head1) <= 10
  BY <1>2 DEF FitsVB, GiveVB, Plus
<1>4. e.server \in Servers /\ e.utilizationCPU \in Nat
  BY <1>3, EntryLoad DEF IInv
<1>5. utilization[e.server] = e.utilizationCPU
  <2>1. e.server \in active
    BY DEF Listed, IInv, Entries
  <2>2. \E load \in Unseen(e.server) : utilization[e.server] = e.utilizationCPU + load
    BY <1>3, EntryLoad DEF IInv
  <2> QED  BY <1>4, <2>1, <2>2 DEF Unseen
<1>6. s = e.server /\ utilization'[s] = utilization[s] + Head1
  BY <1>2, <1>3, <1>4, GiveRaises DEF IInv
<1>7. e.utilizationCPU + Head1 <= 10
  BY <1>3 DEF Plus
<1> HIDE DEF e
<1> QED  BY <1>5, <1>6, <1>7

(* A step of a scheduler that places one VM after the other.               *)
LEMMA OnlyPlaced ==
  ASSUME IInv, [Next]_vars, ~ TwoD, ~ VB, NEW s \in Servers,
         utilization'[s] > utilization[s]
  PROVE  /\ \/ Place /\ algorithm # "xint" /\ s \in Best
            \/ PlaceXint /\ algorithm = "xint" /\ s \in Xint
         /\ qWaitingVMs # <<>> /\ Give(s) /\ On' = On /\ On \subseteq Servers
         /\ Head1 \in Nat \ {0} /\ utilization[s] \in Nat /\ utilization[s] # NaN
         /\ utilization'[s] = utilization[s] + Head1
<1>1. Place \/ PlaceXint
  BY OnlyGiven
  DEF Raises, Assign, TakeFromPool, RoundOver, AssignFirst, AssignSecond, IInv, Entries
<1>2. On \subseteq Servers /\ On' = On /\ qWaitingVMs # <<>>
  BY <1>1 DEF On, IInv, Types, Place, PlaceXint, frame
<1>3. CASE Place
  <2>1. PICK r \in Best : Give(r)
    BY <1>3 DEF Place
  <2> QED  BY <1>2, <1>3, <2>1, BestAreServers, GiveRaises DEF Place, IInv
<1>4. CASE PlaceXint
  <2>1. PICK r \in Xint : Give(r)
    BY <1>4 DEF PlaceXint
  <2>2. r \in Servers
    BY <1>2, <2>1 DEF Xint
  <2> QED  BY <1>2, <1>4, <2>1, <2>2, GiveRaises DEF PlaceXint, IInv
<1> QED  BY <1>1, <1>3, <1>4

LEMMA RoomLimited ==
  ASSUME IInv, [Next]_vars, LooksForRoom, NEW s \in Servers,
         utilization'[s] > utilization[s], utilization'[s] >= 10
  PROVE  \A t \in On : ~ HasRoom(t)
<1>1. ~ TwoD /\ ~ VB /\ algorithm # "xint"
  BY DEF LooksForRoom, TwoD, VB
<1>2. /\ s \in Best /\ Head1 \in Nat /\ utilization[s] \in Nat /\ utilization[s] # NaN
      /\ utilization'[s] = utilization[s] + Head1
  BY <1>1, OnlyPlaced
<1>3. PICK preference : s \in FirstFit(preference)
  BY <1>2 DEF LooksForRoom, Best, LowTemperatureFirst, MinHR, CenterRackFirst
<1>4. ~ HasRoom(s)
  BY <1>2 DEF HasRoom
<1> QED  BY <1>3, <1>4 DEF FirstFit, FirstOf

(* The loads that are numbers lie apart by what the most loaded and the     *)
(* least loaded server do.                                                 *)
Numbered(u) == {r \in On : u[r] # NaN}

LEMMA SpreadIs ==
  ASSUME Types, NEW u \in [Servers -> Nat \cup {NaN}], Numbered(u) # {}
  PROVE  /\ Spread(u) \in Int
         /\ \E p, q \in Numbered(u) : Spread(u) = u[p] - u[q]
         /\ \A p, q \in Numbered(u) : u[p] - u[q] <= Spread(u)
<1> DEFINE N == Numbered(u)
           negative == [r \in Servers |-> 0 - u[r]]
           T == {u[p] - u[q] : p, q \in N}
<1>1. N \subseteq Servers /\ IsFiniteSet(N) /\ \A r \in N : u[r] \in Nat
  <2>1. N \subseteq Servers
    BY DEF Numbered, On, Types
  <2> QED  BY <2>1, Constants, FS_Subset DEF Numbered
<1> HIDE DEF N
<1>2. PICK p \in N : \A r \in N : u[r] <= u[p]
  <2>1. \A r \in N : u[r] \in Int
    BY <1>1
  <2> QED  BY <1>1, <2>1, LargestValue DEF N
<1>3. PICK q \in N : \A r \in N : u[q] <= u[r]
  <2>1. \A r \in N : negative[r] \in Int /\ negative[r] = 0 - u[r]
    BY <1>1
  <2> HIDE DEF negative
  <2>2. PICK q \in N : \A r \in N : negative[r] <= negative[q]
    BY <1>1, <2>1, LargestValue DEF N
  <2>3. \A r \in N : u[q] <= u[r]
    BY <1>1, <2>1, <2>2
  <2> QED  BY <2>3
<1>4. T \subseteq Int /\ u[p] - u[q] \in T /\ \A t \in T : t <= u[p] - u[q]
  BY <1>1, <1>2, <1>3
<1>5. Spread(u) = Max(T)
  BY DEF Spread, N, Numbered
<1>6. Spread(u) = u[p] - u[q]
  <2> HIDE DEF T
  <2> QED  BY <1>4, <1>5, MaxIsLargest
<1>7. \A a, b \in N : u[a] - u[b] \in T
  OBVIOUS
<1>8. \A a, b \in N : u[a] - u[b] <= Spread(u)
  BY <1>4, <1>6, <1>7
<1>9. Spread(u) \in Int
  BY <1>1, <1>6
<1> QED  BY <1>6, <1>8, <1>9 DEF N

LEMMA UniformLimited ==
  ASSUME IInv, [Next]_vars, algorithm = "uniform_task", NEW s \in Servers,
         utilization'[s] > utilization[s]
  PROVE  Spread(utilization') <= Max({Spread(utilization), Head1})
<1>1. /\ s \in Best /\ Head1 \in Nat /\ utilization[s] \in Nat /\ utilization[s] # NaN
      /\ utilization'[s] = utilization[s] + Head1
      /\ qWaitingVMs # <<>> /\ Give(s) /\ On' = On
  <2>1. ~ TwoD /\ ~ VB /\ algorithm # "xint"
    BY DEF TwoD, VB
  <2> QED  BY <2>1, OnlyPlaced
<1>2. /\ utilization \in [Servers -> Nat \cup {NaN}]
      /\ utilization' \in [Servers -> Nat \cup {NaN}]
      /\ \A t \in Servers : t # s => utilization'[t] = utilization[t]
  BY <1>1, GiveKeeps DEF IInv, Types
<1>3. Numbered(utilization') = Numbered(utilization)
  <2>1. utilization'[s] # NaN
    BY <1>1, Constants
  <2>2. On \subseteq Servers
    BY DEF On, IInv, Types
  <2> QED  BY <1>1, <1>2, <2>1, <2>2 DEF Numbered
<1>4. s \in Numbered(utilization) /\ \A t \in Numbered(utilization) : utilization[s] <= utilization[t]
  <2> DEFINE N == Numbered(utilization)
             one == [t \in Servers |-> 1]
  <2>1. N \subseteq Servers /\ \A t \in N : utilization[t] \in Nat /\ one[t] = 1
    BY Constants DEF Numbered, On, IInv, Types
  <2>2. /\ s \in N
        /\ \A t \in N : \/ utilization[s] * one[t] < utilization[t] * one[s]
                        \/ s <= t /\ ~ utilization[t] * one[s] < utilization[s] * one[t]
    BY <1>1 DEF Best, UniformTask, LeastLoaded, Numbered
  <2> HIDE DEF N, one
  <2>3. \A t \in N : utilization[s] <= utilization[t]
    BY <2>1, <2>2
  <2> QED  BY <2>2, <2>3 DEF N
<1>5. PICK old, new, bound : old = Spread(utilization) /\ new = Spread(utilization')
                             /\ bound = Max({Spread(utilization), Head1})
  OBVIOUS
<1>6. old \in Int /\ \A p, q \in Numbered(utilization) : utilization[p] - utilization[q] <= old
  BY <1>2, <1>4, <1>5, SpreadIs DEF IInv
<1>7. PICK p \in Numbered(utilization), q \in Numbered(utilization) :
        new = utilization'[p] - utilization'[q]
  BY <1>2, <1>3, <1>4, <1>5, SpreadIs DEF IInv
<1>8. bound \in Int /\ old <= bound /\ Head1 <= bound
  <2>1. CASE old <= Head1
    <3>1. Max({old, Head1}) = Head1
      <4>1. /\ {old, Head1} \subseteq Int /\ Head1 \in {old, Head1}
            /\ \A t \in {old, Head1} : t <= Head1
        BY <1>1, <1>6, <2>1
      <4> QED  BY ONLY <4>1, MaxIsLargest
    <3> QED  BY <1>1, <1>5, <1>6, <2>1, <3>1
  <2>2. CASE ~ old <= Head1
    <3>1. Max({old, Head1}) = old
      <4>1. /\ {old, Head1} \subseteq Int /\ old \in {old, Head1}
            /\ \A t \in {old, Head1} : t <= old
        BY <1>1, <1>6, <2>2
      <4> QED  BY ONLY <4>1, MaxIsLargest
    <3> QED  BY <1>1, <1>5, <1>6, <2>2, <3>1
  <2> QED  BY <2>1, <2>2
<1>9. utilization[p] \in Nat /\ utilization[q] \in Nat /\ p \in Servers /\ q \in Servers
  BY <1>2 DEF Numbered, On, IInv, Types
<1>10. CASE p # s
  <2>1. utilization'[p] = utilization[p] /\ utilization[q] <= utilization'[q] /\ utilization'[q] \in Int
    BY <1>1, <1>2, <1>9, <1>10
  <2>2. utilization[p] - utilization[q] <= old
    BY <1>6
  <2>3. new <= old
    BY <1>6, <1>7, <1>9, <2>1, <2>2
  <2> QED  BY <1>5, <1>6, <1>7, <1>8, <1>9, <2>1, <2>3
<1>11. CASE p = s
  <2>1. utilization[q] <= utilization'[q] /\ utilization[s] <= utilization[q] /\ utilization'[q] \in Int
    BY <1>1, <1>2, <1>4, <1>9
  <2>2. new = utilization[s] + Head1 - utilization'[q]
    <3>1. new = utilization'[s] - utilization'[q]
      BY <1>7, <1>11
    <3> QED  BY <1>1, <2>1, <3>1
  <2>3. new <= Head1
    BY <1>1, <1>9, <2>1, <2>2
  <2> QED  BY <1>1, <1>5, <1>8, <1>9, <2>1, <2>2, <2>3
<1> QED  BY <1>10, <1>11

(* The highest increase is that of some server, and grows with the draws.  *)
Increase(powerDraw) ==
  [i \in Servers |->
     SumFunction([j \in Servers |-> powerDraw[j] * HeatRecirculationMatrixD[i][j]])]

LEMMA IncreaseGrows ==
  ASSUME NEW f \in [Servers -> Nat], NEW g \in [Servers -> Nat],
         \A j \in Servers : f[j] <= g[j], NEW i \in Servers
  PROVE  /\ Increase(f)[i] \in Int /\ Increase(g)[i] \in Int
         /\ Increase(f)[i] <= Increase(g)[i]
<1> DEFINE H == HeatRecirculationMatrixD[i]
           a == [j \in Servers |-> f[j] * H[j]]
           b == [j \in Servers |-> g[j] * H[j]]
<1>1. \A j \in Servers : H[j] \in Nat
  BY SchedulingAssumption
<1>2. \A x, y, h \in Nat : x <= y => x * h \in Nat /\ y * h \in Nat /\ x * h <= y * h
  BY Z3
<1>3. \A j \in Servers : f[j] \in Nat /\ g[j] \in Nat
  OBVIOUS
<1> HIDE DEF H
<1>4. \A j \in Servers : f[j] * H[j] \in Nat /\ g[j] * H[j] \in Nat /\ f[j] * H[j] <= g[j] * H[j]
  BY ONLY <1>1, <1>2, <1>3, \A j \in Servers : f[j] <= g[j]
<1>5. \A j \in Servers : a[j] \in Int /\ b[j] \in Int /\ a[j] <= b[j]
  BY <1>4
<1>6. Increase(f)[i] = SumFunctionOnSet(a, Servers) /\ Increase(g)[i] = SumFunctionOnSet(b, Servers)
  BY DEF Increase, SumFunction, H
<1> HIDE DEF a, b
<1>7. SumFunctionOnSet(a, Servers) <= SumFunctionOnSet(b, Servers)
  BY <1>5, Constants, SumAtMost
<1>8. SumFunctionOnSet(a, Servers) \in Int /\ SumFunctionOnSet(b, Servers) \in Int
  BY <1>5, Constants, SumIsInt
<1> QED  BY <1>6, <1>7, <1>8

LEMMA HighestIs ==
  ASSUME NEW f \in [Servers -> Nat], Servers # {}
  PROVE  /\ GetHighestTemperatureIncrease(f) \in Int
         /\ \E i \in Servers : GetHighestTemperatureIncrease(f) = Increase(f)[i]
         /\ \A i \in Servers : Increase(f)[i] <= GetHighestTemperatureIncrease(f)
<1> DEFINE T == {Increase(f)[i] : i \in Servers}
<1>1. \A i \in Servers : Increase(f)[i] \in Int
  <2>1. \A j \in Servers : f[j] <= f[j]
    OBVIOUS
  <2> QED  BY <2>1, IncreaseGrows
<1>2. PICK i \in Servers : \A j \in Servers : Increase(f)[j] <= Increase(f)[i]
  BY <1>1, Constants, LargestValue
<1>3. GetHighestTemperatureIncrease(f) = Max(T)
  <2>1. ~ \E t \in Servers : f[t] = NaN
    BY Constants
  <2> QED  BY <2>1 DEF GetHighestTemperatureIncrease, Increase
<1>4. Max(T) = Increase(f)[i]
  <2>1. T \subseteq Int /\ Increase(f)[i] \in T /\ \A t \in T : t <= Increase(f)[i]
    BY <1>1, <1>2
  <2> HIDE DEF T
  <2> QED  BY <2>1, MaxIsLargest
<1> QED  BY <1>1, <1>2, <1>3, <1>4

LEMMA HighestGrows ==
  ASSUME NEW f \in [Servers -> Nat], NEW g \in [Servers -> Nat], Servers # {},
         \A j \in Servers : f[j] <= g[j]
  PROVE  /\ GetHighestTemperatureIncrease(f) \in Int /\ GetHighestTemperatureIncrease(g) \in Int
         /\ GetHighestTemperatureIncrease(f) <= GetHighestTemperatureIncrease(g)
<1>1. PICK i \in Servers : GetHighestTemperatureIncrease(f) = Increase(f)[i]
  BY HighestIs
<1>2. /\ Increase(g)[i] <= GetHighestTemperatureIncrease(g)
      /\ GetHighestTemperatureIncrease(f) \in Int /\ GetHighestTemperatureIncrease(g) \in Int
  BY HighestIs
<1>3. Increase(f)[i] <= Increase(g)[i] /\ Increase(g)[i] \in Int
  BY IncreaseGrows
<1> QED  BY <1>1, <1>2, <1>3

(* The trial of a later server leaves the higher draws of all before it.   *)
LEMMA TrialsGrow ==
  ASSUME IInv, Draws, algorithm = "xint", qWaitingVMs # <<>>, SameOrMore,
         NEW s \in On, NEW t \in On, s <= t
  PROVE  LET rise(r) == GetHighestTemperatureIncrease(Tried(r)) IN
         rise(s) \in Int /\ rise(t) \in Int /\ rise(s) <= rise(t)
<1>1. On \subseteq Servers /\ Servers \subseteq Nat
  BY Constants DEF On, IInv, Types
<1>2. /\ Tried(s) \in [Servers -> Nat \cup {NaN}]
      /\ \A r \in Servers : Tried(s)[r] = NaN <=> r \in On /\ utilization[r] = NaN
  BY TriedDraws
<1>3. /\ Tried(t) \in [Servers -> Nat \cup {NaN}]
      /\ \A r \in Servers : Tried(t)[r] = NaN <=> r \in On /\ utilization[r] = NaN
  BY TriedDraws
<1>4. CASE \E r \in On : utilization[r] = NaN
  <2>1. PICK r \in On : utilization[r] = NaN
    BY <1>4
  <2>2. r \in Servers /\ Tried(s)[r] = NaN /\ Tried(t)[r] = NaN
    BY <1>1, <1>2, <1>3, <2>1
  <2> HIDE DEF Tried
  <2>3. /\ GetHighestTemperatureIncrease(Tried(s)) = -100
        /\ GetHighestTemperatureIncrease(Tried(t)) = -100
    BY <2>2 DEF GetHighestTemperatureIncrease
  <2> QED  BY <2>3
<1>5. CASE ~ \E r \in On : utilization[r] = NaN
  <2>1. Tried(s) \in [Servers -> Nat] /\ Tried(t) \in [Servers -> Nat]
    BY <1>2, <1>3, <1>5
  <2>2. ASSUME NEW r \in Servers
        PROVE  Tried(s)[r] <= Tried(t)[r]
    <3>1. Tried(s)[r] \in Nat /\ Tried(t)[r] \in Nat
      BY <2>1
    <3>2. /\ Tried(s)[r] = IF r \in On /\ r <= s THEN PowerDraw(Plus(utilization[r], Head1))
                           ELSE draw[r]
          /\ Tried(t)[r] = IF r \in On /\ r <= t THEN PowerDraw(Plus(utilization[r], Head1))
                           ELSE draw[r]
      BY DEF Tried
    <3>3. r \in On => draw[r] <= PowerDraw(Plus(utilization[r], Head1))
      <4> SUFFICES ASSUME r \in On PROVE draw[r] <= PowerDraw(Plus(utilization[r], Head1))
        OBVIOUS
      <4>1. PowerDraw(Plus(utilization[r], Head1)) >= draw[r]
        BY DEF SameOrMore
      <4> QED  BY <4>1
    <3>4. r <= s => r <= t
      BY <1>1
    <3> QED  BY <3>1, <3>2, <3>3, <3>4
  <2> HIDE DEF Tried
  <2> QED  BY <1>1, <2>1, <2>2, HighestGrows
<1> QED  BY <1>4, <1>5

LEMMA XintLimited ==
  ASSUME IInv, Draws, [Next]_vars, algorithm = "xint", SameOrMore, NEW s \in Servers,
         utilization'[s] > utilization[s]
  PROVE  s = Min(On)
<1>1. s \in Xint /\ qWaitingVMs # <<>> /\ On \subseteq Servers /\ Servers \subseteq Nat
  <2>1. ~ TwoD /\ ~ VB
    BY DEF TwoD, VB
  <2> QED  BY <2>1, OnlyPlaced, Constants
<1> DEFINE rise(r) == GetHighestTemperatureIncrease(Tried(r))
<1>2. s \in On /\ \A t \in On : rise(s) < rise(t) \/ (rise(s) = rise(t) /\ s <= t)
  <2> HIDE DEF rise
  <2> DEFINE increases == {<<rise(t), t>> : t \in On}
  <2>1. PICK a \in increases :
          s = a[2] /\ \A j \in increases : a[1] < j[1] \/ (a[1] = j[1] /\ a[2] <= j[2])
    BY <1>1 DEF Xint, rise
  <2>2. s \in On /\ a = <<rise(s), s>>
    BY <2>1
  <2>3. ASSUME NEW t \in On
        PROVE  rise(s) < rise(t) \/ (rise(s) = rise(t) /\ s <= t)
    <3>1. <<rise(t), t>> \in increases
      OBVIOUS
    <3> HIDE DEF increases
    <3> QED  BY <2>1, <2>2, <3>1
  <2> QED  BY <2>2, <2>3
<1>3. Min(On) \in On /\ Min(On) <= s
  BY <1>1, <1>2, FirstIsLeast
<1>4. rise(Min(On)) \in Int /\ rise(s) \in Int /\ rise(Min(On)) <= rise(s)
  BY <1>1, <1>2, <1>3, TrialsGrow
<1> HIDE DEF rise
<1>5. PICK m : m = Min(On)
  OBVIOUS
<1>6. s \in Nat /\ m \in Nat
  BY <1>1, <1>2, <1>3, <1>5
<1>7. /\ rise(s) < rise(m) \/ (rise(s) = rise(m) /\ s <= m)
      /\ rise(m) \in Int /\ rise(s) \in Int /\ rise(m) <= rise(s) /\ m <= s
  BY <1>2, <1>3, <1>4, <1>5
<1>8. s = m
  BY ONLY <1>6, <1>7
<1> QED  BY <1>5, <1>8

-----------------------------------------------------------------------------
(* A call leaves VMs in the queue only when the pool is empty and every    *)
(* active server would go beyond 90% with the next one, or is hot          *)
(* (SchedulingAlgorithm.cpp, the rounds of the 2D schedulers).             *)
THEOREM WaitingMeansFull == Spec => []WaitsOnlyWhenFull
<1>1. IInv => WaitsOnlyWhenFull
  BY InvTypeOK DEF IInv, Left, CannotTake, WaitsOnlyWhenFull
<1> QED  BY <1>1, SpecIInv, PTL

(* A server leaves the pool for a VM only when no candidate, of those that *)
(* came from the pool in this call as well, can take it: the counter of    *)
(* full servers is never out of step with the rounds.                      *)
THEOREM PoolIsLastResort == Spec => PoolOnlyWhenFull
<1>1. ASSUME IInv, [Next]_vars, isPOOL' # isPOOL
      PROVE  \A s \in Listed : utilization[s] + Head1 > 9 \/ temperature[s] > 29
  <2>1. TakeFromPool
    BY <1>1 DEF Next, vars, frame, extra, Collect, Assign, Skip, NextRound, EndAssign,
                Place, PlaceXint, EndPlace, CollectVB, AssignFirst, SecondRound,
                AssignSecond, FirstRoundAgain, EndVB
  <2>2. \A s \in Listed : CannotTake(s)
    BY <1>1, <2>1, FullServers DEF TakeFromPool
  <2> QED  BY <2>2 DEF CannotTake
<1>2. IInv /\ [Next]_vars =>
        [isPOOL' # isPOOL =>
           \A s \in Listed : utilization[s] + Head1 > 9 \/ temperature[s] > 29]_vars
  BY <1>1
<1> QED  BY <1>2, SpecIInv, PTL DEF Spec, PoolOnlyWhenFull

(* How far a call loads a server: a 2D scheduler to 90%, but for the first *)
(* VM of a server of the pool, which the array never shows; the schedulers *)
(* that look for room beyond 100% only when nobody has room; uniform_task  *)
(* never drives the loads apart; 2D_VB to 100%; and xint, which forgets to *)
(* take the trial back, gives the first server every VM that is not smaller *)
(* than the last (SchedulingAlgorithm.cpp, OtherScheduling.cpp).           *)
THEOREM LoadsHaveLimits == Spec => LoadsLimited
<1> DEFINE Limited(s) ==
      /\ TwoD /\ utilization'[s] > 9 =>
           \/ s \in isPOOL
           \/ s \in FromPool /\ \E load \in Loads : utilization'[s] - load <= 9
      /\ LooksForRoom /\ utilization'[s] >= 10 => \A t \in On : ~ HasRoom(t)
      /\ algorithm = "uniform_task" =>
           Spread(utilization') <= Max({Spread(utilization), Head1})
      /\ VB => utilization'[s] <= 10
      /\ algorithm = "xint" /\ SameOrMore => s = Min(On)
<1>1. ASSUME IInv, Draws, [Next]_vars, NEW s \in Servers, utilization'[s] > utilization[s]
      PROVE  Limited(s)
  BY <1>1, TwoDLimited, RoomLimited, UniformLimited, VBLimited, XintLimited
<1>2. IInv /\ Draws /\ [Next]_vars =>
        [\A s \in Servers : utilization'[s] > utilization[s] => Limited(s)]_vars
  <2> HIDE DEF Limited
  <2> QED  BY <1>1
<1> QED  BY <1>2, SpecIInv, SpecDraws, PTL DEF Spec, LoadsLimited

(* Every step of a 2D scheduler is one that ServersPool allows, or none    *)
(* for the servers: VMs go to active servers and to the pool only.         *)
THEOREM SchedulingImplements == Spec => PoolSteps
<1>1. IInv /\ [Next]_vars => [TwoD \/ VB => Pool!Next]_(Pool!vars)
  BY StepImplements
<1> QED  BY <1>1, SpecIInv, PTL DEF Spec, PoolSteps

=============================================================================
