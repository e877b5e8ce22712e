-------------------------- MODULE Simulation_proofs --------------------------
(* No job is lost between the file, the queue and the servers, for any      *)
(* trace: the inductive invariant LoopInv says where every line that was    *)
(* read is, which VMs each launched job still has, how old they are, and    *)
(* what the tables of the results have counted of them.                     *)
(*                                                                          *)
(* The second part is about one call of a migration policy: PoliceInv says  *)
(* what the recorded utilisations are worth, which sources are left behind, *)
(* and why PoliceLowUtilization never runs out of targets.                  *)
EXTENDS Simulation, Policies, SumTheorems

-----------------------------------------------------------------------------
(* Reading the file.                                                        *)

(* Parsed, as the recursive function that Folds makes of it.                *)
ReadStep(lines, g, s) == IF s = {} THEN <<>> ELSE Kept(g[s \ {Max(s)}], lines[Max(s)])

ReadRule(lines, g) == g = [s \in SUBSET DOMAIN lines |-> ReadStep(lines, g, s)]

LEMMA ParsedIsChoice ==
  ASSUME NEW lines
  PROVE  Parsed(lines) = (CHOOSE g : ReadRule(lines, g))[DOMAIN lines]
BY DEF Parsed, FoldLeft, MapThenFoldSet, ReadRule, ReadStep

CanRun(line) == line.runTimeSec > 0 /\ line.numCPUs > 0

LEMMA CorrectedIsLine ==
  ASSUME NEW line \in Lines, IsValid(line)
  PROVE  Corrected(line) \in Lines /\ Corrected(line).job = line.job /\ CanRun(Corrected(line))
<1>1. line.submit - SKIP_x_SECONDS \in Nat /\ CPUTime(line) \in Int
  BY LoopAssumption DEF IsValid, CPUTime, Lines
<1> QED  BY <1>1 DEF Lines, Corrected, CanRun, IsValid

LEMMA KeptIsLine ==
  ASSUME NEW read \in Seq(Lines), NEW line \in Lines
  PROVE  Kept(read, line) \in Seq(Lines)
BY CorrectedIsLine DEF Kept

LEMMA MaxOfInterval ==
  ASSUME NEW k \in Nat, NEW s \in SUBSET (1..(k + 1)), k + 1 \in s
  PROVE  Max(s) = k + 1
<1>1. \A x \in s : k + 1 >= x
  OBVIOUS
<1>2. \A x \in s : (\A y \in s : x >= y) => x = k + 1
  OBVIOUS
<1> QED  BY <1>1, <1>2 DEF Max

LEMMA ReadRuleExists ==
  ASSUME NEW lines \in Seq(Lines)
  PROVE  \E g \in [SUBSET DOMAIN lines -> Seq(Lines)] : ReadRule(lines, g)
<1> DEFINE D == DOMAIN lines
           UpTo(g, n) == \A s \in SUBSET D : s \subseteq 1..n => g[s] = ReadStep(lines, g, s)
           N == {n \in Nat : \E g \in [SUBSET D -> Seq(Lines)] : UpTo(g, n)}
<1>1. 0 \in N
  <2> DEFINE g == [s \in SUBSET D |-> <<>>]
  <2>1. g \in [SUBSET D -> Seq(Lines)]
    OBVIOUS
  <2>2. UpTo(g, 0)
    BY DEF ReadStep
  <2> QED  BY <2>1, <2>2
<1>2. ASSUME NEW n \in Nat, n \in N PROVE n + 1 \in N
  <2>1. PICK g \in [SUBSET D -> Seq(Lines)] : UpTo(g, n)
    BY <1>2
  <2> DEFINE h == [s \in SUBSET D |->
                     IF s \subseteq 1..n THEN g[s]
                     ELSE IF s \subseteq 1..(n + 1) THEN ReadStep(lines, g, s) ELSE <<>>]
  <2>2. ASSUME NEW s \in SUBSET D, s \subseteq 1..(n + 1), ~ (s \subseteq 1..n)
        PROVE  ReadStep(lines, g, s) \in Seq(Lines)
    <3>1. n + 1 \in s
      BY <2>2
    <3>2. Max(s) = n + 1 /\ s # {}
      BY <2>2, <3>1, MaxOfInterval
    <3>3. lines[Max(s)] \in Lines /\ g[s \ {Max(s)}] \in Seq(Lines)
      BY <3>1, <3>2
    <3> QED  BY <3>2, <3>3, KeptIsLine DEF ReadStep
  <2>3. h \in [SUBSET D -> Seq(Lines)]
    BY <2>2
  <2>4. \A s \in SUBSET D : s \subseteq 1..(n + 1) => h[s] = ReadStep(lines, g, s)
    BY <2>1
  <2>5. ASSUME NEW s \in SUBSET D, s \subseteq 1..(n + 1)
        PROVE  ReadStep(lines, g, s) = ReadStep(lines, h, s)
    <3>1. CASE s \subseteq 1..n
      <4>1. h[s \ {Max(s)}] = g[s \ {Max(s)}]
        BY <3>1
      <4> QED  BY <4>1 DEF ReadStep
    <3>2. CASE ~ (s \subseteq 1..n)
      <4>1. n + 1 \in s
        BY <2>5, <3>2
      <4>2. Max(s) = n + 1
        BY <2>5, <4>1, MaxOfInterval
      <4>3. s \ {Max(s)} \in SUBSET D /\ s \ {Max(s)} \subseteq 1..n
        BY <2>5, <4>2
      <4>4. h[s \ {Max(s)}] = g[s \ {Max(s)}]
        BY <4>3
      <4> HIDE DEF h
      <4> QED  BY <4>4 DEF ReadStep
    <3> QED  BY <3>1, <3>2
  <2> HIDE DEF h
  <2>6. UpTo(h, n + 1)
    BY <2>4, <2>5
  <2> HIDE DEF UpTo
  <2> QED  BY <2>3, <2>6
<1>3. Nat \subseteq N
  <2> HIDE DEF N
  <2> QED  BY <1>1, <1>2, NumberInduction
<1>4. Len(lines) \in Nat /\ D = 1..Len(lines)
  OBVIOUS
<1>5. PICK g \in [SUBSET D -> Seq(Lines)] : UpTo(g, Len(lines))
  BY <1>3, <1>4
<1>6. g = [s \in SUBSET D |-> ReadStep(lines, g, s)]
  BY <1>4, <1>5
<1> QED  BY <1>6 DEF ReadRule

(* What is read of the first lines does not depend on those that follow.    *)
LEMMA ReadRuleUnique ==
  ASSUME NEW a \in Seq(Lines), NEW b \in Seq(Lines), NEW g, NEW h,
         ReadRule(a, g), ReadRule(b, h), Len(a) <= Len(b),
         \A i \in 1..Len(a) : a[i] = b[i]
  PROVE  \A n \in 0..Len(a) : g[1..n] = h[1..n]
<1> DEFINE N == {n \in Nat : n <= Len(a) => g[1..n] = h[1..n]}
<1>1. Len(a) \in Nat /\ Len(b) \in Nat /\ DOMAIN a = 1..Len(a) /\ DOMAIN b = 1..Len(b)
  OBVIOUS
<1>2. ASSUME NEW n \in Nat, n <= Len(a)
      PROVE  g[1..n] = ReadStep(a, g, 1..n) /\ h[1..n] = ReadStep(b, h, 1..n)
  <2>1. 1..n \in SUBSET DOMAIN a /\ 1..n \in SUBSET DOMAIN b
    BY <1>1, <1>2
  <2> QED  BY <2>1 DEF ReadRule
<1>3. 0 \in N
  <2>1. 1..0 = {}
    OBVIOUS
  <2> QED  BY <1>2, <1>1, <2>1 DEF ReadStep
<1>4. ASSUME NEW n \in Nat, n \in N PROVE n + 1 \in N
  <2> SUFFICES ASSUME n + 1 <= Len(a) PROVE g[1..(n + 1)] = h[1..(n + 1)]
    OBVIOUS
  <2>1. g[1..n] = h[1..n] /\ a[n + 1] = b[n + 1]
    BY <1>1, <1>4
  <2>2. Max(1..(n + 1)) = n + 1
    BY MaxOfInterval
  <2>3. n + 1 \in 1..(n + 1) /\ (1..(n + 1)) \ {n + 1} = 1..n
    OBVIOUS
  <2>4. ReadStep(a, g, 1..(n + 1)) = ReadStep(b, h, 1..(n + 1))
    BY <2>1, <2>2, <2>3 DEF ReadStep
  <2> QED  BY <1>2, <2>4
<1>5. Nat \subseteq N
  <2> HIDE DEF N
  <2> QED  BY <1>3, <1>4, NumberInduction
<1> QED  BY <1>1, <1>5

(* One line after the other.                                                *)
LEMMA ParsedByLine ==
  /\ Parsed(<<>>) = <<>>
  /\ \A lines \in Seq(Lines) :
       /\ Parsed(lines) \in Seq(Lines)
       /\ \A line \in Lines : Parsed(Append(lines, line)) = Kept(Parsed(lines), line)
<1> DEFINE G(lines) == CHOOSE g : ReadRule(lines, g)
<1>1. ASSUME NEW lines \in Seq(Lines)
      PROVE  /\ ReadRule(lines, G(lines)) /\ Parsed(lines) = G(lines)[1..Len(lines)]
             /\ DOMAIN lines = 1..Len(lines) /\ Len(lines) \in Nat
  <2>1. \E g : ReadRule(lines, g)
    BY ReadRuleExists
  <2> QED  BY <2>1, ParsedIsChoice
<1> HIDE DEF G
<1>2. Parsed(<<>>) = <<>>
  <2>1. <<>> \in Seq(Lines) /\ Len(<<>>) = 0 /\ 1..0 = {}
    OBVIOUS
  <2> QED  BY <1>1, <2>1 DEF ReadRule, ReadStep
<1>3. ASSUME NEW lines \in Seq(Lines) PROVE Parsed(lines) \in Seq(Lines)
  <2>1. PICK g \in [SUBSET DOMAIN lines -> Seq(Lines)] : ReadRule(lines, g)
    BY ReadRuleExists
  <2>2. g[1..Len(lines)] = G(lines)[1..Len(lines)]
    BY <1>1, <2>1, ReadRuleUnique
  <2> QED  BY <1>1, <2>1, <2>2
<1>4. ASSUME NEW lines \in Seq(Lines), NEW line \in Lines
      PROVE  Parsed(Append(lines, line)) = Kept(Parsed(lines), line)
  <2> DEFINE more == Append(lines, line)
             n == Len(lines)
  <2>1. /\ more \in Seq(Lines) /\ Len(more) = n + 1 /\ n \in Nat
        /\ more[n + 1] = line /\ \A i \in 1..n : lines[i] = more[i]
    OBVIOUS
  <2> HIDE DEF more
  <2>2. G(lines)[1..n] = G(more)[1..n]
    BY <1>1, <2>1, ReadRuleUnique
  <2>3. Max(1..(n + 1)) = n + 1 /\ 1..(n + 1) # {} /\ (1..(n + 1)) \ {n + 1} = 1..n
    BY <2>1, MaxOfInterval
  <2>4. G(more)[1..(n + 1)] = Kept(G(more)[1..n], line)
    <3>1. G(more)[1..(n + 1)] = ReadStep(more, G(more), 1..(n + 1))
      <4> DEFINE g == G(more)
                 all == 1..(n + 1)
      <4>1. ReadRule(more, g) /\ all \in SUBSET DOMAIN more
        BY <1>1, <2>1
      <4> HIDE DEF g, all
      <4>2. g[all] = ReadStep(more, g, all)
        BY <4>1, Zenon DEF ReadRule
      <4> QED  BY <4>2 DEF g, all
    <3> QED  BY <2>1, <2>3, <3>1 DEF ReadStep
  <2>5. Parsed(more) = G(more)[1..(n + 1)] /\ Parsed(lines) = G(lines)[1..n]
    BY <1>1, <2>1
  <2> QED  BY <2>2, <2>4, <2>5 DEF more
<1> QED  BY <1>2, <1>3, <1>4

LEMMA LastApart ==
  ASSUME NEW t \in Seq(Lines), NEW n \in Nat, Len(t) = n + 1
  PROVE  \E u \in Seq(Lines), x \in Lines :
           Len(u) = n /\ t = Append(u, x) /\ x = t[n + 1] /\ \A i \in 1..n : u[i] = t[i]
<1> DEFINE u == [i \in 1..n |-> t[i]]
           x == t[n + 1]
<1>1. /\ u \in Seq(Lines) /\ Len(u) = n /\ x \in Lines
      /\ \A i \in 1..n : u[i] = t[i]
  OBVIOUS
<1> HIDE DEF u
<1>2. t = Append(u, x)
  <2>1. Append(u, x) \in Seq(Lines) /\ Len(Append(u, x)) = n + 1
    BY <1>1
  <2>2. \A i \in 1..(n + 1) : Append(u, x)[i] = t[i]
    BY <1>1
  <2> QED  BY <2>1, <2>2, SeqEqual
<1> QED  BY <1>1, <1>2

LEMMA AppendToConcat ==
  ASSUME NEW a \in Seq(Lines), NEW b \in Seq(Lines), NEW x \in Lines
  PROVE  Append(a \o b, x) = a \o Append(b, x)
<1>1. /\ Append(a \o b, x) \in Seq(Lines) /\ a \o Append(b, x) \in Seq(Lines)
      /\ Len(Append(a \o b, x)) = Len(a \o Append(b, x))
  OBVIOUS
<1>2. \A i \in 1..Len(Append(a \o b, x)) : Append(a \o b, x)[i] = (a \o Append(b, x))[i]
  OBVIOUS
<1> QED  BY <1>1, <1>2, SeqEqual

LEMMA ParsedConcat ==
  ASSUME NEW s \in Seq(Lines), NEW t \in Seq(Lines)
  PROVE  Parsed(s \o t) = Parsed(s) \o Parsed(t)
<1> DEFINE N == {n \in Nat : \A u \in Seq(Lines) :
                   Len(u) = n => Parsed(s \o u) = Parsed(s) \o Parsed(u)}
<1>1. 0 \in N
  <2> SUFFICES ASSUME NEW u \in Seq(Lines), Len(u) = 0
               PROVE  Parsed(s \o u) = Parsed(s) \o Parsed(u)
    OBVIOUS
  <2>1. u = <<>> /\ s \o <<>> = s
    OBVIOUS
  <2>2. Parsed(s) \o <<>> = Parsed(s)
    BY ParsedByLine
  <2> QED  BY <2>1, <2>2, ParsedByLine
<1>2. ASSUME NEW n \in Nat, n \in N PROVE n + 1 \in N
  <2> SUFFICES ASSUME NEW u \in Seq(Lines), Len(u) = n + 1
               PROVE  Parsed(s \o u) = Parsed(s) \o Parsed(u)
    OBVIOUS
  <2>1. PICK v \in Seq(Lines), x \in Lines : Len(v) = n /\ u = Append(v, x)
    BY LastApart, ZenonT(60)
  <2>2. s \o v \in Seq(Lines) /\ s \o u = Append(s \o v, x)
    BY <2>1
  <2>3. Parsed(s \o u) = Kept(Parsed(s) \o Parsed(v), x)
    <3>1. Parsed(s \o v) = Parsed(s) \o Parsed(v)
      BY <1>2, <2>1
    <3> QED  BY <2>2, <3>1, ParsedByLine
  <2>4. Parsed(u) = Kept(Parsed(v), x)
    BY <2>1, ParsedByLine
  <2>5. Kept(Parsed(s) \o Parsed(v), x) = Parsed(s) \o Kept(Parsed(v), x)
    <3>1. Parsed(s) \in Seq(Lines) /\ Parsed(v) \in Seq(Lines)
      BY ParsedByLine
    <3>2. CASE IsValid(x)
      <4>1. Corrected(x) \in Lines
        BY <3>2, CorrectedIsLine
      <4>2. Append(Parsed(s) \o Parsed(v), Corrected(x)) = Parsed(s) \o Append(Parsed(v), Corrected(x))
        BY ONLY <3>1, <4>1, AppendToConcat, ZenonT(60)
      <4> QED  BY <3>2, <4>2 DEF Kept
    <3>3. CASE ~ IsValid(x)
      BY <3>3 DEF Kept
    <3> QED  BY <3>2, <3>3
  <2> QED  BY <2>3, <2>4, <2>5
<1>3. Nat \subseteq N
  <2> HIDE DEF N
  <2> QED  BY <1>1, <1>2, NumberInduction
<1>4. Len(t) \in N
  BY <1>3
<1> QED  BY <1>4

(* Every job is in the file once.                                           *)
OneEach(lines) == \A i, k \in DOMAIN lines : lines[i].job = lines[k].job => i = k

JobsFrom(read, lines) ==
  \A i \in DOMAIN read : CanRun(read[i]) /\ \E k \in DOMAIN lines : read[i].job = lines[k].job

LEMMA ParsedOneEach ==
  ASSUME NEW s \in Seq(Lines), OneEach(s)
  PROVE  OneEach(Parsed(s)) /\ JobsFrom(Parsed(s), s)
<1> DEFINE N == {n \in Nat : \A u \in Seq(Lines) :
                   Len(u) = n /\ OneEach(u) => OneEach(Parsed(u)) /\ JobsFrom(Parsed(u), u)}
<1>1. 0 \in N
  <2> SUFFICES ASSUME NEW u \in Seq(Lines), Len(u) = 0
               PROVE  OneEach(Parsed(u)) /\ JobsFrom(Parsed(u), u)
    OBVIOUS
  <2>1. Parsed(u) = <<>>
    BY ParsedByLine
  <2> QED  BY <2>1 DEF OneEach, JobsFrom
<1>2. ASSUME NEW n \in Nat, n \in N PROVE n + 1 \in N
  <2> SUFFICES ASSUME NEW u \in Seq(Lines), Len(u) = n + 1, OneEach(u)
               PROVE  OneEach(Parsed(u)) /\ JobsFrom(Parsed(u), u)
    OBVIOUS
  <2>1. PICK v \in Seq(Lines), x \in Lines :
          Len(v) = n /\ u = Append(v, x) /\ x = u[n + 1] /\ \A i \in 1..n : v[i] = u[i]
    BY LastApart
  <2>2. DOMAIN u = 1..(n + 1) /\ DOMAIN v = 1..n
    BY <2>1
  <2>3. OneEach(v) /\ \A k \in DOMAIN v : v[k].job # x.job
    BY <2>1, <2>2 DEF OneEach
  <2> DEFINE b == Parsed(v)
             new == Corrected(x)
  <2>4. b \in Seq(Lines) /\ OneEach(b) /\ JobsFrom(b, v) /\ Parsed(u) = Kept(b, x)
    BY <1>2, <2>1, <2>3, ParsedByLine
  <2>5. JobsFrom(b, u)
    BY <2>1, <2>2, <2>4 DEF JobsFrom
  <2>6. CASE IsValid(x)
    <3>1. new \in Lines /\ new.job = x.job /\ CanRun(new)
      BY <2>6, CorrectedIsLine
    <3>2. Parsed(u) = Append(b, new)
      BY <2>4, <2>6 DEF Kept
    <3> HIDE DEF b, new
    <3>3. /\ DOMAIN Parsed(u) = 1..(Len(b) + 1) /\ DOMAIN b = 1..Len(b) /\ Len(b) \in Nat
          /\ Parsed(u)[Len(b) + 1] = new /\ \A i \in 1..Len(b) : Parsed(u)[i] = b[i]
      BY <2>4, <3>1, <3>2
    <3>4. \A i \in DOMAIN b : b[i].job # new.job
      BY <2>3, <2>4, <3>1 DEF JobsFrom
    <3>5. OneEach(Parsed(u))
      <4> SUFFICES ASSUME NEW i \in 1..(Len(b) + 1), NEW k \in 1..(Len(b) + 1),
                          Parsed(u)[i].job = Parsed(u)[k].job
                   PROVE  i = k
        BY <3>3 DEF OneEach
      <4>1. CASE i \in 1..Len(b) /\ k \in 1..Len(b)
        BY <2>4, <3>3, <4>1 DEF OneEach
      <4>2. CASE i = Len(b) + 1 \/ k = Len(b) + 1
        <5>1. CASE i = Len(b) + 1 /\ k # Len(b) + 1
          <6>1. k \in DOMAIN b /\ Parsed(u)[k] = b[k] /\ Parsed(u)[i] = new
            BY <3>3, <5>1
          <6> QED  BY <3>4, <6>1
        <5>2. CASE i # Len(b) + 1 /\ k = Len(b) + 1
          <6>1. i \in DOMAIN b /\ Parsed(u)[i] = b[i] /\ Parsed(u)[k] = new
            BY <3>3, <5>2
          <6> QED  BY <3>4, <6>1
        <5> QED  BY <4>2, <5>1, <5>2
      <4> QED  BY <3>3, <4>1, <4>2
    <3>6. JobsFrom(Parsed(u), u)
      <4> SUFFICES ASSUME NEW i \in 1..(Len(b) + 1)
                   PROVE  CanRun(Parsed(u)[i]) /\ \E k \in DOMAIN u : Parsed(u)[i].job = u[k].job
        BY <3>3 DEF JobsFrom
      <4>1. CASE i \in 1..Len(b)
        BY <2>5, <3>3, <4>1 DEF JobsFrom
      <4>2. CASE i = Len(b) + 1
        <5>1. n + 1 \in DOMAIN u /\ u[n + 1].job = new.job
          BY <2>1, <2>2, <3>1
        <5> QED  BY <3>1, <3>3, <4>2, <5>1
      <4> QED  BY <3>3, <4>1, <4>2
    <3> QED  BY <3>5, <3>6
  <2>7. CASE ~ IsValid(x)
    <3>1. Parsed(u) = b
      BY <2>4, <2>7 DEF Kept
    <3> HIDE DEF b
    <3> QED  BY <2>4, <2>5, <3>1
  <2> QED  BY <2>6, <2>7
<1>3. Nat \subseteq N
  <2> HIDE DEF N
  <2> QED  BY <1>1, <1>2, NumberInduction
<1>4. Len(s) \in N
  BY <1>3
<1> QED  BY <1>4

-----------------------------------------------------------------------------
(* The loop.                                                                *)

(* The lines that Users has submitted are the first ones it was given.      *)
Submitted == Len(Read) - Len(vSWF)

SubmittedLines == {Read[i] : i \in 1..Submitted}

FinishedLines == {line \in SubmittedLines : line.job \in vFinishedJobID}

Launched == FinishedLines \cup mapRunningSingleJob

InMemory ==
  /\ Len(vSWF) <= Len(Read)
  /\ \A k \in 1..Len(vSWF) : vSWF[k] = Read[Submitted + k]

InOnePlace ==
  /\ SubmittedLines = mapSingleJob \cup Launched
  /\ mapSingleJob \cap mapRunningSingleJob = {}
  /\ \A line \in mapSingleJob \cup mapRunningSingleJob : line.job \notin vFinishedJobID
  /\ vFinishedJobID = JobNumbers(FinishedLines)
  /\ DOMAIN finishedVMs = JobNumbers(Launched)

(* A second goes by between the submission and everything else.            *)
Delay == IF pc = "users" THEN 0 ELSE 1

InTime ==
  \A line \in SubmittedLines :
    line.submit + Delay <= clock /\ line.dependency \in vFinishedJobID \cup {0}

(* A VM that is assigned keeps its place in this sequence.                  *)
VMs == running \o qWaitingVMs

VMsOfJob(j) == {k \in DOMAIN VMs : VMs[k].job = j}

VMsInPlace ==
  /\ \A k \in DOMAIN VMs : VMs[k].job \in JobNumbers(mapRunningSingleJob)
  /\ \A line \in mapRunningSingleJob :
       /\ finishedVMs[line.job] < line.numCPUs
       /\ finishedVMs[line.job] + Cardinality(VMsOfJob(line.job)) = line.numCPUs

(* What a VM has left and the age of its job make up its run time.  The     *)
(* clock is a second ahead of a VM that has not run in it, and of one that  *)
(* could not run a whole second any more.                                   *)
Ahead == IF pc \in {"datacenter", "queue", "assigning", "run"} THEN 1 ELSE 0

Started(v) == IF v.state = "finished" THEN 1 ELSE Ahead

Ages ==
  \A k \in DOMAIN VMs :
    /\ VMs[k].state = "finished" => VMs[k].left = 0
    /\ \A line \in mapRunningSingleJob :
         VMs[k].job = line.job =>
           VMs[k].left + (clock - line.submit) >= line.runTimeSec + Started(VMs[k])

Index(line) == line.submit \div PERIODIC_LOG_INTERVAL

FinishedIn(i) == {line \in FinishedLines : Index(line) = i}

CPUsOf == [line \in Lines |-> line.numCPUs]
WorkOf == [line \in Lines |-> line.numCPUs * line.runTimeSec]
LeastOf == [line \in Lines |-> line.runTimeSec + 1]
SamplesOf == [i \in Intervals |-> latency.interval[i].samples]

LatencyTypes ==
  latency \in [samples : Nat, sum : Nat,
               interval : [Intervals -> [samples : Nat, sum : Nat, percent : Nat]]]

LatencyTable ==
  /\ LatencyTypes
  /\ latency.samples = Cardinality(FinishedLines)
  /\ \A i \in Intervals :
       /\ latency.interval[i].samples = Cardinality(FinishedIn(i))
       /\ latency.interval[i].sum >= SumFunctionOnSet(LeastOf, FinishedIn(i))
       /\ latency.interval[i].percent >= 100 * latency.interval[i].samples
  /\ Columns \subseteq Intervals => SumFunctionOnSet(SamplesOf, Columns) = latency.samples

ArrivalTypes ==
  arrival \in [clockPrevius : Nat, avgArrivalTime : Nat, gaps : Seq(Nat), avgRunTime : Nat,
               runTimes : Seq(Nat), Small : Nat, Medium : Nat, Big : Nat]

ArrivalTable ==
  /\ ArrivalTypes
  /\ arrival.clockPrevius <= clock
  /\ pc \notin {"loop", "users", "ended"} => arrival.clockPrevius < clock
  /\ arrival.avgArrivalTime = arrival.clockPrevius
  /\ arrival.clockPrevius = SumFunction(arrival.gaps)
  /\ arrival.Small + arrival.Medium + arrival.Big = Len(arrival.runTimes)
  /\ Len(arrival.runTimes) = SumFunctionOnSet(CPUsOf, Launched)
  /\ arrival.avgRunTime = SumFunctionOnSet(WorkOf, Launched)
  /\ arrival.avgRunTime = SumFunction(arrival.runTimes)

EndsFinished == pc = "ended" => IsFinished

LoopInv ==
  /\ TypeOK /\ trace \in Traces
  /\ InMemory
  /\ InOnePlace
  /\ InTime
  /\ VMsInPlace
  /\ Ages
  /\ LatencyTable
  /\ ArrivalTable
  /\ EndsFinished

-----------------------------------------------------------------------------
(* What is known of the lines.                                              *)

LEMMA PartOfFile ==
  ASSUME NEW s \in Seq(Lines), OneEach(s), NEW m \in Nat, NEW n \in Nat, n <= Len(s)
  PROVE  SubSeq(s, m + 1, n) \in Seq(Lines)
<1>1. \A i \in (m + 1)..n : s[i] \in Lines
  OBVIOUS
<1> QED  BY <1>1, SubSeqProperties

LEMMA FileInTwoParts ==
  ASSUME NEW s \in Seq(Lines), OneEach(s), NEW m \in 0..Len(s), NEW n \in m..Len(s)
  PROVE  /\ Parsed(SubSeq(s, 1, m)) \in Seq(Lines) /\ Parsed(SubSeq(s, m + 1, n)) \in Seq(Lines)
         /\ Parsed(SubSeq(s, 1, n)) = Parsed(SubSeq(s, 1, m)) \o Parsed(SubSeq(s, m + 1, n))
<1>1. m \in Nat /\ n \in Nat /\ m <= n /\ n <= Len(s) /\ Len(s) \in Nat
  OBVIOUS
<1>2. SubSeq(s, 0 + 1, m) \in Seq(Lines) /\ SubSeq(s, m + 1, n) \in Seq(Lines)
  BY <1>1, PartOfFile
<1>3. SubSeq(s, 1, m) \in Seq(Lines)
  BY <1>2
<1>4. SubSeq(s, 1, m) \o SubSeq(s, m + 1, n) = SubSeq(s, 1, n)
  <2>1. 1 \in 1..(Len(s) + 1) /\ m \in (1 - 1)..Len(s) /\ n \in m..Len(s)
    BY <1>1
  <2> QED  BY <2>1, ConcatAdjacentSubSeq
<1>5. Parsed(SubSeq(s, 1, m) \o SubSeq(s, m + 1, n)) = Parsed(SubSeq(s, 1, m)) \o Parsed(SubSeq(s, m + 1, n))
  BY <1>2, <1>3, ParsedConcat
<1> QED  BY <1>2, <1>3, <1>4, <1>5, ParsedByLine

LEMMA OneEachInFront ==
  ASSUME NEW a \in Seq(Lines), NEW b \in Seq(Lines), OneEach(a \o b),
         \A i \in DOMAIN (a \o b) : CanRun((a \o b)[i])
  PROVE  /\ OneEach(a) /\ \A i \in DOMAIN a : CanRun(a[i])
         /\ \A i \in DOMAIN a, k \in DOMAIN b : a[i].job # b[k].job
<1>1. /\ DOMAIN a = 1..Len(a) /\ DOMAIN b = 1..Len(b) /\ Len(a) \in Nat /\ Len(b) \in Nat
      /\ DOMAIN (a \o b) = 1..(Len(a) + Len(b))
      /\ \A i \in 1..Len(a) : (a \o b)[i] = a[i]
      /\ \A k \in 1..Len(b) : (a \o b)[Len(a) + k] = b[k]
  OBVIOUS
<1>2. OneEach(a) /\ \A i \in DOMAIN a : CanRun(a[i])
  BY <1>1, SMTT(60) DEF OneEach
<1>3. ASSUME NEW i \in 1..Len(a), NEW k \in 1..Len(b), a[i].job = b[k].job PROVE FALSE
  <2>1. (a \o b)[i].job = (a \o b)[Len(a) + k].job
    BY <1>1, <1>3
  <2>2. i \in 1..(Len(a) + Len(b)) /\ Len(a) + k \in 1..(Len(a) + Len(b)) /\ i # Len(a) + k
    BY <1>1
  <2> QED  BY <1>1, <2>1, <2>2 DEF OneEach
<1> QED  BY <1>1, <1>2, <1>3

LEMMA ReadLines ==
  ASSUME trace \in Traces, position \in 0..Len(trace)
  PROVE  /\ trace \in Seq(Lines) /\ OneEach(trace)
         /\ Read \in Seq(Lines) /\ Unread \in Seq(Lines)
         /\ Parsed(trace) = Read \o Unread
         /\ OneEach(Read) /\ \A i \in DOMAIN Read : CanRun(Read[i])
         /\ \A i \in DOMAIN Read, k \in DOMAIN Unread : Read[i].job # Unread[k].job
<1>1. trace \in Seq(Lines) /\ OneEach(trace)
  BY TraceAssumption DEF OneEach
<1>2. /\ Read \in Seq(Lines) /\ Unread \in Seq(Lines)
      /\ Parsed(SubSeq(trace, 1, Len(trace))) = Read \o Unread
  <2>1. Len(trace) \in position..Len(trace)
    BY <1>1
  <2> QED  BY <1>1, <2>1, FileInTwoParts DEF Read, Unread
<1>3. SubSeq(trace, 1, Len(trace)) = trace
  BY <1>1, SubSeqFull
<1>4. OneEach(Parsed(trace)) /\ \A i \in DOMAIN Parsed(trace) : CanRun(Parsed(trace)[i])
  BY <1>1, ParsedOneEach DEF JobsFrom
<1>5. OneEach(Read \o Unread) /\ \A i \in DOMAIN (Read \o Unread) : CanRun((Read \o Unread)[i])
  BY <1>2, <1>3, <1>4
<1>6. /\ OneEach(Read) /\ \A i \in DOMAIN Read : CanRun(Read[i])
      /\ \A i \in DOMAIN Read, k \in DOMAIN Unread : Read[i].job # Unread[k].job
  BY <1>2, <1>5, OneEachInFront
<1> QED  BY <1>1, <1>2, <1>3, <1>6

LEMMA LinesSubmitted ==
  ASSUME trace \in Traces, position \in 0..Len(trace), vSWF \in Seq(Lines), InMemory
  PROVE  /\ Submitted \in 0..Len(Read) /\ Len(Read) \in Nat /\ DOMAIN Read = 1..Len(Read)
         /\ SubmittedLines \subseteq Lines /\ IsFiniteSet(SubmittedLines)
         /\ \A line \in SubmittedLines : CanRun(line)
         /\ \A a, b \in SubmittedLines : a.job = b.job => a = b
<1>1. Read \in Seq(Lines) /\ OneEach(Read) /\ \A i \in DOMAIN Read : CanRun(Read[i])
  BY ReadLines
<1>2. Len(Read) \in Nat /\ Len(vSWF) \in Nat /\ DOMAIN Read = 1..Len(Read)
  BY <1>1
<1>3. Submitted \in 0..Len(Read)
  BY <1>2 DEF Submitted, InMemory
<1>4. \A i \in 1..Submitted : i \in DOMAIN Read /\ Read[i] \in Lines
  BY <1>1, <1>2, <1>3
<1>5. SubmittedLines \subseteq Lines /\ \A line \in SubmittedLines : CanRun(line)
  BY <1>1, <1>4 DEF SubmittedLines
<1>6. \A a, b \in SubmittedLines : a.job = b.job => a = b
  BY <1>1, <1>4 DEF SubmittedLines, OneEach
<1>7. IsFiniteSet(SubmittedLines)
  <2> DEFINE f == [i \in 1..Submitted |-> Read[i]]
  <2>1. f \in Surjection(1..Submitted, SubmittedLines)
    BY DEF Surjection, SubmittedLines
  <2>2. IsFiniteSet(1..Submitted)
    BY <1>3, FS_Interval
  <2> HIDE DEF f
  <2> QED  BY <2>1, <2>2, FS_Surjection
<1> QED  BY <1>2, <1>3, <1>5, <1>6, <1>7

(* The parts of the invariant under steps that change only some variables.  *)

LEMMA LinesKept ==
  ASSUME UNCHANGED <<trace, position, vSWF>>
  PROVE  /\ Read' = Read /\ Submitted' = Submitted /\ SubmittedLines' = SubmittedLines
         /\ InMemory => InMemory'
<1>1. Read' = Read
  BY DEF Read
<1>2. Submitted' = Submitted
  BY <1>1 DEF Submitted
<1> QED  BY <1>1, <1>2 DEF SubmittedLines, InMemory

LEMMA PlacesKept ==
  ASSUME SubmittedLines' = SubmittedLines, UNCHANGED queue
  PROVE  /\ FinishedLines' = FinishedLines /\ Launched' = Launched
         /\ InOnePlace => InOnePlace'
BY DEF queue, FinishedLines, Launched, InOnePlace

LEMMA LatencyKept ==
  ASSUME FinishedLines' = FinishedLines, UNCHANGED <<latency, clock>>
  PROVE  LatencyTable => LatencyTable'
<1>1. LatencyTypes => LatencyTypes'
  BY DEF LatencyTypes
<1>2. \A i : FinishedIn(i)' = FinishedIn(i)
  BY DEF FinishedIn
<1>3. SamplesOf' = SamplesOf /\ Columns' = Columns
  BY DEF SamplesOf, Columns
<1> QED  BY <1>1, <1>2, <1>3 DEF LatencyTable

LEMMA ArrivalKept ==
  ASSUME Launched' = Launched, UNCHANGED arrival, ArrivalTable,
         \/ /\ UNCHANGED clock
            /\ pc' \notin {"loop", "users", "ended"} => pc \notin {"loop", "users", "ended"}
         \/ clock \in Nat /\ clock' = clock + 1
  PROVE  ArrivalTable'
<1>1. ArrivalTypes' /\ arrival.clockPrevius \in Nat
  BY DEF ArrivalTable, ArrivalTypes
<1>2. /\ arrival.clockPrevius <= clock'
      /\ pc' \notin {"loop", "users", "ended"} => arrival.clockPrevius < clock'
  BY <1>1 DEF ArrivalTable
<1> QED  BY <1>1, <1>2 DEF ArrivalTable

LEMMA VMsKept ==
  ASSUME UNCHANGED <<running, qWaitingVMs, mapRunningSingleJob, finishedVMs>>
  PROVE  VMs' = VMs /\ (VMsInPlace => VMsInPlace')
<1>1. VMs' = VMs /\ \A j : VMsOfJob(j)' = VMsOfJob(j)
  BY DEF VMs, VMsOfJob
<1> QED  BY <1>1 DEF VMsInPlace

-----------------------------------------------------------------------------
(* The steps.                                                               *)

LEMMA FinishedAreLines ==
  ASSUME LoopInv
  PROVE  /\ SubmittedLines \subseteq Lines /\ IsFiniteSet(SubmittedLines)
         /\ FinishedLines \subseteq SubmittedLines /\ IsFiniteSet(FinishedLines)
         /\ Launched \subseteq SubmittedLines /\ IsFiniteSet(Launched)
         /\ mapSingleJob \cup mapRunningSingleJob \subseteq SubmittedLines
         /\ \A line \in SubmittedLines : CanRun(line)
         /\ \A a, b \in SubmittedLines : a.job = b.job => a = b
         /\ clock \in Nat /\ PERIODIC_LOG_INTERVAL \in Nat \ {0}
<1>1. /\ SubmittedLines \subseteq Lines /\ IsFiniteSet(SubmittedLines)
      /\ \A line \in SubmittedLines : CanRun(line)
      /\ \A a, b \in SubmittedLines : a.job = b.job => a = b
  BY LinesSubmitted, SMTT(60) DEF LoopInv, TypeOK
<1>2. /\ FinishedLines \subseteq SubmittedLines /\ Launched \subseteq SubmittedLines
      /\ mapSingleJob \cup mapRunningSingleJob \subseteq SubmittedLines
  BY DEF LoopInv, InOnePlace, FinishedLines, Launched
<1>3. IsFiniteSet(FinishedLines) /\ IsFiniteSet(Launched)
  BY <1>1, <1>2, FS_Subset
<1> QED  BY <1>1, <1>2, <1>3, LoopAssumption DEF LoopInv, TypeOK

LEMMA VMsAreRecords ==
  ASSUME LoopInv
  PROVE  /\ running \in Seq(VMRecord) /\ qWaitingVMs \in Seq(VMRecord)
         /\ VMs \in Seq(VMRecord) /\ DOMAIN VMs = 1..Len(VMs)
         /\ Len(VMs) = Len(running) + Len(qWaitingVMs)
         /\ \A k \in DOMAIN VMs : VMs[k] \in VMRecord
<1>1. running \in Seq(VMRecord) /\ qWaitingVMs \in Seq(VMRecord)
  BY DEF LoopInv, TypeOK, VMRecord
<1>2. VMs \in Seq(VMRecord) /\ Len(VMs) = Len(running) + Len(qWaitingVMs)
  BY <1>1 DEF VMs
<1>3. DOMAIN VMs = 1..Len(VMs) /\ \A k \in DOMAIN VMs : VMs[k] \in VMRecord
  BY <1>2
<1> QED  BY <1>1, <1>2, <1>3

LEMMA VMsAssociative == \A a, b, c \in Seq(VMRecord) : (a \o b) \o c = a \o (b \o c)
BY ConcatAssociative

LEMMA LoopStep == LoopInv /\ Loop => LoopInv'
<1> SUFFICES ASSUME LoopInv, Loop PROVE LoopInv'
  OBVIOUS
<1>1. /\ UNCHANGED <<file, vSWF, clock, queue, tables, qWaitingVMs, running>>
      /\ pc = "loop" /\ pc' = IF IsFinished THEN "ended" ELSE "users"
  BY DEF Loop
<1>2. /\ UNCHANGED <<trace, position, isReadingFinished, mapSingleJob, mapRunningSingleJob,
                     finishedVMs, vFinishedJobID, latency, arrival>>
  BY <1>1 DEF file, queue, tables
<1>3. TypeOK' /\ trace' \in Traces
  BY <1>1, <1>2 DEF LoopInv, TypeOK
<1>4. SubmittedLines' = SubmittedLines /\ InMemory'
  BY <1>1, <1>2, LinesKept DEF LoopInv
<1>5. InOnePlace' /\ FinishedLines' = FinishedLines /\ Launched' = Launched
  BY <1>1, <1>4, PlacesKept DEF LoopInv
<1>6. InTime'
  <2>1. \A line \in SubmittedLines : line.submit \in Nat
    BY FinishedAreLines DEF Lines
  <2> QED  BY <1>1, <1>2, <1>4, <2>1, FinishedAreLines DEF LoopInv, InTime, Delay
<1>7. VMsInPlace' /\ VMs' = VMs
  BY <1>1, <1>2, VMsKept DEF LoopInv
<1>8. Ages'
  BY <1>1, <1>2, <1>7 DEF LoopInv, Ages, Started, Ahead
<1>9. LatencyTable' /\ ArrivalTable'
  BY <1>1, <1>2, <1>5, LatencyKept, ArrivalKept DEF LoopInv
<1>10. EndsFinished'
  BY <1>1, <1>2 DEF EndsFinished, IsFinished, JobQueueIsFinished, DataCenterIsFinished, UsersIsFinished
<1> QED  BY <1>3, <1>4, <1>5, <1>6, <1>7, <1>8, <1>9, <1>10 DEF LoopInv

(* A new column of the tables is empty: nothing was submitted in it.       *)
LEMMA LatencyOfNextSecond ==
  ASSUME LoopInv, FinishedLines' = FinishedLines, UNCHANGED latency, clock' = clock + 1
  PROVE  LatencyTable'
<1> DEFINE P == PERIODIC_LOG_INTERVAL
           new == Columns' \ Columns
<1>1. LatencyTypes' /\ SamplesOf' = SamplesOf /\ \A i : FinishedIn(i)' = FinishedIn(i)
  BY DEF LoopInv, LatencyTable, LatencyTypes, SamplesOf, FinishedIn
<1>2. clock \div P \in Nat /\ clock' \div P \in Nat /\ clock \div P <= clock' \div P
  BY FinishedAreLines, QuotientRounds, QuotientMonotone
<1>3. /\ Columns' = Columns \cup new /\ Columns \cap new = {}
      /\ IsFiniteSet(Columns) /\ IsFiniteSet(Columns') /\ IsFiniteSet(new)
  <2>1. Columns = 0..(clock \div P) /\ Columns' = 0..(clock' \div P)
    BY DEF Columns
  <2>2. Columns \subseteq Columns'
    BY <1>2, <2>1
  <2>3. IsFiniteSet(Columns) /\ IsFiniteSet(Columns')
    BY <1>2, <2>1, FS_Interval
  <2> QED  BY <2>2, <2>3, FS_Subset
<1>4. ASSUME Columns' \subseteq Intervals
      PROVE  SumFunctionOnSet(SamplesOf, Columns') = latency.samples
  <2>1. \A i \in Intervals : SamplesOf[i] \in Int
    BY DEF LoopInv, LatencyTable, LatencyTypes, SamplesOf
  <2>2. ASSUME NEW i \in new PROVE SamplesOf[i] = 0
    <3>1. ASSUME NEW line \in FinishedIn(i) PROVE FALSE
      <4>1. line \in SubmittedLines /\ line.submit \in Nat /\ line.submit \div P = i
        BY <3>1, FinishedAreLines DEF FinishedIn, Index, Lines
      <4>2. line.submit <= clock
        BY <4>1, FinishedAreLines DEF LoopInv, InTime, Delay
      <4>3. i \in 0..(clock \div P)
        BY <1>2, <4>1, <4>2, FinishedAreLines, QuotientRounds, QuotientMonotone
      <4> QED  BY <4>3 DEF Columns
    <3>2. i \in Intervals /\ FinishedIn(i) = {}
      BY <1>4, <3>1
    <3> QED  BY <3>2, FS_EmptySet DEF LoopInv, LatencyTable, SamplesOf
  <2>3. SumFunctionOnSet(SamplesOf, new) = 0
    <3>1. SumFunctionOnSet(SamplesOf, new) = 0 * Cardinality(new)
      BY <1>3, <2>2, SumOfSame
    <3> QED  BY <1>3, <3>1, FS_CardinalityType
  <2>4. SumFunctionOnSet(SamplesOf, Columns) = latency.samples /\ latency.samples \in Int
    BY <1>3, <1>4 DEF LoopInv, LatencyTable, LatencyTypes
  <2>5. SumFunctionOnSet(SamplesOf, Columns \cup new) =
          SumFunctionOnSet(SamplesOf, Columns) + SumFunctionOnSet(SamplesOf, new)
    <3>1. \A i \in Columns \cup new : SamplesOf[i] \in Int
      BY <1>3, <1>4, <2>1
    <3> HIDE DEF new
    <3> QED  BY <1>3, <3>1, SumOfUnion
  <2> QED  BY <1>3, <2>3, <2>4, <2>5
<1> QED  BY <1>1, <1>4 DEF LoopInv, LatencyTable

LEMMA UsersDoneStep == LoopInv /\ UsersDone => LoopInv'
<1> SUFFICES ASSUME LoopInv, UsersDone PROVE LoopInv'
  OBVIOUS
<1>1. /\ UNCHANGED <<file, vSWF, queue, tables, qWaitingVMs, running>>
      /\ pc = "users" /\ pc' = "datacenter" /\ clock' = clock + 1 /\ clock \in Nat
  BY DEF UsersDone, LoopInv, TypeOK
<1>2. /\ UNCHANGED <<trace, position, isReadingFinished, mapSingleJob, mapRunningSingleJob,
                     finishedVMs, vFinishedJobID, latency, arrival>>
  BY <1>1 DEF file, queue, tables
<1>3. TypeOK' /\ trace' \in Traces
  BY <1>1, <1>2 DEF LoopInv, TypeOK
<1>4. SubmittedLines' = SubmittedLines /\ InMemory'
  BY <1>1, <1>2, LinesKept DEF LoopInv
<1>5. InOnePlace' /\ FinishedLines' = FinishedLines /\ Launched' = Launched
  BY <1>1, <1>4, PlacesKept DEF LoopInv
<1>6. \A line \in SubmittedLines : line.submit \in Nat /\ line.runTimeSec \in Nat
  BY FinishedAreLines DEF Lines
<1>7. InTime'
  BY <1>1, <1>2, <1>4, <1>6 DEF LoopInv, InTime, Delay
<1>8. VMsInPlace' /\ VMs' = VMs
  BY <1>1, <1>2, VMsKept DEF LoopInv
<1>9. \A k \in DOMAIN VMs : VMs[k].left \in Nat
  BY VMsAreRecords DEF VMRecord
<1>10. Ages'
  <2>1. ASSUME NEW k \in DOMAIN VMs, NEW line \in mapRunningSingleJob, VMs[k].job = line.job
        PROVE  VMs[k].left + ((clock + 1) - line.submit) >= line.runTimeSec + 1
    <3>1. VMs[k].left + (clock - line.submit) >= line.runTimeSec + Started(VMs[k])
      BY <2>1 DEF LoopInv, Ages
    <3>2. VMs[k].left \in Nat /\ line.submit \in Nat /\ line.runTimeSec \in Nat
      BY <1>6, <1>9, FinishedAreLines
    <3>3. Started(VMs[k]) \in {0, 1}
      BY DEF Started, Ahead
    <3> QED  BY <1>1, <3>1, <3>2, <3>3
  <2>2. \A k \in DOMAIN VMs : VMs[k].state = "finished" => VMs[k].left = 0
    BY DEF LoopInv, Ages
  <2>3. \A k : Started(VMs[k])' = 1
    BY <1>1 DEF Started, Ahead
  <2> QED  BY <1>1, <1>2, <1>8, <2>1, <2>2, <2>3 DEF Ages
<1>11. LatencyTable' /\ ArrivalTable'
  BY <1>1, <1>2, <1>5, LatencyOfNextSecond, ArrivalKept DEF LoopInv
<1>12. EndsFinished'
  BY <1>1 DEF EndsFinished
<1> QED  BY <1>3, <1>4, <1>5, <1>7, <1>8, <1>10, <1>11, <1>12 DEF LoopInv

LEMMA InsertStep == LoopInv /\ InsertASingleJob => LoopInv'
<1> SUFFICES ASSUME LoopInv, InsertASingleJob PROVE LoopInv'
  OBVIOUS
<1> DEFINE h == Head(vSWF)
<1>1. /\ UNCHANGED <<file, clock, pc, mapRunningSingleJob, finishedVMs, vFinishedJobID,
                     tables, qWaitingVMs, running>>
      /\ pc = "users" /\ vSWF # <<>> /\ h.submit <= clock
      /\ h.dependency \in vFinishedJobID \cup {0}
      /\ mapSingleJob' = mapSingleJob \cup {h} /\ vSWF' = Tail(vSWF)
  BY DEF InsertASingleJob, IsTheSingleJobFinished
<1>2. UNCHANGED <<trace, position, isReadingFinished, latency, arrival>>
  BY <1>1 DEF file, tables
<1>3. /\ vSWF \in Seq(Lines) /\ trace \in Traces /\ position \in 0..Len(trace) /\ InMemory
  BY DEF LoopInv, TypeOK
<1>4. /\ Len(vSWF) \in Nat /\ Len(vSWF) >= 1 /\ h = vSWF[1] /\ h \in Lines
      /\ Tail(vSWF) \in Seq(Lines) /\ Len(Tail(vSWF)) = Len(vSWF) - 1
      /\ \A k \in 1..(Len(vSWF) - 1) : Tail(vSWF)[k] = vSWF[k + 1]
  BY <1>1, <1>3
<1>5. TypeOK' /\ trace' \in Traces
  BY <1>1, <1>2, <1>4 DEF LoopInv, TypeOK
<1>6. Read' = Read /\ Read \in Seq(Lines) /\ OneEach(Read) /\ DOMAIN Read = 1..Len(Read) /\ Len(Read) \in Nat
  BY <1>2, <1>3, ReadLines, LinesSubmitted DEF Read
<1>7. Submitted \in 0..Len(Read) /\ Submitted = Len(Read) - Len(vSWF) /\ Submitted' = Submitted + 1
  BY <1>1, <1>3, <1>4, <1>6, LinesSubmitted DEF Submitted
<1>8. h = Read[Submitted + 1] /\ Submitted + 1 \in 1..Len(Read)
  BY <1>3, <1>4, <1>7, <1>6 DEF InMemory
<1> HIDE DEF h
<1>9. InMemory'
  <2>1. Len(vSWF') <= Len(Read')
    BY <1>1, <1>3, <1>4, <1>6 DEF InMemory
  <2>2. ASSUME NEW k \in 1..(Len(vSWF) - 1)
        PROVE  Tail(vSWF)[k] = Read[Submitted + 1 + k]
    <3>1. k + 1 \in 1..Len(vSWF) /\ Submitted + (k + 1) = Submitted + 1 + k
      BY <1>4, <1>7
    <3>2. Tail(vSWF)[k] = vSWF[k + 1] /\ vSWF[k + 1] = Read[Submitted + (k + 1)]
      BY <1>3, <1>4, <3>1 DEF InMemory
    <3> QED  BY <3>1, <3>2
  <2> QED  BY <1>1, <1>4, <1>6, <1>7, <2>1, <2>2 DEF InMemory
<1>10. SubmittedLines' = SubmittedLines \cup {h}
  <2>1. 1..(Submitted + 1) = (1..Submitted) \cup {Submitted + 1}
    BY <1>7
  <2>2. SubmittedLines' = {Read[i] : i \in 1..(Submitted + 1)}
    BY <1>6, <1>7 DEF SubmittedLines
  <2> QED  BY <1>8, <2>1, <2>2 DEF SubmittedLines
<1>11. \A line \in SubmittedLines : line.job # h.job
  BY <1>6, <1>7, <1>8 DEF SubmittedLines, OneEach
<1>12. h \notin SubmittedLines /\ h.job \notin vFinishedJobID
  BY <1>11 DEF LoopInv, InOnePlace, JobNumbers, FinishedLines
<1>13. FinishedLines' = FinishedLines /\ Launched' = Launched
  BY <1>1, <1>10, <1>12 DEF FinishedLines, Launched
<1>14. InOnePlace'
  <2>1. SubmittedLines' = mapSingleJob' \cup Launched'
    BY <1>1, <1>10, <1>13 DEF LoopInv, InOnePlace
  <2>2. mapSingleJob' \cap mapRunningSingleJob' = {}
    BY <1>1, <1>12, FinishedAreLines DEF LoopInv, InOnePlace
  <2>3. \A line \in mapSingleJob' \cup mapRunningSingleJob' : line.job \notin vFinishedJobID'
    BY <1>1, <1>12 DEF LoopInv, InOnePlace
  <2> QED  BY <1>1, <1>13, <2>1, <2>2, <2>3 DEF LoopInv, InOnePlace
<1>15. InTime'
  <2>1. h.submit \in Nat
    BY <1>4 DEF Lines
  <2> QED  BY <1>1, <1>10, <2>1 DEF LoopInv, InTime, Delay
<1>16. VMsInPlace' /\ VMs' = VMs
  BY <1>1, VMsKept DEF LoopInv
<1>17. Ages'
  BY <1>1, <1>16 DEF LoopInv, Ages, Started, Ahead
<1>18. LatencyTable' /\ ArrivalTable'
  BY <1>1, <1>2, <1>13, LatencyKept, ArrivalKept DEF LoopInv
<1>19. EndsFinished'
  BY <1>1 DEF EndsFinished
<1> QED  BY <1>5, <1>9, <1>14, <1>15, <1>16, <1>17, <1>18, <1>19 DEF LoopInv

LEMMA NumbersAreInts == \A s \in Seq(Nat) : s \in Seq(Int)
OBVIOUS

LEMMA ArrivalStep == LoopInv /\ Arrival => LoopInv'
<1> SUFFICES ASSUME LoopInv, Arrival PROVE LoopInv'
  OBVIOUS
<1>1. /\ UNCHANGED <<file, vSWF, clock, queue, latency, qWaitingVMs, running>>
      /\ pc = "datacenter" /\ pc' = "queue"
  BY DEF Arrival
<1>2. /\ UNCHANGED <<trace, position, isReadingFinished, mapSingleJob, mapRunningSingleJob,
                     finishedVMs, vFinishedJobID>>
  BY <1>1 DEF file, queue
<1>3. TypeOK' /\ trace' \in Traces
  BY <1>1, <1>2 DEF LoopInv, TypeOK
<1>4. SubmittedLines' = SubmittedLines /\ InMemory'
  BY <1>1, <1>2, LinesKept DEF LoopInv
<1>5. InOnePlace' /\ FinishedLines' = FinishedLines /\ Launched' = Launched
  BY <1>1, <1>4, PlacesKept DEF LoopInv
<1>6. InTime'
  BY <1>1, <1>2, <1>4 DEF LoopInv, InTime, Delay
<1>7. VMsInPlace' /\ VMs' = VMs
  BY <1>1, <1>2, VMsKept DEF LoopInv
<1>8. Ages'
  BY <1>1, <1>2, <1>7 DEF LoopInv, Ages, Started, Ahead
<1>9. LatencyTable'
  BY <1>1, <1>5, LatencyKept DEF LoopInv
<1>10. ArrivalTable'
  <2>1. CASE mapSingleJob = {}
    <3>1. arrival' = arrival
      BY <2>1 DEF Arrival
    <3> QED  BY <1>1, <1>5, <3>1, ArrivalKept DEF LoopInv
  <2>2. CASE mapSingleJob # {}
    <3> DEFINE gap == (clock - 1) - arrival.clockPrevius
    <3>1. arrival' = [arrival EXCEPT !.clockPrevius = clock - 1, !.avgArrivalTime = @ + gap,
                                     !.gaps = Append(@, gap)]
      BY <2>2 DEF Arrival
    <3>2. /\ ArrivalTypes /\ clock \in Nat /\ arrival.clockPrevius < clock
          /\ arrival.clockPrevius \in Nat /\ arrival.gaps \in Seq(Nat)
      BY <1>1 DEF LoopInv, TypeOK, ArrivalTable, ArrivalTypes
    <3>3. gap \in Nat /\ clock - 1 \in Nat /\ arrival.clockPrevius + gap = clock - 1
      BY <3>2
    <3>4. SumFunction(Append(arrival.gaps, gap)) = SumFunction(arrival.gaps) + gap
      BY <3>2, <3>3, NumbersAreInts, SumOfAppend
    <3> HIDE DEF gap
    <3>5. ArrivalTypes'
      <4>1. Append(arrival.gaps, gap) \in Seq(Nat) /\ arrival.avgArrivalTime + gap \in Nat
        BY <3>2, <3>3, SMTT(60) DEF ArrivalTypes
      <4> QED  BY <3>1, <3>2, <3>3, <4>1 DEF ArrivalTypes
    <3>6. /\ arrival'.clockPrevius = clock - 1
          /\ arrival'.avgArrivalTime = arrival.avgArrivalTime + gap
          /\ arrival'.gaps = Append(arrival.gaps, gap)
          /\ arrival'.avgRunTime = arrival.avgRunTime /\ arrival'.runTimes = arrival.runTimes
          /\ arrival'.Small = arrival.Small /\ arrival'.Medium = arrival.Medium
          /\ arrival'.Big = arrival.Big
      BY <3>1, <3>2 DEF ArrivalTypes
    <3>7. /\ arrival'.clockPrevius < clock' /\ arrival'.avgArrivalTime = arrival'.clockPrevius
          /\ arrival'.clockPrevius = SumFunction(arrival'.gaps)
      BY <1>1, <3>2, <3>3, <3>4, <3>6 DEF LoopInv, ArrivalTable
    <3>8. arrival'.clockPrevius <= clock'
      BY <1>1, <3>2, <3>6
    <3> QED  BY <1>5, <3>5, <3>6, <3>7, <3>8 DEF LoopInv, ArrivalTable
  <2> QED  BY <2>1, <2>2
<1>11. EndsFinished'
  BY <1>1 DEF EndsFinished
<1> QED  BY <1>3, <1>4, <1>5, <1>6, <1>7, <1>8, <1>9, <1>10, <1>11 DEF LoopInv

LEMMA SmallestLine ==
  ASSUME NEW S, S \subseteq Lines, S # {}
  PROVE  (CHOOSE l \in S : \A other \in S : l.job <= other.job) \in S
<1> DEFINE A == {l.job : l \in S}
<1>1. A \subseteq Nat /\ A # {}
  BY DEF Lines
<1>2. PICK n \in A : \A m \in A : n <= m
  <2> HIDE DEF A
  <2> QED  BY <1>1, LeastNumber
<1>3. PICK l \in S : l.job = n
  OBVIOUS
<1>4. \A other \in S : l.job <= other.job
  BY <1>2, <1>3
<1> QED  BY <1>4

LEMMA SizeIsOneOfThree ==
  ASSUME NEW line
  PROVE  Size(line) \in {"Small", "Medium", "Big"}
BY DEF Size

(* The statistics of the VMs of one more job.                              *)
LEMMA ArrivedTable ==
  ASSUME ArrivalTypes, NEW first \in Lines
  PROVE  LET a == Arrived(first)
             n == first.numCPUs
             r == first.runTimeSec
         IN  /\ a \in [clockPrevius : Nat, avgArrivalTime : Nat, gaps : Seq(Nat), avgRunTime : Nat,
                       runTimes : Seq(Nat), Small : Nat, Medium : Nat, Big : Nat]
             /\ a.clockPrevius = arrival.clockPrevius
             /\ a.avgArrivalTime = arrival.avgArrivalTime
             /\ a.gaps = arrival.gaps
             /\ a.avgRunTime = arrival.avgRunTime + n * r
             /\ Len(a.runTimes) = Len(arrival.runTimes) + n
             /\ SumFunction(a.runTimes) = SumFunction(arrival.runTimes) + n * r
             /\ a.Small + a.Medium + a.Big = arrival.Small + arrival.Medium + arrival.Big + n
<1> DEFINE a == Arrived(first)
           n == first.numCPUs
           r == first.runTimeSec
           more == arrival.runTimes \o [i \in 1..n |-> r]
<1>1. n \in Nat /\ r \in Nat /\ n * r \in Nat
  BY DEF Lines
<1>2. /\ arrival.clockPrevius \in Nat /\ arrival.avgArrivalTime \in Nat /\ arrival.gaps \in Seq(Nat)
      /\ arrival.avgRunTime \in Nat /\ arrival.runTimes \in Seq(Nat)
      /\ arrival.Small \in Nat /\ arrival.Medium \in Nat /\ arrival.Big \in Nat
  BY DEF ArrivalTypes
<1>3. /\ Len(more) = Len(arrival.runTimes) + n
      /\ SumFunction(more) = SumFunction(arrival.runTimes) + n * r
  BY <1>1, <1>2, NumbersAreInts, SumOfRepeated, SMTT(60)
<1>4. more \in Seq(Nat)
  <2>1. [i \in 1..n |-> r] \in Seq(Nat)
    BY <1>1
  <2> QED  BY <1>2, <2>1
<1> HIDE DEF more, n, r
<1>5. a = [arrival EXCEPT !.avgRunTime = @ + n * r, !.runTimes = more, ![Size(first)] = @ + n]
  BY DEF Arrived, more, n, r
<1> HIDE DEF a
<1>6. ASSUME NEW size \in {"Small", "Medium", "Big"}, size = Size(first)
      PROVE /\ a \in [clockPrevius : Nat, avgArrivalTime : Nat, gaps : Seq(Nat), avgRunTime : Nat,
                       runTimes : Seq(Nat), Small : Nat, Medium : Nat, Big : Nat]
             /\ a.clockPrevius = arrival.clockPrevius
             /\ a.avgArrivalTime = arrival.avgArrivalTime
             /\ a.gaps = arrival.gaps
             /\ a.avgRunTime = arrival.avgRunTime + n * r
             /\ a.runTimes = more
             /\ a.Small + a.Medium + a.Big = arrival.Small + arrival.Medium + arrival.Big + n
  <2> DEFINE product == n * r
             sum == arrival.avgRunTime + product
  <2>1. product \in Nat /\ n \in Nat
    BY <1>1
  <2> HIDE DEF product
  <2>2. sum \in Nat
    BY <1>2, <2>1
  <2>3. a = [arrival EXCEPT !.avgRunTime = sum, !.runTimes = more, ![size] = @ + n]
    BY <1>5, <1>6 DEF product
  <2> HIDE DEF sum
  <2>4. /\ a.clockPrevius = arrival.clockPrevius /\ a.avgArrivalTime = arrival.avgArrivalTime
        /\ a.gaps = arrival.gaps /\ a.avgRunTime = sum /\ a.runTimes = more
        /\ a.Small = arrival.Small + IF size = "Small" THEN n ELSE 0
        /\ a.Medium = arrival.Medium + IF size = "Medium" THEN n ELSE 0
        /\ a.Big = arrival.Big + IF size = "Big" THEN n ELSE 0
    <3> DEFINE b == [arrival EXCEPT !.avgRunTime = sum, !.runTimes = more]
    <3>1. /\ DOMAIN b = {"clockPrevius", "avgArrivalTime", "gaps", "avgRunTime", "runTimes",
                          "Small", "Medium", "Big"}
          /\ b.clockPrevius = arrival.clockPrevius /\ b.avgArrivalTime = arrival.avgArrivalTime
          /\ b.gaps = arrival.gaps /\ b.avgRunTime = sum /\ b.runTimes = more
          /\ b.Small = arrival.Small /\ b.Medium = arrival.Medium /\ b.Big = arrival.Big
      BY DEF ArrivalTypes
    <3>2. a = [b EXCEPT ![size] = @ + n]
      BY <2>3
    <3> HIDE DEF b
    <3>3. \A x \in DOMAIN b : a[x] = IF x = size THEN b[x] + n ELSE b[x]
      BY <3>2
    <3>4. \A x \in {"clockPrevius", "avgArrivalTime", "gaps", "avgRunTime", "runTimes"} : a[x] = b[x]
      BY <3>1, <3>3
    <3>5. /\ a["Small"] = IF size = "Small" THEN b["Small"] + n ELSE b["Small"]
          /\ a["Medium"] = IF size = "Medium" THEN b["Medium"] + n ELSE b["Medium"]
          /\ a["Big"] = IF size = "Big" THEN b["Big"] + n ELSE b["Big"]
      BY <3>1, <3>3
    <3> QED  BY <1>2, <2>1, <3>1, <3>4, <3>5, SMTT(60)
  <2>5. a.Small \in Nat /\ a.Medium \in Nat /\ a.Big \in Nat
    BY <1>2, <2>1, <2>4, SMTT(60)
  <2>6. /\ DOMAIN a = {"clockPrevius", "avgArrivalTime", "gaps", "avgRunTime", "runTimes",
                       "Small", "Medium", "Big"}
        /\ a = [x \in DOMAIN a |-> a[x]]
    BY <2>3 DEF ArrivalTypes
  <2>7. a \in [clockPrevius : Nat, avgArrivalTime : Nat, gaps : Seq(Nat), avgRunTime : Nat,
               runTimes : Seq(Nat), Small : Nat, Medium : Nat, Big : Nat]
    BY <1>2, <1>4, <2>2, <2>4, <2>5, <2>6
  <2>8. a.Small + a.Medium + a.Big = arrival.Small + arrival.Medium + arrival.Big + n
    BY <1>2, <2>1, <2>4, SMTT(60)
  <2> QED  BY <2>4, <2>7, <2>8 DEF sum, product
<1> QED  BY <1>3, <1>6, SizeIsOneOfThree DEF a, n, r

LEMMA TakeFirstStep == LoopInv /\ TakeFirst => LoopInv'
<1> SUFFICES ASSUME LoopInv, TakeFirst PROVE LoopInv'
  OBVIOUS
<1>1. PICK first \in mapSingleJob :
      /\ UNCHANGED <<file, vSWF, clock, pc, vFinishedJobID, latency, running>>
      /\ pc = "queue" /\ mapSingleJob # {}
      /\ mapSingleJob' = mapSingleJob \ {first}
      /\ mapRunningSingleJob' = mapRunningSingleJob \cup {first}
      /\ finishedVMs' = [j \in DOMAIN finishedVMs \cup {first.job} |->
                           IF j = first.job THEN 0 ELSE finishedVMs[j]]
      /\ qWaitingVMs' = qWaitingVMs \o VMsOf(first)
      /\ arrival' = Arrived(first)
  <2> DEFINE least == CHOOSE l \in mapSingleJob : \A other \in mapSingleJob : l.job <= other.job
  <2>1. mapSingleJob # {} /\ least \in mapSingleJob
    BY SmallestLine DEF TakeFirst, LoopInv, TypeOK
  <2> QED  BY <2>1 DEF TakeFirst
<1>2. UNCHANGED <<trace, position, isReadingFinished>>
  BY <1>1 DEF file
<1>3. first \in mapSingleJob /\ first \in Lines
  BY <1>1 DEF LoopInv, TypeOK
<1> DEFINE n == first.numCPUs
<1>4. /\ n \in Nat /\ n > 0 /\ first.runTimeSec \in Nat /\ first.job \in Nat /\ first.submit \in Nat
      /\ first \in SubmittedLines
  BY <1>3, FinishedAreLines DEF Lines, CanRun
<1>5. first.job \notin vFinishedJobID /\ first \notin mapRunningSingleJob
      /\ first \notin Launched /\ first.job \notin JobNumbers(mapRunningSingleJob)
  <2>1. first.job \notin vFinishedJobID /\ first \notin mapRunningSingleJob
    BY <1>3 DEF LoopInv, InOnePlace
  <2>2. first \notin Launched
    BY <2>1 DEF Launched, FinishedLines
  <2>3. first.job \notin JobNumbers(mapRunningSingleJob)
    BY <1>4, <2>1, FinishedAreLines DEF JobNumbers
  <2> QED  BY <2>1, <2>2, <2>3
<1>6. /\ VMsOf(first) \in Seq(VMRecord) /\ Len(VMsOf(first)) = n
      /\ \A k \in 1..n :
           VMsOf(first)[k] = [job |-> first.job, left |-> first.runTimeSec, state |-> "runs"]
  <2> DEFINE vm == [job |-> first.job, left |-> first.runTimeSec, state |-> "runs"]
  <2>1. vm \in VMRecord
    BY <1>4 DEF VMRecord
  <2> HIDE DEF vm, n
  <2>2. VMsOf(first) = [i \in 1..n |-> vm]
    BY DEF VMsOf, vm, n
  <2>3. [i \in 1..n |-> vm] \in Seq(VMRecord) /\ Len([i \in 1..n |-> vm]) = n
    BY <1>4, <2>1
  <2> QED  BY <2>2, <2>3 DEF vm
<1>7. /\ running \in Seq(VMRecord) /\ qWaitingVMs \in Seq(VMRecord) /\ VMs \in Seq(VMRecord)
      /\ DOMAIN VMs = 1..Len(VMs) /\ Len(VMs) \in Nat
  BY VMsAreRecords
<1>8. VMs' = VMs \o VMsOf(first)
  <2> DEFINE v == VMsOf(first)
  <2>1. v \in Seq(VMRecord)
    BY <1>6
  <2> HIDE DEF v
  <2>2. (running \o qWaitingVMs) \o v = running \o (qWaitingVMs \o v)
    BY ONLY <1>7, <2>1, VMsAssociative, ZenonT(60)
  <2> QED  BY <1>1, <2>2 DEF VMs, v
<1>9. /\ DOMAIN VMs' = 1..(Len(VMs) + n)
      /\ \A k \in 1..Len(VMs) : VMs'[k] = VMs[k]
      /\ \A k \in (Len(VMs) + 1)..(Len(VMs) + n) :
           VMs'[k] = [job |-> first.job, left |-> first.runTimeSec, state |-> "runs"]
  <2>1. /\ DOMAIN VMs' = 1..(Len(VMs) + n)
        /\ \A k \in 1..Len(VMs) : VMs'[k] = VMs[k]
        /\ \A k \in (Len(VMs) + 1)..(Len(VMs) + n) : VMs'[k] = VMsOf(first)[k - Len(VMs)]
    BY <1>4, <1>6, <1>7, <1>8, SMTT(60)
  <2>2. \A k \in (Len(VMs) + 1)..(Len(VMs) + n) : k - Len(VMs) \in 1..n
    BY <1>4, <1>7
  <2> QED  BY <1>6, <2>1, <2>2
<1>10. TypeOK' /\ trace' \in Traces
  <2>1. qWaitingVMs' \in Seq(VMRecord)
    BY <1>1, <1>6, <1>7 DEF VMRecord
  <2>2. \A j \in DOMAIN finishedVMs' : finishedVMs'[j] \in Nat
    BY <1>1 DEF LoopInv, TypeOK
  <2>3. mapSingleJob' \subseteq Lines /\ mapRunningSingleJob' \subseteq Lines
    BY <1>1, <1>3 DEF LoopInv, TypeOK
  <2> QED  BY <1>1, <1>2, <2>1, <2>2, <2>3 DEF LoopInv, TypeOK
<1>11. SubmittedLines' = SubmittedLines /\ InMemory'
  BY <1>1, <1>2, LinesKept DEF LoopInv
<1>12. FinishedLines' = FinishedLines /\ Launched' = Launched \cup {first}
  BY <1>1, <1>11 DEF FinishedLines, Launched
<1>13. InOnePlace'
  <2>1. SubmittedLines' = mapSingleJob' \cup Launched'
    BY <1>1, <1>3, <1>11, <1>12 DEF LoopInv, InOnePlace
  <2>2. mapSingleJob' \cap mapRunningSingleJob' = {}
    BY <1>1 DEF LoopInv, InOnePlace
  <2>3. \A line \in mapSingleJob' \cup mapRunningSingleJob' : line.job \notin vFinishedJobID'
    BY <1>1, <1>5 DEF LoopInv, InOnePlace
  <2>4. DOMAIN finishedVMs' = JobNumbers(Launched')
    BY <1>1, <1>12 DEF LoopInv, InOnePlace, JobNumbers
  <2> QED  BY <1>1, <1>12, <2>1, <2>2, <2>3, <2>4 DEF LoopInv, InOnePlace
<1>14. InTime'
  BY <1>1, <1>11 DEF LoopInv, InTime, Delay
<1>15. \A k \in DOMAIN VMs : VMs[k].job \in JobNumbers(mapRunningSingleJob) /\ VMs[k].job # first.job
  BY <1>5 DEF LoopInv, VMsInPlace
<1>16. VMsInPlace'
  <2>2. ASSUME NEW k \in DOMAIN VMs' PROVE VMs'[k].job \in JobNumbers(mapRunningSingleJob')
    <3>1. CASE k \in 1..Len(VMs)
      <4>1. JobNumbers(mapRunningSingleJob) \subseteq JobNumbers(mapRunningSingleJob')
        BY <1>1 DEF JobNumbers
      <4>2. VMs'[k] = VMs[k] /\ k \in DOMAIN VMs
        BY <1>7, <1>9, <3>1
      <4> QED  BY <1>15, <4>1, <4>2
    <3>2. CASE k \in (Len(VMs) + 1)..(Len(VMs) + n)
      BY <1>1, <1>9, <3>2 DEF JobNumbers
    <3> QED  BY <1>4, <1>7, <1>9, <3>1, <3>2
  <2>3. ASSUME NEW line \in mapRunningSingleJob
        PROVE  /\ finishedVMs'[line.job] < line.numCPUs
               /\ finishedVMs'[line.job] + Cardinality(VMsOfJob(line.job)') = line.numCPUs
    <3>1. line.job # first.job /\ line.job \in DOMAIN finishedVMs
      BY <1>5 DEF JobNumbers, LoopInv, InOnePlace, Launched
    <3>2. VMsOfJob(line.job)' = VMsOfJob(line.job)
      BY <1>4, <1>7, <1>9, <3>1 DEF VMsOfJob
    <3> QED  BY <1>1, <3>1, <3>2 DEF LoopInv, VMsInPlace
  <2>4. /\ finishedVMs'[first.job] < n
        /\ finishedVMs'[first.job] + Cardinality(VMsOfJob(first.job)') = n
    <3>1. finishedVMs'[first.job] = 0
      BY <1>1
    <3>2. VMsOfJob(first.job)' = (Len(VMs) + 1)..(Len(VMs) + n)
      <4>1. \A k \in 1..Len(VMs) : VMs'[k].job # first.job
        BY <1>7, <1>9, <1>15
      <4>2. \A k \in (Len(VMs) + 1)..(Len(VMs) + n) : VMs'[k].job = first.job
        BY <1>9
      <4>3. DOMAIN VMs' = (1..Len(VMs)) \cup (Len(VMs) + 1)..(Len(VMs) + n)
        BY <1>4, <1>7, <1>9
      <4>4. \A k \in (Len(VMs) + 1)..(Len(VMs) + n) : k \notin 1..Len(VMs)
        BY <1>4, <1>7
      <4> HIDE DEF n
      <4>5. VMsOfJob(first.job)' = {k \in DOMAIN VMs' : VMs'[k].job = first.job}
        BY <1>1 DEF VMsOfJob
      <4> QED  BY <4>1, <4>2, <4>3, <4>4, <4>5
    <3>3. Cardinality((Len(VMs) + 1)..(Len(VMs) + n)) = n
      <4>1. /\ Len(VMs) + 1 \in Int /\ Len(VMs) + n \in Int /\ ~ (Len(VMs) + 1 > Len(VMs) + n)
            /\ (Len(VMs) + n) - (Len(VMs) + 1) + 1 = n
        BY <1>4, <1>7
      <4> QED  BY <4>1, FS_Interval
    <3> QED  BY <1>4, <3>1, <3>2, <3>3
  <2> QED  BY <1>1, <2>2, <2>3, <2>4 DEF VMsInPlace
<1>17. Ages'
  <2>0. \A k \in DOMAIN VMs' : VMs'[k].state = "finished" => VMs'[k].left = 0
    <3>1. \A k \in 1..Len(VMs) : VMs'[k].state = "finished" => VMs'[k].left = 0
      BY <1>7, <1>9 DEF LoopInv, Ages
    <3>2. \A k \in (Len(VMs) + 1)..(Len(VMs) + n) : VMs'[k].state # "finished"
      BY <1>9
    <3>3. \A k \in 1..(Len(VMs) + n) : k \in 1..Len(VMs) \/ k \in (Len(VMs) + 1)..(Len(VMs) + n)
      BY <1>4, <1>7
    <3> QED  BY <1>9, <3>1, <3>2, <3>3
  <2> SUFFICES ASSUME NEW k \in DOMAIN VMs', NEW line \in mapRunningSingleJob',
                      VMs'[k].job = line.job
               PROVE  VMs'[k].left + (clock - line.submit) >= line.runTimeSec + 1
    BY <1>1, <2>0 DEF Ages, Started, Ahead
  <2>1. CASE k \in 1..Len(VMs)
    <3>1. VMs'[k] = VMs[k] /\ k \in DOMAIN VMs /\ line \in mapRunningSingleJob
      BY <1>1, <1>7, <1>9, <1>15, <2>1
    <3> QED  BY <1>1, <3>1 DEF LoopInv, Ages, Started, Ahead
  <2>2. CASE k \in (Len(VMs) + 1)..(Len(VMs) + n)
    <3>1. VMs'[k] = [job |-> first.job, left |-> first.runTimeSec, state |-> "runs"]
      BY <1>9, <2>2
    <3>2. line = first
      BY <1>1, <1>5, <3>1 DEF JobNumbers
    <3>3. first.submit + 1 <= clock /\ clock \in Nat
      BY <1>1, <1>4 DEF LoopInv, InTime, Delay, TypeOK
    <3> QED  BY <1>4, <3>1, <3>2, <3>3
  <2> QED  BY <1>4, <1>7, <1>9, <2>1, <2>2
<1>18. LatencyTable'
  BY <1>1, <1>12, LatencyKept DEF LoopInv
<1>19. ArrivalTable'
  <2>1. IsFiniteSet(Launched) /\ Launched \subseteq Lines
    BY FinishedAreLines
  <2>2. SumFunctionOnSet(CPUsOf, Launched') = SumFunctionOnSet(CPUsOf, Launched) + n
    <3>1. \A line \in Launched \cup {first} : CPUsOf[line] \in Int
      BY <1>3, <2>1 DEF CPUsOf, Lines
    <3>2. CPUsOf[first] = n
      BY <1>3 DEF CPUsOf
    <3> QED  BY <1>5, <1>12, <2>1, <3>1, <3>2, SumOfOneMore
  <2>3. SumFunctionOnSet(WorkOf, Launched') =
          SumFunctionOnSet(WorkOf, Launched) + n * first.runTimeSec
    <3>1. \A line \in Launched \cup {first} : WorkOf[line] \in Int
      <4>1. \A line \in Lines : line.numCPUs * line.runTimeSec \in Int
        BY DEF Lines
      <4> QED  BY <1>3, <2>1, <4>1 DEF WorkOf
    <3>2. WorkOf[first] = n * first.runTimeSec
      BY <1>3 DEF WorkOf
    <3> QED  BY <1>5, <1>12, <2>1, <3>1, <3>2, SumOfOneMore
  <2>4. ArrivalTypes
    BY DEF LoopInv, ArrivalTable
  <2> DEFINE a == Arrived(first)
  <2>5. /\ a \in [clockPrevius : Nat, avgArrivalTime : Nat, gaps : Seq(Nat), avgRunTime : Nat,
                  runTimes : Seq(Nat), Small : Nat, Medium : Nat, Big : Nat]
        /\ a.clockPrevius = arrival.clockPrevius
        /\ a.avgArrivalTime = arrival.avgArrivalTime
        /\ a.gaps = arrival.gaps
        /\ a.avgRunTime = arrival.avgRunTime + n * first.runTimeSec
        /\ Len(a.runTimes) = Len(arrival.runTimes) + n
        /\ SumFunction(a.runTimes) = SumFunction(arrival.runTimes) + n * first.runTimeSec
        /\ a.Small + a.Medium + a.Big = arrival.Small + arrival.Medium + arrival.Big + n
    BY <1>3, <2>4, ArrivedTable
  <2> HIDE DEF a, n
  <2>6. arrival' = a
    BY <1>1 DEF a
  <2>7. ArrivalTypes'
    BY <2>5, <2>6 DEF ArrivalTypes
  <2> QED  BY <1>1, <2>2, <2>3, <2>5, <2>6, <2>7 DEF LoopInv, ArrivalTable
<1>20. EndsFinished'
  BY <1>1 DEF EndsFinished
<1> QED  BY <1>10, <1>11, <1>13, <1>14, <1>16, <1>17, <1>18, <1>19, <1>20 DEF LoopInv

LEMMA AssignVMsStep == LoopInv /\ AssignVMs => LoopInv'
<1> SUFFICES ASSUME LoopInv, AssignVMs PROVE LoopInv'
  OBVIOUS
<1> DEFINE a == Assigned
           taken == SubSeq(qWaitingVMs, 1, a)
           rest == SubSeq(qWaitingVMs, a + 1, Len(qWaitingVMs))
<1>1. /\ UNCHANGED <<file, vSWF, clock, queue, tables>>
      /\ pc = "queue" /\ pc' = "run"
      /\ running' = running \o taken /\ qWaitingVMs' = rest
  BY DEF AssignVMs
<1>2. /\ UNCHANGED <<trace, position, isReadingFinished, mapSingleJob, mapRunningSingleJob,
                     finishedVMs, vFinishedJobID, latency, arrival>>
  BY <1>1 DEF file, queue, tables
<1>3. /\ running \in Seq(VMRecord) /\ qWaitingVMs \in Seq(VMRecord)
      /\ Len(running) \in Nat /\ Len(qWaitingVMs) \in Nat
  BY VMsAreRecords
<1>4. a \in 0..Len(qWaitingVMs)
  <2> DEFINE busy == {i \in DOMAIN running : running[i].state # "finished"}
             room == Capacity - Cardinality(busy)
  <2>1. IsFiniteSet(busy)
    <3>1. IsFiniteSet(1..Len(running))
      <4>1. 1 \in Int /\ Len(running) \in Int
        BY <1>3
      <4> QED  BY ONLY <4>1, FS_Interval
    <3>2. DOMAIN running = 1..Len(running)
      BY <1>3
    <3>3. busy \subseteq 1..Len(running)
      BY <3>2
    <3> HIDE DEF busy
    <3> QED  BY <3>1, <3>3, FS_Subset
  <2>2. room \in Int
    <3>1. Cardinality(busy) \in Nat /\ Capacity \in Nat
      BY <2>1, FS_CardinalityType, LoopAssumption
    <3> QED  BY <3>1
  <2>3. Assigned = IF room > 0 THEN SmallerOf(Len(qWaitingVMs), room) ELSE 0
    BY DEF Assigned
  <2> HIDE DEF room, busy
  <2> QED  BY <1>3, <2>2, <2>3 DEF SmallerOf
<1> HIDE DEF a
<1>5. /\ taken \in Seq(VMRecord) /\ rest \in Seq(VMRecord) /\ Len(taken) = a
      /\ taken \o rest = qWaitingVMs
  <2>1. taken \o rest = SubSeq(qWaitingVMs, 1, Len(qWaitingVMs))
    <3>1. 1 \in 1..(Len(qWaitingVMs) + 1) /\ a \in (1 - 1)..Len(qWaitingVMs)
          /\ Len(qWaitingVMs) \in a..Len(qWaitingVMs)
      BY <1>3, <1>4
    <3> QED  BY <1>3, <3>1, ConcatAdjacentSubSeq
  <2>2. SubSeq(qWaitingVMs, 1, Len(qWaitingVMs)) = qWaitingVMs
    BY <1>3, SubSeqFull
  <2>3. taken \in Seq(VMRecord) /\ Len(taken) = a
    <3>1. \A i \in 1..a : qWaitingVMs[i] \in VMRecord
      BY <1>3, <1>4
    <3>2. taken \in Seq(VMRecord) /\ Len(taken) = IF 1 <= a THEN a - 1 + 1 ELSE 0
      BY <1>4, <3>1, SubSeqProperties
    <3> QED  BY <1>4, <3>2
  <2>4. rest \in Seq(VMRecord)
    <3>1. \A i \in (a + 1)..Len(qWaitingVMs) : qWaitingVMs[i] \in VMRecord
      BY <1>3, <1>4
    <3>2. a + 1 \in Int /\ Len(qWaitingVMs) \in Int
      BY <1>3, <1>4
    <3> QED  BY <3>1, <3>2, SubSeqProperties
  <2> QED  BY <2>1, <2>2, <2>3, <2>4
<1> HIDE DEF taken, rest
<1>6. VMs' = VMs
  <2>1. (running \o taken) \o rest = running \o (taken \o rest)
    BY ONLY <1>3, <1>5, VMsAssociative, ZenonT(60)
  <2> QED  BY <1>1, <1>5, <2>1 DEF VMs
<1>7. running' \in Seq(VMRecord) /\ qWaitingVMs' \in Seq(VMRecord)
  <2>1. running \o taken \in Seq(VMRecord)
    BY <1>3, <1>5, ConcatProperties
  <2> QED  BY <1>1, <1>5, <2>1
<1>8. TypeOK' /\ trace' \in Traces
  BY <1>1, <1>2, <1>7 DEF LoopInv, TypeOK, VMRecord
<1>9. SubmittedLines' = SubmittedLines /\ InMemory'
  BY <1>1, <1>2, LinesKept DEF LoopInv
<1>10. InOnePlace' /\ FinishedLines' = FinishedLines /\ Launched' = Launched
  BY <1>1, <1>9, PlacesKept DEF LoopInv
<1>11. InTime'
  BY <1>1, <1>2, <1>9 DEF LoopInv, InTime, Delay
<1>12. VMsInPlace'
  <2>1. \A j : VMsOfJob(j)' = VMsOfJob(j)
    BY <1>6 DEF VMsOfJob
  <2> QED  BY <1>2, <1>6, <2>1 DEF LoopInv, VMsInPlace
<1>13. Ages'
  BY <1>1, <1>2, <1>6 DEF LoopInv, Ages, Started, Ahead
<1>14. LatencyTable' /\ ArrivalTable'
  BY <1>1, <1>2, <1>10, LatencyKept, ArrivalKept DEF LoopInv
<1>15. EndsFinished'
  BY <1>1 DEF EndsFinished
<1> QED  BY <1>8, <1>9, <1>10, <1>11, <1>12, <1>13, <1>14, <1>15 DEF LoopInv

(* One VM leaves its server.                                                *)
Over(i, k) == IF k < i THEN k ELSE k + 1

LEMMA WithoutOne ==
  ASSUME NEW s \in Seq(VMRecord), NEW t \in Seq(VMRecord), NEW i \in 1..Len(s)
  PROVE  /\ RemoveAt(s, i) \in Seq(VMRecord) /\ Len(RemoveAt(s, i)) = Len(s) - 1
         /\ RemoveAt(s, i) \o t \in Seq(VMRecord)
         /\ Len(RemoveAt(s, i) \o t) = Len(s \o t) - 1
         /\ \A k \in 1..(Len(s \o t) - 1) : (RemoveAt(s, i) \o t)[k] = (s \o t)[Over(i, k)]
<1> DEFINE S == VMRecord
           a == SubSeq(s, 1, i - 1)
           b == SubSeq(s, i + 1, Len(s))
<1>1. Len(s) \in Nat /\ Len(t) \in Nat /\ i \in Nat /\ i >= 1 /\ i <= Len(s)
  OBVIOUS
<1>0. s \in Seq(S) /\ t \in Seq(S)
  OBVIOUS
<1> HIDE DEF S
<1>2. /\ a \in Seq(S) /\ Len(a) = i - 1 /\ \A k \in 1..(i - 1) : a[k] = s[k]
  <2>1. \A k \in 1..(i - 1) : s[k] \in S
    BY <1>0, <1>1
  <2>2. /\ a \in Seq(S) /\ Len(a) = IF 1 <= i - 1 THEN (i - 1) - 1 + 1 ELSE 0
        /\ \A k \in 1..((i - 1) - 1 + 1) : a[k] = s[1 + k - 1]
    BY <1>1, <2>1, SubSeqProperties
  <2> QED  BY <1>1, <2>2
<1>3. /\ b \in Seq(S) /\ Len(b) = Len(s) - i /\ \A k \in 1..(Len(s) - i) : b[k] = s[i + k]
  <2>1. \A k \in (i + 1)..Len(s) : s[k] \in S
    BY <1>0, <1>1
  <2>2. /\ b \in Seq(S) /\ Len(b) = IF i + 1 <= Len(s) THEN Len(s) - (i + 1) + 1 ELSE 0
        /\ \A k \in 1..(Len(s) - (i + 1) + 1) : b[k] = s[(i + 1) + k - 1]
    BY <1>1, <2>1, SubSeqProperties
  <2>3. ASSUME NEW k \in 1..(Len(s) - i) PROVE b[k] = s[i + k]
    <3>1. (i + 1) + k - 1 = i + k /\ k \in 1..(Len(s) - (i + 1) + 1)
      BY <1>1
    <3> QED  BY <2>2, <3>1
  <2> QED  BY <1>1, <2>2, <2>3
<1>4. RemoveAt(s, i) = a \o b
  BY DEF RemoveAt
<1> HIDE DEF a, b
<1>5. a \o b \in Seq(S) /\ Len(a \o b) = Len(s) - 1
  <2>1. a \o b \in Seq(S) /\ Len(a \o b) = Len(a) + Len(b)
    BY <1>2, <1>3, ConcatProperties
  <2> QED  BY <1>1, <1>2, <1>3, <2>1
<1>6. \A k \in 1..(Len(s) - 1) : (a \o b)[k] = s[Over(i, k)]
  <2> SUFFICES ASSUME NEW k \in 1..(Len(s) - 1) PROVE (a \o b)[k] = s[Over(i, k)]
    OBVIOUS
  <2>1. CASE k < i
    <3>1. k \in 1..(i - 1)
      BY <1>1, <2>1
    <3> QED  BY <1>2, <1>3, <2>1, <3>1 DEF Over
  <2>2. CASE ~ (k < i)
    <3>1. /\ k - (i - 1) \in 1..(Len(s) - i) /\ i + (k - (i - 1)) = k + 1
          /\ k > Len(a) /\ k - Len(a) = k - (i - 1)
      BY <1>1, <1>2, <2>2
    <3>2. (a \o b)[k] = b[k - (i - 1)]
      BY <1>1, <1>2, <1>3, <3>1, SMTT(60)
    <3> QED  BY <1>3, <2>2, <3>1, <3>2 DEF Over
  <2> QED  BY <2>1, <2>2
<1> DEFINE c == a \o b
<1>7. /\ c \in Seq(S) /\ Len(c) = Len(s) - 1 /\ \A k \in 1..(Len(s) - 1) : c[k] = s[Over(i, k)]
  BY <1>5, <1>6
<1>8. RemoveAt(s, i) = c
  BY <1>4
<1> HIDE DEF c
<1>9. c \o t \in Seq(S) /\ Len(c \o t) = Len(s) - 1 + Len(t) /\ Len(s \o t) = Len(s) + Len(t)
  BY <1>0, <1>7, ConcatProperties
<1>10. ASSUME NEW k \in 1..(Len(s) + Len(t) - 1) PROVE (c \o t)[k] = (s \o t)[Over(i, k)]
  <2>1. CASE k \in 1..(Len(s) - 1)
    <3>1. Over(i, k) \in 1..Len(s)
      BY <1>1, <2>1 DEF Over
    <3>2. (c \o t)[k] = c[k] /\ (s \o t)[Over(i, k)] = s[Over(i, k)]
      BY <1>1, <1>7, <2>1, <3>1
    <3> QED  BY <1>7, <2>1, <3>2
  <2>2. CASE k \notin 1..(Len(s) - 1)
    <3>1. /\ Over(i, k) = k + 1 /\ k + 1 \in (Len(s) + 1)..(Len(s) + Len(t))
          /\ (k + 1) - Len(s) = k - (Len(s) - 1) /\ k \in (Len(s) - 1 + 1)..(Len(s) - 1 + Len(t))
      BY <1>1, <2>2 DEF Over
    <3>2. (c \o t)[k] = t[k - (Len(s) - 1)]
      BY <1>1, <1>7, <3>1
    <3>3. (s \o t)[k + 1] = t[(k + 1) - Len(s)]
      BY <1>1, <3>1
    <3> QED  BY <3>1, <3>2, <3>3
  <2> QED  BY <2>1, <2>2
<1>11. Len(s) - 1 + Len(t) = Len(s \o t) - 1 /\ Len(s) + Len(t) - 1 = Len(s \o t) - 1
  BY <1>1, <1>9
<1> QED  BY <1>7, <1>8, <1>9, <1>10, <1>11 DEF S

LEMMA PlacesWithoutOne ==
  ASSUME NEW n \in Nat, NEW i \in 1..(n + 1), NEW P, P \subseteq 1..(n + 1)
  PROVE  LET Q == {k \in 1..n : Over(i, k) \in P} IN
         IsFiniteSet(P) /\ IsFiniteSet(Q) /\ Cardinality(Q) = Cardinality(P \ {i})
<1> DEFINE Q == {k \in 1..n : Over(i, k) \in P}
           f == [k \in Q |-> Over(i, k)]
<1>1. IsFiniteSet(1..(n + 1)) /\ IsFiniteSet(1..n)
  BY FS_Interval
<1>2. IsFiniteSet(P) /\ IsFiniteSet(Q)
  BY <1>1, FS_Subset
<1>3. f \in [Q -> P \ {i}]
  BY DEF Over
<1>4. \A k, l \in Q : f[k] = f[l] => k = l
  BY DEF Over
<1>5. \A p \in P \ {i} : \E k \in Q : f[k] = p
  <2> SUFFICES ASSUME NEW p \in P \ {i} PROVE \E k \in Q : f[k] = p
    OBVIOUS
  <2>1. CASE p < i
    <3>1. p \in 1..n /\ Over(i, p) = p
      BY <2>1 DEF Over
    <3> QED  BY <3>1
  <2>2. CASE ~ (p < i)
    <3>1. p - 1 \in 1..n /\ Over(i, p - 1) = p
      BY <2>2 DEF Over
    <3> QED  BY <3>1
  <2> QED  BY <2>1, <2>2
<1> HIDE DEF Q, f
<1>6. f \in Bijection(Q, P \ {i})
  BY <1>3, <1>4, <1>5 DEF Bijection, Injection, IsInjective, Surjection
<1>7. Cardinality(Q) = Cardinality(P \ {i})
  BY <1>2, <1>6, FS_Bijection DEF ExistsBijection
<1> QED  BY <1>2, <1>7 DEF Q

(* The last VM of a job: its latency is booked.                             *)
LEMMA PercentAtLeast ==
  ASSUME NEW t \in Nat, NEW d \in Nat \ {0}, t >= d
  PROVE  (100 * t) \div d \in Nat /\ (100 * t) \div d >= 100
<1> DEFINE q == (100 * t) \div d
<1>1. q \in Nat /\ 100 * t < d * q + d
  BY QuotientRounds
<1>2. ASSUME q < 100 PROVE FALSE
  <2>1. d * q + d <= d * 100
    BY <1>1, <1>2, TimesMonotone
  <2>2. d * 100 = 100 * d /\ 100 * d <= 100 * t
    OBVIOUS
  <2> HIDE DEF q
  <2>3. d * q \in Nat
    BY <1>1
  <2> QED  BY <1>1, <2>1, <2>2, <2>3
<1> QED  BY <1>1, <1>2

LEMMA BookedTable ==
  ASSUME LoopInv, NEW line \in SubmittedLines, line \notin FinishedLines,
         FinishedLines' = FinishedLines \cup {line},
         clock - line.submit >= line.runTimeSec + 1,
         UNCHANGED clock, latency' = Booked(line)
  PROVE  LatencyTable'
<1> DEFINE elapsed == clock - line.submit
           index == Index(line)
           percent == (100 * elapsed) \div line.runTimeSec
<1>1. /\ line \in Lines /\ line.submit \in Nat /\ line.runTimeSec \in Nat \ {0} /\ clock \in Nat
      /\ line.submit <= clock /\ IsFiniteSet(FinishedLines) /\ PERIODIC_LOG_INTERVAL \in Nat \ {0}
      /\ FinishedLines \subseteq Lines
  <2>1. line \in Lines /\ CanRun(line)
    BY FinishedAreLines
  <2>2. line.submit \in Nat /\ line.runTimeSec \in Nat \ {0}
    BY <2>1 DEF Lines, CanRun
  <2> QED  BY <2>1, <2>2, FinishedAreLines
<1>2. elapsed \in Nat /\ elapsed >= line.runTimeSec + 1
  BY <1>1
<1>3. percent \in Nat /\ percent >= 100
  <2> HIDE DEF elapsed
  <2>1. elapsed >= line.runTimeSec
    BY <1>1, <1>2
  <2> QED  BY <1>1, <1>2, <2>1, PercentAtLeast
<1>4. index \in Nat /\ index \in Columns
  <2>1. line.submit \div PERIODIC_LOG_INTERVAL <= clock \div PERIODIC_LOG_INTERVAL
    BY <1>1, QuotientMonotone
  <2>2. line.submit \div PERIODIC_LOG_INTERVAL \in Nat /\ clock \div PERIODIC_LOG_INTERVAL \in Nat
    BY <1>1, QuotientRounds
  <2> QED  BY <2>1, <2>2 DEF Index, Columns
<1> DEFINE e == latency.interval
<1>5. latency' = [samples |-> latency.samples + 1, sum |-> latency.sum + elapsed,
                  interval |-> IF index \in Intervals
                    THEN [e EXCEPT ![index] = [samples |-> e[index].samples + 1,
                                               sum     |-> e[index].sum + elapsed,
                                               percent |-> e[index].percent + percent]]
                    ELSE e]
  BY DEF Booked, Index
<1>6. /\ latency.samples \in Nat /\ latency.sum \in Nat
      /\ e \in [Intervals -> [samples : Nat, sum : Nat, percent : Nat]]
      /\ \A i \in Intervals : e[i].samples \in Nat /\ e[i].sum \in Nat /\ e[i].percent \in Nat
  BY DEF LoopInv, LatencyTable, LatencyTypes
<1> HIDE DEF elapsed, percent, e, index
<1> DEFINE f == latency'.interval
<1>7. /\ latency'.samples = latency.samples + 1 /\ latency'.sum = latency.sum + elapsed
      /\ f \in [Intervals -> [samples : Nat, sum : Nat, percent : Nat]]
      /\ \A i \in Intervals : i # index => f[i] = e[i]
      /\ index \in Intervals =>
           /\ f[index].samples = e[index].samples + 1
           /\ f[index].sum = e[index].sum + elapsed
           /\ f[index].percent = e[index].percent + percent
  <2> DEFINE new == [samples |-> e[index].samples + 1, sum |-> e[index].sum + elapsed,
                     percent |-> e[index].percent + percent]
  <2>1. index \in Intervals => new \in [samples : Nat, sum : Nat, percent : Nat]
    BY <1>2, <1>3, <1>6
  <2>2. f = IF index \in Intervals THEN [e EXCEPT ![index] = new] ELSE e
    BY <1>5
  <2>3. new.samples = e[index].samples + 1 /\ new.sum = e[index].sum + elapsed
        /\ new.percent = e[index].percent + percent
    OBVIOUS
  <2>4. latency'.samples = latency.samples + 1 /\ latency'.sum = latency.sum + elapsed
    BY <1>5
  <2> HIDE DEF new, f
  <2>5. CASE index \in Intervals
    <3>1. f = [e EXCEPT ![index] = new]
      BY <2>2, <2>5
    <3>2. f \in [Intervals -> [samples : Nat, sum : Nat, percent : Nat]]
      BY <1>6, <2>1, <2>5, <3>1
    <3>3. f[index] = new /\ \A i \in Intervals : i # index => f[i] = e[i]
      BY <1>6, <2>5, <3>1
    <3> QED  BY <2>3, <2>4, <3>2, <3>3
  <2>6. CASE index \notin Intervals
    BY <1>6, <2>2, <2>4, <2>6
  <2> QED  BY <2>5, <2>6
<1>8. LatencyTypes'
  <2>1. latency' = [samples |-> latency'.samples, sum |-> latency'.sum, interval |-> f]
    BY <1>5
  <2>2. latency'.samples \in Nat /\ latency'.sum \in Nat
    BY <1>2, <1>6, <1>7
  <2>3. f \in [Intervals -> [samples : Nat, sum : Nat, percent : Nat]]
    BY <1>7
  <2> HIDE DEF f
  <2>4. latency' \in [samples : Nat, sum : Nat,
                      interval : [Intervals -> [samples : Nat, sum : Nat, percent : Nat]]]
    BY <2>1, <2>2, <2>3
  <2> QED  BY <2>4 DEF LatencyTypes
<1>9. latency'.samples = Cardinality(FinishedLines')
  <2>1. Cardinality(FinishedLines \cup {line}) = Cardinality(FinishedLines) + 1
    BY <1>1, FS_AddElement
  <2> QED  BY <1>7, <2>1 DEF LoopInv, LatencyTable
<1>10. ASSUME NEW i \in Intervals
       PROVE  /\ f[i].samples = Cardinality(FinishedIn(i)')
              /\ f[i].sum >= SumFunctionOnSet(LeastOf, FinishedIn(i)')
              /\ f[i].percent >= 100 * f[i].samples
  <2>1. /\ e[i].samples = Cardinality(FinishedIn(i))
        /\ e[i].sum >= SumFunctionOnSet(LeastOf, FinishedIn(i))
        /\ e[i].percent >= 100 * e[i].samples
    BY DEF LoopInv, LatencyTable, e
  <2>2. FinishedIn(i)' = {l \in FinishedLines \cup {line} : Index(l) = i}
    BY DEF FinishedIn, Index
  <2>3. CASE i # index
    <3>1. FinishedIn(i)' = FinishedIn(i)
      BY <2>2, <2>3 DEF FinishedIn, index
    <3> QED  BY <1>7, <2>1, <2>3, <3>1
  <2>4. CASE i = index
    <3>1. FinishedIn(i)' = FinishedIn(i) \cup {line} /\ line \notin FinishedIn(i)
      BY <2>2, <2>4 DEF FinishedIn, index
    <3>2. IsFiniteSet(FinishedIn(i)) /\ FinishedIn(i) \subseteq Lines
      BY <1>1, FS_Subset DEF FinishedIn
    <3>3. Cardinality(FinishedIn(i)') = Cardinality(FinishedIn(i)) + 1
      BY <3>1, <3>2, FS_AddElement
    <3>4. /\ SumFunctionOnSet(LeastOf, FinishedIn(i)') =
               SumFunctionOnSet(LeastOf, FinishedIn(i)) + (line.runTimeSec + 1)
          /\ SumFunctionOnSet(LeastOf, FinishedIn(i)) \in Int
      <4>1. \A l \in FinishedIn(i) \cup {line} : LeastOf[l] \in Int
        BY <1>1, <3>2 DEF LeastOf, Lines
      <4>2. LeastOf[line] = line.runTimeSec + 1
        BY <1>1 DEF LeastOf
      <4>3. SumFunctionOnSet(LeastOf, FinishedIn(i) \cup {line}) =
              SumFunctionOnSet(LeastOf, FinishedIn(i)) + LeastOf[line]
        BY <3>1, <3>2, <4>1, SumOfOneMore
      <4>4. SumFunctionOnSet(LeastOf, FinishedIn(i)) \in Int
        BY <3>2, <4>1, SumIsInt
      <4> QED  BY <3>1, <4>2, <4>3, <4>4
    <3>5. /\ f[i].samples = e[i].samples + 1 /\ f[i].sum = e[i].sum + elapsed
          /\ f[i].percent = e[i].percent + percent
          /\ e[i].samples \in Nat /\ e[i].sum \in Nat /\ e[i].percent \in Nat
      BY <1>6, <1>7, <2>4
    <3> QED  BY <1>1, <1>2, <1>3, <2>1, <3>3, <3>4, <3>5
  <2> QED  BY <2>3, <2>4
<1>11. ASSUME Columns \subseteq Intervals
       PROVE  SumFunctionOnSet(SamplesOf', Columns) = latency'.samples
  <2>1. /\ SamplesOf = [i \in Intervals |-> e[i].samples]
        /\ SamplesOf' = [i \in Intervals |-> f[i].samples]
    BY DEF SamplesOf, e, Intervals
  <2> DEFINE g == SamplesOf
             h == SamplesOf'
  <2>2. \A i \in Columns : g[i] \in Int /\ h[i] \in Int
    BY <1>6, <1>7, <1>11, <2>1
  <2>3. (\A i \in Columns \ {index} : h[i] = g[i]) /\ h[index] = g[index] + 1
    BY <1>4, <1>7, <1>11, <2>1
  <2>4. IsFiniteSet(Columns)
    <3>1. PICK q \in Nat : q = clock \div PERIODIC_LOG_INTERVAL
      <4>1. clock \div PERIODIC_LOG_INTERVAL \in Nat
        BY <1>1, QuotientRounds
      <4> QED  BY <4>1
    <3>2. IsFiniteSet(0..q)
      BY FS_Interval
    <3> QED  BY <3>1, <3>2, Zenon DEF Columns
  <2> HIDE DEF g, h
  <2>5. SumFunctionOnSet(h, Columns) = SumFunctionOnSet(g, Columns) + h[index] - g[index]
    <3>1. \A i \in Columns : g[i] \in Int /\ h[i] \in Int
      BY <2>2
    <3>2. \A i \in Columns \ {index} : h[i] = g[i]
      BY <2>3
    <3> QED  BY <1>4, <2>4, <3>1, <3>2, SumOfChanged, ZenonT(60)
  <2>6. SumFunctionOnSet(g, Columns) = latency.samples
    BY <1>11 DEF LoopInv, LatencyTable, g
  <2>7. SumFunctionOnSet(h, Columns) = latency.samples + 1
    BY <1>4, <1>6, <2>2, <2>3, <2>5, <2>6
  <2> QED  BY <1>7, <2>7 DEF h
<1>12. Columns' = Columns /\ Intervals' = Intervals /\ LeastOf' = LeastOf
  BY DEF Columns, Intervals, LeastOf
<1> QED  BY <1>8, <1>9, <1>10, <1>11, <1>12 DEF LatencyTable, f

LEMMA OneVMFinishedStep == LoopInv /\ OneVMFinished => LoopInv'
<1> SUFFICES ASSUME LoopInv, OneVMFinished PROVE LoopInv'
  OBVIOUS
<1>1. PICK i \in DOMAIN running, line \in mapRunningSingleJob :
        /\ UNCHANGED <<file, vSWF, clock, pc, mapSingleJob, arrival, qWaitingVMs>>
        /\ pc = "finish"
        /\ running[i].state = "finished" /\ running' = RemoveAt(running, i)
        /\ line.job = running[i].job
        /\ finishedVMs' = [finishedVMs EXCEPT ![line.job] = @ + 1]
        /\ IF finishedVMs[line.job] + 1 = line.numCPUs
             THEN /\ mapRunningSingleJob' = mapRunningSingleJob \ {line}
                  /\ vFinishedJobID' = vFinishedJobID \cup {line.job}
                  /\ latency' = Booked(line)
             ELSE UNCHANGED <<mapRunningSingleJob, vFinishedJobID, latency>>
  BY DEF OneVMFinished
<1>2. UNCHANGED <<trace, position, isReadingFinished>>
  BY <1>1 DEF file
<1> DEFINE over(k) == Over(i, k)
           m == Len(VMs) - 1
           done == finishedVMs[line.job] + 1 = line.numCPUs
<1>3. /\ running \in Seq(VMRecord) /\ qWaitingVMs \in Seq(VMRecord) /\ Len(running) \in Nat
      /\ i \in 1..Len(running) /\ VMs = running \o qWaitingVMs
      /\ Len(VMs) = Len(running) + Len(qWaitingVMs) /\ DOMAIN VMs = 1..Len(VMs)
      /\ \A k \in DOMAIN VMs : VMs[k] \in VMRecord
  BY VMsAreRecords DEF VMs
<1>4. i \in DOMAIN VMs /\ VMs[i] = running[i] /\ m \in Nat /\ i \in 1..(m + 1) /\ Len(VMs) = m + 1
  BY <1>3
<1>5. /\ running' \in Seq(VMRecord) /\ Len(running') = Len(running) - 1
      /\ DOMAIN VMs' = 1..m /\ \A k \in 1..m : VMs'[k] = VMs[over(k)] /\ over(k) \in 1..(m + 1)
  <2>1. /\ RemoveAt(running, i) \in Seq(VMRecord) /\ Len(RemoveAt(running, i)) = Len(running) - 1
        /\ RemoveAt(running, i) \o qWaitingVMs \in Seq(VMRecord)
        /\ Len(RemoveAt(running, i) \o qWaitingVMs) = m
        /\ \A k \in 1..m : (RemoveAt(running, i) \o qWaitingVMs)[k] = VMs[over(k)]
    <3> DEFINE V == running \o qWaitingVMs
               W == RemoveAt(running, i) \o qWaitingVMs
    <3>0. running \in Seq(VMRecord) /\ qWaitingVMs \in Seq(VMRecord) /\ i \in 1..Len(running)
      BY <1>3
    <3>1. /\ RemoveAt(running, i) \in Seq(VMRecord)
          /\ Len(RemoveAt(running, i)) = Len(running) - 1
          /\ W \in Seq(VMRecord) /\ Len(W) = Len(V) - 1
          /\ \A k \in 1..(Len(V) - 1) : W[k] = V[Over(i, k)]
      BY <3>0, WithoutOne
    <3>2. V = VMs
      BY <1>3
    <3> HIDE DEF V, W
    <3>3. Len(W) = m /\ \A k \in 1..m : W[k] = VMs[Over(i, k)]
      BY <3>1, <3>2
    <3> QED  BY <3>1, <3>3 DEF W
  <2>2. VMs' = RemoveAt(running, i) \o qWaitingVMs
    BY <1>1 DEF VMs
  <2>3. \A k \in 1..m : over(k) \in 1..(m + 1)
    BY <1>4 DEF Over
  <2>4. DOMAIN VMs' = 1..m
    BY <2>1, <2>2
  <2> QED  BY <1>1, <2>1, <2>2, <2>3, <2>4
<1> HIDE DEF m
<1>6. \A j : /\ IsFiniteSet(VMsOfJob(j)) /\ IsFiniteSet(VMsOfJob(j)')
             /\ Cardinality(VMsOfJob(j)') = Cardinality(VMsOfJob(j) \ {i})
  <2> SUFFICES ASSUME NEW j
               PROVE  /\ IsFiniteSet(VMsOfJob(j)) /\ IsFiniteSet(VMsOfJob(j)')
                      /\ Cardinality(VMsOfJob(j)') = Cardinality(VMsOfJob(j) \ {i})
    OBVIOUS
  <2> DEFINE P == VMsOfJob(j)
             Q == {k \in 1..m : Over(i, k) \in P}
  <2>1. P \subseteq 1..(m + 1)
    BY <1>3, <1>4 DEF VMsOfJob
  <2>2. VMsOfJob(j)' = {k \in DOMAIN VMs' : VMs'[k].job = j}
    BY DEF VMsOfJob
  <2>3. \A k \in 1..m : Over(i, k) \in P <=> VMs'[k].job = j
    BY <1>3, <1>4, <1>5 DEF VMsOfJob
  <2>4. VMsOfJob(j)' = Q
    BY <1>5, <2>2, <2>3
  <2> HIDE DEF P
  <2>5. IsFiniteSet(P) /\ IsFiniteSet(Q) /\ Cardinality(Q) = Cardinality(P \ {i})
    BY <1>4, <2>1, PlacesWithoutOne
  <2> HIDE DEF Q
  <2> QED  BY <2>4, <2>5 DEF P
<1>7. /\ \A j : j # line.job => Cardinality(VMsOfJob(j)') = Cardinality(VMsOfJob(j))
      /\ Cardinality(VMsOfJob(line.job)') = Cardinality(VMsOfJob(line.job)) - 1
      /\ Cardinality(VMsOfJob(line.job)') \in Nat
      /\ Cardinality(VMsOfJob(line.job)) \in Nat
  <2>1. i \in VMsOfJob(line.job) /\ \A j : j # line.job => i \notin VMsOfJob(j)
    BY <1>1, <1>4 DEF VMsOfJob
  <2>2. \A j : j # line.job => VMsOfJob(j) \ {i} = VMsOfJob(j)
    BY <2>1
  <2>3. Cardinality(VMsOfJob(line.job) \ {i}) = Cardinality(VMsOfJob(line.job)) - 1
    BY <1>6, <2>1, FS_RemoveElement
  <2>4. Cardinality(VMsOfJob(line.job)) \in Nat
    BY <1>6, FS_CardinalityType
  <2>5. Cardinality(VMsOfJob(line.job)') \in Nat
    BY <1>6, FS_CardinalityType
  <2> QED  BY <1>6, <2>2, <2>3, <2>4, <2>5
<1>8. /\ line \in SubmittedLines /\ line \in Lines /\ CanRun(line) /\ line \in Launched
      /\ line.job \in DOMAIN finishedVMs /\ finishedVMs[line.job] \in Nat
      /\ line.job \notin vFinishedJobID /\ line.numCPUs \in Nat /\ line.runTimeSec \in Nat
      /\ line.submit \in Nat /\ line.job \in Nat
  <2>1. line \in SubmittedLines /\ line \in Lines /\ CanRun(line)
    BY FinishedAreLines
  <2>2. line \in Launched /\ line.job \in DOMAIN finishedVMs /\ line.job \notin vFinishedJobID
    BY DEF Launched, JobNumbers, LoopInv, InOnePlace
  <2>3. finishedVMs[line.job] \in Nat
    BY <2>2 DEF LoopInv, TypeOK
  <2>4. line.numCPUs \in Nat /\ line.runTimeSec \in Nat /\ line.submit \in Nat /\ line.job \in Nat
    BY <2>1 DEF Lines
  <2> QED  BY <2>1, <2>2, <2>3, <2>4
<1>9. /\ finishedVMs[line.job] < line.numCPUs
      /\ finishedVMs[line.job] + Cardinality(VMsOfJob(line.job)) = line.numCPUs
  BY DEF LoopInv, VMsInPlace
<1>10. /\ finishedVMs'[line.job] = finishedVMs[line.job] + 1
       /\ DOMAIN finishedVMs' = DOMAIN finishedVMs
       /\ \A j \in DOMAIN finishedVMs : j # line.job => finishedVMs'[j] = finishedVMs[j]
  BY <1>1, <1>8
<1>11. \A l \in SubmittedLines : l.job = line.job => l = line
  BY <1>8, FinishedAreLines
<1>12. TypeOK' /\ trace' \in Traces
  <2>1. mapRunningSingleJob' \subseteq Lines /\ vFinishedJobID' \subseteq Nat
    BY <1>1, <1>8 DEF LoopInv, TypeOK
  <2>2. \A j \in DOMAIN finishedVMs' : finishedVMs'[j] \in Nat
    <3>1. \A j \in DOMAIN finishedVMs : finishedVMs[j] \in Nat
      BY DEF LoopInv, TypeOK
    <3>2. finishedVMs[line.job] + 1 \in Nat
      BY <1>8
    <3> QED  BY <1>10, <3>1, <3>2
  <2> QED  BY <1>1, <1>2, <1>5, <2>1, <2>2 DEF LoopInv, TypeOK, VMRecord
<1>13. SubmittedLines' = SubmittedLines /\ InMemory'
  BY <1>1, <1>2, LinesKept DEF LoopInv
<1>14. /\ done => FinishedLines' = FinishedLines \cup {line}
       /\ ~ done => FinishedLines' = FinishedLines
       /\ Launched' = Launched /\ line \notin FinishedLines
  <2>1. line \notin FinishedLines
    BY <1>8 DEF FinishedLines
  <2>2. CASE done
    <3>1. vFinishedJobID' = vFinishedJobID \cup {line.job}
          /\ mapRunningSingleJob' = mapRunningSingleJob \ {line}
      BY <1>1, <2>2
    <3>2. FinishedLines' = FinishedLines \cup {line}
      BY <1>8, <1>11, <1>13, <3>1 DEF FinishedLines
    <3>3. Launched' = Launched
      BY <3>1, <3>2 DEF Launched
    <3> QED  BY <2>1, <2>2, <3>2, <3>3
  <2>3. CASE ~ done
    <3>1. UNCHANGED <<mapRunningSingleJob, vFinishedJobID>>
      BY <1>1, <2>3
    <3>2. FinishedLines' = FinishedLines
      BY <1>13, <3>1 DEF FinishedLines
    <3> QED  BY <2>1, <2>3, <3>1, <3>2 DEF Launched
  <2> QED  BY <2>2, <2>3
<1>15. mapRunningSingleJob' \subseteq mapRunningSingleJob /\ vFinishedJobID \subseteq vFinishedJobID'
  BY <1>1
<1>16. InOnePlace'
  <2>1. SubmittedLines' = mapSingleJob' \cup Launched' /\ mapSingleJob' \cap mapRunningSingleJob' = {}
    BY <1>1, <1>13, <1>14, <1>15 DEF LoopInv, InOnePlace
  <2>2. DOMAIN finishedVMs' = JobNumbers(Launched')
    BY <1>10, <1>14 DEF LoopInv, InOnePlace
  <2>3. \A l \in mapSingleJob' \cup mapRunningSingleJob' : l.job \notin vFinishedJobID'
    <3> SUFFICES ASSUME NEW l \in mapSingleJob' \cup mapRunningSingleJob', l.job \in vFinishedJobID'
                 PROVE  FALSE
      OBVIOUS
    <3>1. l \in mapSingleJob \cup mapRunningSingleJob /\ l \in SubmittedLines
      BY <1>1, <1>15, FinishedAreLines
    <3>2. l.job \notin vFinishedJobID
      BY <3>1 DEF LoopInv, InOnePlace
    <3>3. done /\ l.job = line.job
      BY <1>1, <3>2
    <3>4. l = line
      BY <1>11, <3>1, <3>3
    <3> QED  BY <1>1, <3>3, <3>4 DEF LoopInv, InOnePlace
  <2>4. vFinishedJobID' = JobNumbers(FinishedLines')
    <3>1. vFinishedJobID = JobNumbers(FinishedLines)
      BY DEF LoopInv, InOnePlace
    <3> QED  BY <1>1, <1>14, <3>1 DEF JobNumbers
  <2> QED  BY <2>1, <2>2, <2>3, <2>4 DEF InOnePlace
<1>17. InTime'
  BY <1>1, <1>13, <1>15 DEF LoopInv, InTime, Delay
<1>18. VMsInPlace'
  <2>2. ASSUME NEW k \in DOMAIN VMs' PROVE VMs'[k].job \in JobNumbers(mapRunningSingleJob')
    <3>1. PICK l \in mapRunningSingleJob : VMs'[k].job = l.job
      <4>1. over(k) \in DOMAIN VMs /\ VMs'[k] = VMs[over(k)]
        BY <1>3, <1>4, <1>5
      <4>2. VMs[over(k)].job \in JobNumbers(mapRunningSingleJob)
        BY <4>1 DEF LoopInv, VMsInPlace
      <4> QED  BY <4>1, <4>2 DEF JobNumbers
    <3>2. CASE done /\ l = line
      <4>1. Cardinality(VMsOfJob(line.job)') = 0
        BY <1>7, <1>8, <1>9, <3>2
      <4>2. k \in VMsOfJob(line.job)'
        <5>1. VMsOfJob(line.job)' = {q \in DOMAIN VMs' : VMs'[q].job = line.job}
          <6>1. \A j : VMsOfJob(j)' = {q \in DOMAIN VMs' : VMs'[q].job = j}
            BY DEF VMsOfJob
          <6> QED  BY <6>1
        <5> QED  BY <3>1, <3>2, <5>1
      <4>3. IsFiniteSet(VMsOfJob(line.job)')
        BY <1>6
      <4> QED  BY <4>1, <4>2, <4>3, FS_EmptySet
    <3>3. CASE ~ (done /\ l = line)
      <4>1. l \in mapRunningSingleJob'
        BY <1>1, <3>3
      <4> QED  BY <3>1, <4>1 DEF JobNumbers
    <3> QED  BY <3>2, <3>3
  <2>3. ASSUME NEW l \in mapRunningSingleJob'
        PROVE  /\ finishedVMs'[l.job] < l.numCPUs
               /\ finishedVMs'[l.job] + Cardinality(VMsOfJob(l.job)') = l.numCPUs
    <3>1. CASE l = line
      <4>1. ~ done
        BY <1>1, <3>1
      <4>2. /\ finishedVMs[line.job] + 1 < line.numCPUs
            /\ (finishedVMs[line.job] + 1) + (Cardinality(VMsOfJob(line.job)) - 1) = line.numCPUs
        BY <1>7, <1>8, <1>9, <4>1
      <4> QED  BY <1>7, <1>10, <3>1, <4>2
    <3>2. CASE l # line
      <4>1. l \in mapRunningSingleJob /\ l.job # line.job /\ l.job \in DOMAIN finishedVMs
        <5>1. l \in mapRunningSingleJob /\ l \in SubmittedLines
          BY <1>15, FinishedAreLines
        <5>2. l.job \in DOMAIN finishedVMs
          BY <5>1 DEF LoopInv, InOnePlace, Launched, JobNumbers
        <5> QED  BY <1>11, <3>2, <5>1, <5>2
      <4>2. /\ finishedVMs[l.job] < l.numCPUs
            /\ finishedVMs[l.job] + Cardinality(VMsOfJob(l.job)) = l.numCPUs
        BY <4>1 DEF LoopInv, VMsInPlace
      <4>3. Cardinality(VMsOfJob(l.job)') = Cardinality(VMsOfJob(l.job))
        BY <1>7, <4>1
      <4> QED  BY <1>10, <4>1, <4>2, <4>3
    <3> QED  BY <3>1, <3>2
  <2>4. \A l \in mapRunningSingleJob' :
               /\ finishedVMs'[l.job] < l.numCPUs
               /\ finishedVMs'[l.job] + Cardinality(VMsOfJob(l.job)') = l.numCPUs
    BY <2>3
  <2> QED  BY <2>2, <2>4 DEF VMsInPlace
<1>19. Ages'
  <2>1. \A k \in DOMAIN VMs' : over(k) \in DOMAIN VMs /\ VMs'[k] = VMs[over(k)]
    BY <1>3, <1>4, <1>5
  <2>2. Ahead' = Ahead
    BY <1>1 DEF Ahead
  <2>3. \A k \in DOMAIN VMs' : VMs'[k].state = "finished" => VMs'[k].left = 0
    BY <2>1 DEF LoopInv, Ages
  <2>4. ASSUME NEW k \in DOMAIN VMs', NEW l \in mapRunningSingleJob', VMs'[k].job = l.job
        PROVE  VMs'[k].left + (clock' - l.submit) >= l.runTimeSec + Started(VMs[k])'
    <3> DEFINE v == VMs'[k]
    <3>1. v = VMs[over(k)] /\ over(k) \in DOMAIN VMs /\ l \in mapRunningSingleJob
      BY <1>15, <2>1
    <3>2. v.left + (clock - l.submit) >= l.runTimeSec + Started(v)
      BY <2>4, <3>1 DEF LoopInv, Ages
    <3>3. Started(VMs[k])' = IF v.state = "finished" THEN 1 ELSE Ahead'
      BY DEF Started
    <3>4. Started(v) = IF v.state = "finished" THEN 1 ELSE Ahead
      BY DEF Started
    <3> HIDE DEF v
    <3>5. Started(VMs[k])' = Started(v)
      BY <2>2, <3>3, <3>4
    <3> QED  BY <1>1, <3>2, <3>5 DEF v
  <2> QED  BY <2>3, <2>4 DEF Ages
<1>20. LatencyTable'
  <2>1. CASE done
    <3>1. clock - line.submit >= line.runTimeSec + 1
      <4>1. VMs[i].left + (clock - line.submit) >= line.runTimeSec + 1
        BY <1>1, <1>4 DEF LoopInv, Ages, Started, Ahead
      <4>2. VMs[i].left = 0
        BY <1>1, <1>4 DEF LoopInv, Ages
      <4> QED  BY <1>8, <4>1, <4>2, FinishedAreLines
    <3>2. latency' = Booked(line) /\ clock' = clock
      BY <1>1, <2>1
    <3> QED  BY <1>8, <1>14, <2>1, <3>1, <3>2, BookedTable
  <2>2. CASE ~ done
    BY <1>1, <1>14, <2>2, LatencyKept DEF LoopInv
  <2> QED  BY <2>1, <2>2
<1>21. ArrivalTable'
  BY <1>1, <1>14, ArrivalKept DEF LoopInv
<1>22. EndsFinished'
  BY <1>1 DEF EndsFinished
<1> QED  BY <1>12, <1>13, <1>16, <1>17, <1>18, <1>19, <1>20, <1>21, <1>22 DEF LoopInv

(* A second of the servers: a VM keeps its job and loses a second at most.  *)
RanOrStood(v, w) ==
  /\ w.job = v.job
  /\ \/ w = v /\ v.state = "finished"
     \/ w.left \in {v.left, v.left - 1} /\ w.state # "finished" /\ v.state # "finished"
     \/ w.left = 0 /\ v.left = 0 /\ w.state = "finished" /\ v.state # "finished"

LEMMA OneSecond ==
  ASSUME NEW v \in VMRecord, v.state # "finished"
  PROVE  /\ Stood(v) \in VMRecord /\ RanOrStood(v, Stood(v))
         /\ Ran(v) \in VMRecord /\ RanOrStood(v, Ran(v))
<1>1. v.job \in Nat /\ v.left \in Nat
  BY DEF VMRecord
<1>2. Stood(v) \in VMRecord /\ RanOrStood(v, Stood(v))
  <2>1. Stood(v) = [job |-> v.job, left |-> v.left, state |-> "stands"]
    BY DEF Stood, VMRecord
  <2> QED  BY <1>1, <2>1 DEF RanOrStood, VMRecord
<1>3. CASE v.left < 1
  <2>1. Ran(v) = [job |-> v.job, left |-> 0, state |-> "finished"]
    BY <1>3 DEF Ran, VMRecord
  <2>2. v.left = 0
    BY <1>1, <1>3
  <2> QED  BY <1>1, <1>2, <2>1, <2>2 DEF RanOrStood, VMRecord
<1>4. CASE ~ (v.left < 1)
  <2>1. Ran(v) = [job |-> v.job, left |-> v.left - 1, state |-> "runs"]
    BY <1>4 DEF Ran, VMRecord
  <2>2. v.left - 1 \in Nat
    BY <1>1, <1>4
  <2> QED  BY <1>1, <1>2, <2>1, <2>2 DEF RanOrStood, VMRecord
<1> QED  BY <1>3, <1>4

LEMMA RunVMsStep == LoopInv /\ RunVMs => LoopInv'
<1> SUFFICES ASSUME LoopInv, RunVMs PROVE LoopInv'
  OBVIOUS
<1>0. PICK still \in SUBSET DOMAIN running :
        running' = [i \in DOMAIN running |->
                      IF running[i].state = "finished" THEN running[i]
                      ELSE IF i \in still THEN Stood(running[i]) ELSE Ran(running[i])]
  BY DEF RunVMs
<1> DEFINE g(i) == IF running[i].state = "finished" THEN running[i]
                   ELSE IF i \in still THEN Stood(running[i]) ELSE Ran(running[i])
<1>1. /\ UNCHANGED <<file, vSWF, clock, queue, tables, qWaitingVMs>>
      /\ pc = "run" /\ pc' = "finish"
      /\ running' = [i \in DOMAIN running |-> g(i)]
  BY <1>0 DEF RunVMs
<1>2. /\ UNCHANGED <<trace, position, isReadingFinished, mapSingleJob, mapRunningSingleJob,
                     finishedVMs, vFinishedJobID, latency, arrival>>
  BY <1>1 DEF file, queue, tables
<1>3. /\ running \in Seq(VMRecord) /\ qWaitingVMs \in Seq(VMRecord)
      /\ DOMAIN running = 1..Len(running) /\ Len(running) \in Nat /\ Len(qWaitingVMs) \in Nat
      /\ DOMAIN VMs = 1..Len(VMs) /\ VMs = running \o qWaitingVMs
      /\ Len(VMs) = Len(running) + Len(qWaitingVMs)
      /\ \A k \in DOMAIN VMs : VMs[k] \in VMRecord
  BY VMsAreRecords DEF VMs
<1>4. /\ running' \in Seq(VMRecord) /\ Len(running') = Len(running)
      /\ \A i \in 1..Len(running) : RanOrStood(running[i], running'[i])
  <2> DEFINE n == Len(running)
  <2>1. \A i \in 1..n : g(i) \in VMRecord /\ RanOrStood(running[i], g(i))
    <3> SUFFICES ASSUME NEW i \in 1..n
                 PROVE  g(i) \in VMRecord /\ RanOrStood(running[i], g(i))
      OBVIOUS
    <3> DEFINE v == running[i]
    <3>1. v \in VMRecord
      BY <1>3
    <3>2. v.state = "finished" => RanOrStood(v, v)
      BY DEF RanOrStood
    <3>3. v.state # "finished" =>
            /\ Stood(v) \in VMRecord /\ RanOrStood(v, Stood(v))
            /\ Ran(v) \in VMRecord /\ RanOrStood(v, Ran(v))
      <4> HIDE DEF v
      <4> QED  BY <3>1, OneSecond
    <3>4. g(i) = IF v.state = "finished" THEN v ELSE IF i \in still THEN Stood(v) ELSE Ran(v)
      OBVIOUS
    <3> HIDE DEF g
    <3>5. g(i) \in VMRecord /\ RanOrStood(v, g(i))
      <4> HIDE DEF v
      <4> QED  BY <3>1, <3>2, <3>3, <3>4
    <3> QED  BY <3>5
  <2>2. running' = [i \in 1..n |-> g(i)] /\ n \in Nat
    BY <1>1, <1>3
  <2> HIDE DEF g, n
  <2>3. running' \in Seq(VMRecord) /\ Len(running') = n /\ \A i \in 1..n : running'[i] = g(i)
    BY <2>1, <2>2
  <2> QED  BY <2>1, <2>3 DEF n
<1> HIDE DEF g
<1>5. /\ DOMAIN VMs' = DOMAIN VMs
      /\ \A k \in DOMAIN VMs : VMs'[k] = VMs[k] \/ RanOrStood(VMs[k], VMs'[k])
  <2> DEFINE v == running' \o qWaitingVMs
             w == running \o qWaitingVMs
  <2>1. /\ v \in Seq(VMRecord) /\ w \in Seq(VMRecord) /\ Len(v) = Len(w)
        /\ Len(w) = Len(running) + Len(qWaitingVMs)
        /\ \A k \in 1..Len(w) :
             /\ v[k] = IF k <= Len(running) THEN running'[k] ELSE qWaitingVMs[k - Len(running)]
             /\ w[k] = IF k <= Len(running) THEN running[k] ELSE qWaitingVMs[k - Len(running)]
    <3>1. /\ v \in Seq(VMRecord) /\ Len(v) = Len(running') + Len(qWaitingVMs)
          /\ \A k \in 1..(Len(running') + Len(qWaitingVMs)) :
               v[k] = IF k <= Len(running') THEN running'[k] ELSE qWaitingVMs[k - Len(running')]
      BY <1>3, <1>4, ConcatProperties
    <3>2. /\ w \in Seq(VMRecord) /\ Len(w) = Len(running) + Len(qWaitingVMs)
          /\ \A k \in 1..(Len(running) + Len(qWaitingVMs)) :
               w[k] = IF k <= Len(running) THEN running[k] ELSE qWaitingVMs[k - Len(running)]
      BY <1>3, ConcatProperties
    <3>3. Len(running') = Len(running)
      BY <1>4
    <3> HIDE DEF v, w
    <3> QED  BY <3>1, <3>2, <3>3
  <2>2. VMs' = v /\ VMs = w
    BY <1>1 DEF VMs
  <2> HIDE DEF v, w
  <2>3. DOMAIN v = 1..Len(w) /\ DOMAIN w = 1..Len(w)
    BY <2>1
  <2>4. ASSUME NEW k \in 1..Len(w)
        PROVE  v[k] = w[k] \/ RanOrStood(w[k], v[k])
    <3>1. CASE k <= Len(running)
      <4>1. k \in 1..Len(running)
        BY <1>3, <2>1, <3>1
      <4> QED  BY <1>4, <2>1, <3>1, <4>1
    <3>2. CASE ~ (k <= Len(running))
      BY <2>1, <3>2
    <3> QED  BY <3>1, <3>2
  <2> QED  BY <2>2, <2>3, <2>4
<1>6. TypeOK' /\ trace' \in Traces
  BY <1>1, <1>2, <1>4 DEF LoopInv, TypeOK, VMRecord
<1>7. SubmittedLines' = SubmittedLines /\ InMemory'
  BY <1>1, <1>2, LinesKept DEF LoopInv
<1>8. InOnePlace' /\ FinishedLines' = FinishedLines /\ Launched' = Launched
  BY <1>1, <1>7, PlacesKept DEF LoopInv
<1>9. InTime'
  BY <1>1, <1>2, <1>7 DEF LoopInv, InTime, Delay
<1>10. VMsInPlace'
  <2>0. \A k \in DOMAIN VMs : VMs'[k].job = VMs[k].job
    BY <1>5 DEF RanOrStood
  <2>1. \A j : VMsOfJob(j)' = VMsOfJob(j)
    BY <1>5, <2>0 DEF VMsOfJob
  <2> QED  BY <1>2, <1>5, <2>0, <2>1 DEF LoopInv, VMsInPlace
<1>11. Ages'
  <2> DEFINE late(v) == IF v.state = "finished" THEN 1 ELSE 0
  <2> SUFFICES ASSUME NEW k \in DOMAIN VMs'
               PROVE  /\ VMs'[k].state = "finished" => VMs'[k].left = 0
                      /\ \A line \in mapRunningSingleJob :
                           VMs'[k].job = line.job =>
                             VMs'[k].left + (clock - line.submit) >= line.runTimeSec + late(VMs'[k])
    <3>1. \A k : Started(VMs[k])' = late(VMs'[k])
      BY <1>1 DEF Started, Ahead
    <3> QED  BY <1>1, <1>2, <3>1 DEF Ages
  <2> DEFINE v == VMs[k]
             w == VMs'[k]
  <2>1. /\ k \in DOMAIN VMs /\ v \in VMRecord
        /\ v.job = w.job /\ (w = v \/ RanOrStood(v, w))
        /\ v.state = "finished" => v.left = 0
    BY <1>3, <1>5 DEF LoopInv, Ages, RanOrStood
  <2>2. w.state = "finished" => w.left = 0
    BY <2>1 DEF RanOrStood
  <2>3. ASSUME NEW line \in mapRunningSingleJob, w.job = line.job
        PROVE  w.left + (clock - line.submit) >= line.runTimeSec + late(w)
    <3>1. v.left + (clock - line.submit) >= line.runTimeSec + 1
      BY <1>1, <2>1, <2>3 DEF LoopInv, Ages, Started, Ahead
    <3>2. v.left \in Nat /\ line.submit \in Nat /\ line.runTimeSec \in Nat /\ clock \in Nat
      BY <2>1, FinishedAreLines DEF VMRecord, Lines
    <3>3. w.left = v.left \/ (w.left = v.left - 1 /\ w.state # "finished")
      BY <2>1 DEF RanOrStood
    <3> HIDE DEF v, w
    <3> QED  BY <3>1, <3>2, <3>3
  <2> QED  BY <2>2, <2>3
<1>12. LatencyTable' /\ ArrivalTable'
  BY <1>1, <1>2, <1>8, LatencyKept, ArrivalKept DEF LoopInv
<1>13. EndsFinished'
  BY <1>1 DEF EndsFinished
<1> QED  BY <1>6, <1>7, <1>8, <1>9, <1>10, <1>11, <1>12, <1>13 DEF LoopInv

(* A step that changes only the turn keeps the invariant.                   *)
LEMMA TurnKept ==
  ASSUME LoopInv, UNCHANGED <<file, vSWF, clock, queue, tables, qWaitingVMs, running>>,
         pc \in {"queue", "finish"}, pc' \in {"assigning", "read"},
         Ahead' = Ahead, Delay' = Delay, EndsFinished'
  PROVE  LoopInv'
<1>2. /\ UNCHANGED <<trace, position, isReadingFinished, mapSingleJob, mapRunningSingleJob,
                     finishedVMs, vFinishedJobID, latency, arrival>>
  BY DEF file, queue, tables
<1>3. TypeOK' /\ trace' \in Traces
  BY <1>2 DEF LoopInv, TypeOK
<1>4. SubmittedLines' = SubmittedLines /\ InMemory'
  BY <1>2, LinesKept DEF LoopInv
<1>5. InOnePlace' /\ FinishedLines' = FinishedLines /\ Launched' = Launched
  BY <1>2, <1>4, PlacesKept DEF LoopInv
<1>6. InTime'
  <2> HIDE DEF Delay
  <2> QED  BY <1>2, <1>4 DEF LoopInv, InTime
<1>7. VMsInPlace' /\ VMs' = VMs
  BY <1>2, VMsKept DEF LoopInv
<1>8. Ages'
  <2> HIDE DEF Ahead
  <2> QED  BY <1>2, <1>7 DEF LoopInv, Ages, Started
<1>9. LatencyTable' /\ ArrivalTable'
  BY <1>2, <1>5, LatencyKept, ArrivalKept DEF LoopInv
<1> QED  BY <1>3, <1>4, <1>5, <1>6, <1>7, <1>8, <1>9 DEF LoopInv

LEMMA SecondDoneStep == LoopInv /\ SecondDone => LoopInv'
<1> SUFFICES ASSUME LoopInv, SecondDone PROVE LoopInv'
  OBVIOUS
<1>1. /\ UNCHANGED <<file, vSWF, clock, queue, tables, qWaitingVMs, running>>
      /\ pc = "finish" /\ pc' = "read"
  BY DEF SecondDone
<1>2. Ahead' = Ahead /\ Delay' = Delay /\ EndsFinished'
  BY <1>1 DEF Ahead, Delay, EndsFinished
<1> QED  BY <1>1, <1>2, TurnKept

LEMMA AssignVMsForeverStep == LoopInv /\ AssignVMsForever => LoopInv'
<1> SUFFICES ASSUME LoopInv, AssignVMsForever PROVE LoopInv'
  OBVIOUS
<1>1. /\ UNCHANGED <<file, vSWF, clock, queue, tables, qWaitingVMs, running>>
      /\ pc = "queue" /\ pc' = "assigning"
  BY DEF AssignVMsForever
<1>2. Ahead' = Ahead /\ Delay' = Delay /\ EndsFinished'
  BY <1>1 DEF Ahead, Delay, EndsFinished
<1> QED  BY <1>1, <1>2, TurnKept

(* A batch is the lines that follow.                                        *)
LEMMA NextBatch ==
  ASSUME NEW f \in Seq(Lines), OneEach(f), NEW start \in 0..Len(f)
  PROVE  LET batch == ReadMoreLines(f, start) IN
         /\ batch.position \in start..Len(f) /\ batch.atEnd \in BOOLEAN
         /\ batch.lines \in Seq(Lines) /\ Parsed(SubSeq(f, 1, start)) \in Seq(Lines)
         /\ Parsed(SubSeq(f, 1, batch.position)) = Parsed(SubSeq(f, 1, start)) \o batch.lines
<1> DEFINE end == SmallerOf(start + SWF_BUFFER_MIN_LINES, Len(f))
           batch == ReadMoreLines(f, start)
<1>1. batch.position = end /\ batch.lines = Parsed(SubSeq(f, start + 1, end)) /\ batch.atEnd \in BOOLEAN
  BY DEF ReadMoreLines
<1>2. end \in start..Len(f)
  BY LoopAssumption DEF SmallerOf
<1> HIDE DEF batch, end
<1> QED  BY <1>1, <1>2, FileInTwoParts DEF batch

LEMMA ReadTraceStep == LoopInv /\ ReadTrace => LoopInv'
<1> SUFFICES ASSUME LoopInv, ReadTrace PROVE LoopInv'
  OBVIOUS
<1>1. /\ UNCHANGED <<trace, clock, queue, tables, qWaitingVMs, running>>
      /\ pc = "read" /\ pc' = "loop"
  BY DEF ReadTrace
<1>2. /\ UNCHANGED <<mapSingleJob, mapRunningSingleJob, finishedVMs, vFinishedJobID,
                     latency, arrival>>
  BY <1>1 DEF queue, tables
<1>3. /\ vSWF \in Seq(Lines) /\ trace \in Traces /\ position \in 0..Len(trace) /\ InMemory
      /\ isReadingFinished \in BOOLEAN
  BY DEF LoopInv, TypeOK
<1>4. /\ trace \in Seq(Lines) /\ OneEach(trace) /\ Read \in Seq(Lines)
  BY <1>3, ReadLines
<1>5. \E more \in Seq(Lines) :
        /\ vSWF' = vSWF \o more /\ Read' = Read \o more
        /\ position' \in 0..Len(trace) /\ isReadingFinished' \in BOOLEAN
  <2>1. CASE ~ isReadingFinished /\ Len(vSWF) < SWF_BUFFER_MIN_LINES
    <3> DEFINE batch == ReadMoreLines(trace, position)
    <3>1. vSWF' = vSWF \o batch.lines /\ position' = batch.position /\ isReadingFinished' = batch.atEnd
      BY <2>1 DEF ReadTrace
    <3>2. /\ batch.position \in position..Len(trace) /\ batch.atEnd \in BOOLEAN
          /\ batch.lines \in Seq(Lines)
          /\ Parsed(SubSeq(trace, 1, batch.position)) = Parsed(SubSeq(trace, 1, position)) \o batch.lines
      BY <1>3, <1>4, NextBatch
    <3> HIDE DEF batch
    <3>3. Read' = Read \o batch.lines
      BY <1>1, <3>1, <3>2 DEF Read
    <3>4. batch.position \in 0..Len(trace)
      BY <1>3, <1>4, <3>2
    <3> QED  BY <3>1, <3>2, <3>3, <3>4
  <2>2. CASE ~ (~ isReadingFinished /\ Len(vSWF) < SWF_BUFFER_MIN_LINES)
    <3>1. UNCHANGED <<vSWF, position, isReadingFinished>>
      BY <2>2 DEF ReadTrace
    <3>2. Read' = Read
      BY <1>1, <3>1 DEF Read
    <3>3. vSWF \o <<>> = vSWF /\ Read \o <<>> = Read /\ <<>> \in Seq(Lines)
      BY <1>3, <1>4, ConcatEmptySeq
    <3> QED  BY <1>3, <3>1, <3>2, <3>3
  <2> QED  BY <2>1, <2>2
<1>6. PICK more \in Seq(Lines) :
        /\ vSWF' = vSWF \o more /\ Read' = Read \o more
        /\ position' \in 0..Len(trace) /\ isReadingFinished' \in BOOLEAN
  BY <1>5
<1>7. /\ vSWF' \in Seq(Lines) /\ Len(vSWF') = Len(vSWF) + Len(more)
      /\ Read' \in Seq(Lines) /\ Len(Read') = Len(Read) + Len(more)
      /\ \A k \in 1..(Len(vSWF) + Len(more)) :
           vSWF'[k] = IF k <= Len(vSWF) THEN vSWF[k] ELSE more[k - Len(vSWF)]
      /\ \A k \in 1..(Len(Read) + Len(more)) :
           Read'[k] = IF k <= Len(Read) THEN Read[k] ELSE more[k - Len(Read)]
  BY <1>3, <1>4, <1>6, ConcatProperties
<1>8. /\ Len(vSWF) \in Nat /\ Len(more) \in Nat /\ Len(Read) \in Nat
      /\ Submitted \in 0..Len(Read) /\ Len(vSWF) = Len(Read) - Submitted
      /\ \A k \in 1..Len(vSWF) : vSWF[k] = Read[Submitted + k]
  <2>1. Len(vSWF) \in Nat /\ Len(more) \in Nat /\ Len(Read) \in Nat
    BY <1>3, <1>4, <1>6
  <2> QED  BY <1>3, <2>1 DEF InMemory, Submitted
<1>9. Submitted' = Submitted
  BY <1>7, <1>8 DEF Submitted
<1>10. TypeOK' /\ trace' \in Traces
  BY <1>1, <1>2, <1>6, <1>7 DEF LoopInv, TypeOK
<1>11. InMemory'
  <2>1. Len(vSWF') <= Len(Read')
    BY <1>7, <1>8
  <2>2. ASSUME NEW k \in 1..Len(vSWF') PROVE vSWF'[k] = Read'[Submitted + k]
    <3>1. Submitted + k \in 1..(Len(Read) + Len(more)) /\ k \in 1..(Len(vSWF) + Len(more))
          /\ (k <= Len(vSWF) <=> Submitted + k <= Len(Read))
          /\ k - Len(vSWF) = (Submitted + k) - Len(Read)
      <4>1. /\ Len(vSWF) \in Nat /\ Len(more) \in Nat /\ Len(Read) \in Nat
            /\ Submitted \in Nat /\ Len(vSWF) = Len(Read) - Submitted
        BY <1>8
      <4>2. k \in 1..(Len(vSWF) + Len(more))
        BY <1>7
      <4> QED  BY ONLY <4>1, <4>2
    <3>2. CASE k <= Len(vSWF)
      <4>1. k \in 1..Len(vSWF)
        BY <1>8, <3>1, <3>2
      <4> QED  BY <1>7, <1>8, <3>1, <3>2, <4>1
    <3>3. CASE ~ (k <= Len(vSWF))
      BY <1>7, <3>1, <3>3
    <3> QED  BY <3>2, <3>3
  <2> QED  BY <1>9, <2>1, <2>2 DEF InMemory
<1>12. SubmittedLines' = SubmittedLines
  <2>1. \A i \in 1..Submitted : Read'[i] = Read[i]
    BY <1>7, <1>8
  <2>2. SubmittedLines' = {Read'[i] : i \in 1..Submitted}
    BY <1>9 DEF SubmittedLines
  <2> QED  BY <2>1, <2>2 DEF SubmittedLines
<1>13. InOnePlace' /\ FinishedLines' = FinishedLines /\ Launched' = Launched
  BY <1>1, <1>12, PlacesKept DEF LoopInv
<1>14. InTime'
  BY <1>1, <1>2, <1>12 DEF LoopInv, InTime, Delay
<1>15. VMsInPlace' /\ VMs' = VMs
  BY <1>1, <1>2, VMsKept DEF LoopInv
<1>16. Ages'
  BY <1>1, <1>2, <1>15 DEF LoopInv, Ages, Started, Ahead
<1>17. LatencyTable' /\ ArrivalTable'
  BY <1>1, <1>2, <1>13, LatencyKept, ArrivalKept DEF LoopInv
<1>18. EndsFinished'
  BY <1>1 DEF EndsFinished
<1> QED  BY <1>10, <1>11, <1>13, <1>14, <1>15, <1>16, <1>17, <1>18 DEF LoopInv

LEMMA LoopStutter == LoopInv /\ UNCHANGED vars => LoopInv'
<1> SUFFICES ASSUME LoopInv, UNCHANGED vars PROVE LoopInv'
  OBVIOUS
<1>1. /\ UNCHANGED <<file, vSWF, clock, pc, queue, tables, qWaitingVMs, running>>
      /\ UNCHANGED <<trace, position, isReadingFinished, mapSingleJob, mapRunningSingleJob,
                     finishedVMs, vFinishedJobID, latency, arrival>>
  BY DEF vars, file, queue, tables
<1>2. TypeOK' /\ trace' \in Traces
  BY <1>1 DEF LoopInv, TypeOK
<1>3. SubmittedLines' = SubmittedLines /\ InMemory'
  BY <1>1, LinesKept DEF LoopInv
<1>4. InOnePlace' /\ FinishedLines' = FinishedLines /\ Launched' = Launched
  BY <1>1, <1>3, PlacesKept DEF LoopInv
<1>5. InTime'
  BY <1>1, <1>3 DEF LoopInv, InTime, Delay
<1>6. VMsInPlace' /\ VMs' = VMs
  BY <1>1, VMsKept DEF LoopInv
<1>7. Ages'
  BY <1>1, <1>6 DEF LoopInv, Ages, Started, Ahead
<1>8. LatencyTable' /\ ArrivalTable'
  BY <1>1, <1>4, LatencyKept, ArrivalKept DEF LoopInv
<1>9. EndsFinished'
  BY <1>1 DEF LoopInv, EndsFinished, IsFinished, JobQueueIsFinished, DataCenterIsFinished, UsersIsFinished
<1> QED  BY <1>2, <1>3, <1>4, <1>5, <1>6, <1>7, <1>8, <1>9 DEF LoopInv

LEMMA LoopStart == Init => LoopInv
<1> SUFFICES ASSUME Init PROVE LoopInv
  OBVIOUS
<1> DEFINE batch == ReadMoreLines(trace, 0)
<1>1. /\ trace \in Traces
      /\ vSWF = batch.lines /\ position = batch.position /\ isReadingFinished = batch.atEnd
      /\ clock = 0 /\ pc = "loop" /\ mapSingleJob = {} /\ mapRunningSingleJob = {}
      /\ finishedVMs = <<>> /\ vFinishedJobID = {}
      /\ latency = [samples |-> 0, sum |-> 0, interval |-> [i \in Intervals |-> NoSample]]
      /\ arrival = [clockPrevius |-> 0, avgArrivalTime |-> 0, gaps |-> <<>>,
                    avgRunTime |-> 0, runTimes |-> <<>>, Small |-> 0, Medium |-> 0, Big |-> 0]
      /\ qWaitingVMs = <<>> /\ running = <<>>
  BY DEF Init
<1>2. trace \in Seq(Lines) /\ OneEach(trace)
  BY <1>1, TraceAssumption DEF OneEach
<1>3. /\ batch.position \in 0..Len(trace) /\ batch.atEnd \in BOOLEAN /\ batch.lines \in Seq(Lines)
      /\ Parsed(SubSeq(trace, 1, batch.position)) = Parsed(SubSeq(trace, 1, 0)) \o batch.lines
  <2>1. 0 \in 0..Len(trace)
    BY <1>2
  <2> QED  BY <1>2, <2>1, NextBatch
<1> HIDE DEF batch
<1>4. Read = batch.lines
  <2>1. SubSeq(trace, 1, 0) = <<>>
    BY <1>2
  <2>2. Parsed(<<>>) = <<>>
    <3>1. <<>> \in Seq(Lines)
      OBVIOUS
    <3> QED  BY <3>1, ParsedByLine
  <2>3. <<>> \o batch.lines = batch.lines
    BY <1>3, ConcatEmptySeq
  <2> QED  BY <1>1, <1>3, <2>1, <2>2, <2>3 DEF Read
<1>5. TypeOK
  <2>1. <<>> \in Seq(VMRecord) /\ DOMAIN <<>> = {}
    OBVIOUS
  <2> QED  BY <1>1, <1>2, <1>3, <2>1 DEF TypeOK
<1>6. Submitted = 0 /\ InMemory
  <2>1. Len(vSWF) \in Nat /\ vSWF = Read
    BY <1>1, <1>3, <1>4
  <2>2. Submitted = 0
    BY <2>1 DEF Submitted
  <2> QED  BY <2>1, <2>2 DEF InMemory
<1>7. SubmittedLines = {} /\ FinishedLines = {} /\ Launched = {}
  <2>1. SubmittedLines = {}
    BY <1>6 DEF SubmittedLines
  <2> QED  BY <1>1, <2>1 DEF FinishedLines, Launched
<1>8. InOnePlace
  <2>1. DOMAIN <<>> = {}
    OBVIOUS
  <2> QED  BY <1>1, <1>7, <2>1 DEF InOnePlace, JobNumbers
<1>9. InTime
  BY <1>7 DEF InTime
<1>10. VMs = <<>> /\ VMsInPlace /\ Ages
  <2>1. VMs = <<>> /\ DOMAIN VMs = {}
    BY <1>1 DEF VMs
  <2> QED  BY <1>1, <2>1 DEF VMsInPlace, Ages
<1>11. LatencyTable
  <2>1. LatencyTypes
    BY <1>1 DEF LatencyTypes, NoSample
  <2>2. latency.samples = Cardinality(FinishedLines)
    BY <1>1, <1>7, FS_EmptySet
  <2>3. ASSUME NEW i \in Intervals
        PROVE  /\ latency.interval[i].samples = Cardinality(FinishedIn(i))
               /\ latency.interval[i].sum >= SumFunctionOnSet(LeastOf, FinishedIn(i))
               /\ latency.interval[i].percent >= 100 * latency.interval[i].samples
    <3>1. FinishedIn(i) = {}
      BY <1>7 DEF FinishedIn
    <3>2. Cardinality(FinishedIn(i)) = 0 /\ SumFunctionOnSet(LeastOf, FinishedIn(i)) = 0
      BY <3>1, FS_EmptySet, SumOfNone
    <3>3. latency.interval[i] = [samples |-> 0, sum |-> 0, percent |-> 0]
      BY <1>1 DEF NoSample
    <3> QED  BY <3>2, <3>3
  <2>4. ASSUME Columns \subseteq Intervals
        PROVE  SumFunctionOnSet(SamplesOf, Columns) = latency.samples
    <3>1. \A i \in Columns : SamplesOf[i] = 0
      BY <1>1, <2>4 DEF SamplesOf, NoSample
    <3>2. clock \div PERIODIC_LOG_INTERVAL \in Nat
      BY <1>1, LoopAssumption, QuotientRounds
    <3>3. IsFiniteSet(Columns)
      BY <3>2, FS_Interval DEF Columns
    <3>4. SumFunctionOnSet(SamplesOf, Columns) = 0 * Cardinality(Columns) /\ Cardinality(Columns) \in Nat
      BY <3>1, <3>3, SumOfSame, FS_CardinalityType
    <3> QED  BY <1>1, <3>4
  <2> QED  BY <2>1, <2>2, <2>3, <2>4 DEF LatencyTable
<1>12. ArrivalTable
  <2>1. /\ SumFunctionOnSet(CPUsOf, Launched) = 0 /\ SumFunctionOnSet(WorkOf, Launched) = 0
        /\ SumFunction(<<>>) = 0
    BY <1>7, SumOfNone, SumOfEmpty
  <2>2. ArrivalTypes
    <3>1. <<>> \in Seq(Nat)
      OBVIOUS
    <3> QED  BY <1>1, <3>1 DEF ArrivalTypes
  <2>3. Len(arrival.runTimes) = 0
    BY <1>1
  <2> QED  BY <1>1, <2>1, <2>2, <2>3 DEF ArrivalTable
<1>13. EndsFinished
  BY <1>1 DEF EndsFinished
<1> QED  BY <1>1, <1>5, <1>6, <1>8, <1>9, <1>10, <1>11, <1>12, <1>13 DEF LoopInv

LEMMA LoopInvariant == Spec => []LoopInv
<1>1. ASSUME LoopInv, [Next]_vars PROVE LoopInv'
  BY <1>1, LoopStep, InsertStep, UsersDoneStep, ArrivalStep, TakeFirstStep, AssignVMsStep,
     AssignVMsForeverStep, RunVMsStep, OneVMFinishedStep, SecondDoneStep, ReadTraceStep,
     LoopStutter DEF Next
<1> QED  BY <1>1, LoopStart, PTL DEF Spec

-----------------------------------------------------------------------------
(* Averages and variances.                                                  *)
LEMMA SquareOfDifference ==
  ASSUME NEW n \in Int, NEW v \in Int, NEW t \in Int
  PROVE  (n * v - t) * (n * v - t) = (n * n) * (v * v) + (-2 * (n * t)) * v + t * t
<1>1. (n * v - t) * (n * v - t) = (n * v) * (n * v) - 2 * ((n * v) * t) + t * t
  <2> DEFINE a == n * v
  <2>1. a \in Int
    OBVIOUS
  <2> HIDE DEF a
  <2>2. (a - t) * (a - t) = a * a - 2 * (a * t) + t * t
    BY <2>1, Z3
  <2> QED  BY <2>2 DEF a
<1>2. (n * v) * (n * v) = (n * n) * (v * v)
  BY Z3
<1>3. - 2 * ((n * v) * t) = (-2 * (n * t)) * v
  BY Z3
<1> QED  BY <1>1, <1>2, <1>3, Z3

LEMMA SumOfSquares ==
  ASSUME NEW n \in Int, NEW q \in Int, NEW t \in Int
  PROVE  (n * n) * q + (-2 * (n * t)) * t + (t * t) * n = n * n * q - n * t * t
BY Z3

LEMMA SequenceOf ==
  ASSUME NEW n \in Nat, NEW f, \A i \in 1..n : f[i] \in Int
  PROVE  /\ [i \in 1..n |-> f[i]] \in Seq(Int)
         /\ SumFunction([i \in 1..n |-> f[i]]) = SumFunctionOnSet(f, 1..n)
<1> DEFINE s == [i \in 1..n |-> f[i]]
<1>1. s \in Seq(Int) /\ Len(s) = n /\ \A i \in 1..n : s[i] = f[i]
  OBVIOUS
<1> HIDE DEF s
<1>2. /\ SumFunction(s) = SumFunctionOnSet(s, 1..n) /\ IsFiniteSet(1..n)
  BY <1>1, SumOfSequence
<1>3. SumFunctionOnSet(s, 1..n) = SumFunctionOnSet(f, 1..n)
  BY <1>1, <1>2, SumsAgree
<1> QED  BY <1>1, <1>2, <1>3 DEF s

LEMMA StatisticsDescribe ==
  ASSUME NEW s \in Seq(Int), NEW t, t = SumFunction(s)
  PROVE  Describes(Average(t, s), Variance(t, s), s)
<1> SUFFICES ASSUME s # <<>> PROVE Describes(Average(t, s), Variance(t, s), s)
  BY DEF Describes
<1> DEFINE n == Len(s)
           I == 1..n
<1>1. /\ n \in Nat /\ n >= 1 /\ n \in Int /\ \A i \in I : s[i] \in Int
      /\ t = SumFunctionOnSet(s, I) /\ t \in Int /\ IsFiniteSet(I) /\ Cardinality(I) = n
  BY SumOfSequence
<1> DEFINE squares == [i \in I |-> s[i] * s[i]]
           deviations == [i \in I |-> (n * s[i] - t) * (n * s[i] - t)]
<1>2. /\ Average(t, s) = <<t, n>>
      /\ Variance(t, s) = <<SumFunction(deviations), n * n * (n - 1)>>
  <2>1. n # 0
    BY <1>1
  <2> QED  BY <2>1 DEF Average, Variance
<1>3. /\ SumFunction(squares) = SumFunctionOnSet(squares, I) /\ SumFunction(squares) \in Int
      /\ SumFunction(deviations) = SumFunctionOnSet(deviations, I)
  <2>1. \A i \in I : s[i] * s[i] \in Int /\ (n * s[i] - t) * (n * s[i] - t) \in Int
    <3> SUFFICES ASSUME NEW i \in I
                 PROVE  s[i] * s[i] \in Int /\ (n * s[i] - t) * (n * s[i] - t) \in Int
      OBVIOUS
    <3>1. s[i] \in Int /\ n * s[i] \in Int
      BY <1>1
    <3> QED  BY <1>1, <3>1
  <2>2. squares \in Seq(Int) /\ Len(squares) = n /\ deviations \in Seq(Int) /\ Len(deviations) = n
    BY <1>1, <2>1
  <2> HIDE DEF squares, deviations
  <2> QED  BY <2>2, SumOfSequence
<1> DEFINE q == SumFunction(squares)
           a == [i \in I |-> (n * n) * squares[i]]
           b == [i \in I |-> (-2 * (n * t)) * s[i]]
           ab == [i \in I |-> a[i] + b[i]]
           c == [i \in I |-> t * t]
<1>4. \A i \in I : /\ squares[i] \in Int /\ a[i] \in Int /\ b[i] \in Int /\ ab[i] \in Int /\ c[i] \in Int
                   /\ squares[i] = s[i] * s[i]
                   /\ a[i] = (n * n) * squares[i] /\ b[i] = (-2 * (n * t)) * s[i]
                   /\ ab[i] = a[i] + b[i] /\ c[i] = t * t
                   /\ deviations[i] = ab[i] + c[i]
  <2> SUFFICES ASSUME NEW i \in I
               PROVE  /\ squares[i] \in Int /\ a[i] \in Int /\ b[i] \in Int /\ ab[i] \in Int /\ c[i] \in Int
                   /\ squares[i] = s[i] * s[i]
                   /\ a[i] = (n * n) * squares[i] /\ b[i] = (-2 * (n * t)) * s[i]
                   /\ ab[i] = a[i] + b[i] /\ c[i] = t * t
                   /\ deviations[i] = ab[i] + c[i]
    OBVIOUS
  <2>1. /\ squares[i] = s[i] * s[i]
        /\ a[i] = (n * n) * squares[i] /\ b[i] = (-2 * (n * t)) * s[i]
        /\ ab[i] = a[i] + b[i] /\ c[i] = t * t
        /\ deviations[i] = (n * s[i] - t) * (n * s[i] - t)
    OBVIOUS
  <2>2. s[i] \in Int
    BY <1>1
  <2> HIDE DEF a, b, ab, c, squares, deviations, n
  <2>3. n * n \in Int /\ n * t \in Int /\ t * t \in Int /\ s[i] * s[i] \in Int
    BY <1>1, <2>2
  <2>4. squares[i] \in Int
    BY <2>1, <2>3
  <2>5. (n * n) * squares[i] \in Int /\ (-2 * (n * t)) * s[i] \in Int
    <3> DEFINE u == n * n
               w == -2 * (n * t)
    <3>1. u \in Int /\ w \in Int
      BY <2>3
    <3> HIDE DEF u, w
    <3>2. u * squares[i] \in Int /\ w * s[i] \in Int
      BY <2>2, <2>4, <3>1
    <3> QED  BY <3>2 DEF u, w
  <2>6. a[i] \in Int /\ b[i] \in Int /\ ab[i] \in Int /\ c[i] \in Int
    BY <2>1, <2>3, <2>5
  <2>7. deviations[i] = ab[i] + c[i]
    <3> DEFINE v == s[i]
    <3>1. v \in Int /\ n \in Int /\ t \in Int
      BY <1>1, <2>2
    <3> HIDE DEF v
    <3>2. (n * v - t) * (n * v - t) = (n * n) * (v * v) + (-2 * (n * t)) * v + t * t
      BY <3>1, SquareOfDifference, Zenon
    <3> QED  BY <2>1, <3>2 DEF v
  <2> QED  BY <2>1, <2>4, <2>6, <2>7
<1>5. n * n \in Int /\ -2 * (n * t) \in Int /\ t * t \in Int
  BY <1>1
<1> HIDE DEF a, b, ab, c, squares, deviations, n, I
<1>6. SumFunctionOnSet(a, I) = (n * n) * q
  <2> DEFINE k == n * n
  <2>1. k \in Int /\ \A i \in I : squares[i] \in Int /\ a[i] = k * squares[i]
    BY <1>4, <1>5
  <2> HIDE DEF k
  <2>2. SumFunctionOnSet(a, I) = k * SumFunctionOnSet(squares, I)
    BY <1>1, <2>1, SumOfMultiples
  <2> QED  BY <1>3, <2>2 DEF k
<1>7. SumFunctionOnSet(b, I) = (-2 * (n * t)) * t
  <2> DEFINE k == -2 * (n * t)
  <2>1. k \in Int /\ \A i \in I : s[i] \in Int /\ b[i] = k * s[i]
    BY <1>1, <1>4, <1>5
  <2> HIDE DEF k
  <2>2. SumFunctionOnSet(b, I) = k * SumFunctionOnSet(s, I)
    BY <1>1, <2>1, SumOfMultiples
  <2> QED  BY <1>1, <2>2 DEF k
<1>8. SumFunctionOnSet(c, I) = (t * t) * n
  BY <1>1, <1>4, <1>5, SumOfSame
<1>9. SumFunctionOnSet(ab, I) = SumFunctionOnSet(a, I) + SumFunctionOnSet(b, I)
  BY <1>1, <1>4, SumOfSums, ZenonT(60)
<1>10. SumFunctionOnSet(deviations, I) = SumFunctionOnSet(ab, I) + SumFunctionOnSet(c, I)
  BY <1>1, <1>4, SumOfSums, ZenonT(60)
<1>11. SumFunction(deviations) = n * n * q - n * t * t
  <2>1. SumFunction(deviations) = (n * n) * q + (-2 * (n * t)) * t + (t * t) * n
    BY <1>3, <1>6, <1>7, <1>8, <1>9, <1>10
  <2> HIDE DEF q
  <2>2. q \in Int
    BY <1>3 DEF q
  <2> QED  BY <1>1, <2>1, <2>2, SumOfSquares, ZenonT(60)
<1> DEFINE m == [i \in I |-> n * s[i]]
<1>12. /\ \A i \in I : m[i] \in Int /\ m[i] = n * s[i]
       /\ SumFunctionOnSet(m, I) = n * t
  <2>1. \A i \in I : m[i] = n * s[i] /\ m[i] \in Int
    BY <1>1
  <2> HIDE DEF m
  <2> QED  BY <1>1, <2>1, SumOfMultiples
<1>13. \E i \in I : n * s[i] <= t
  <2> SUFFICES ASSUME \A i \in I : ~ (n * s[i] <= t) PROVE FALSE
    OBVIOUS
  <2> DEFINE g == [i \in I |-> t + 1]
  <2>1. \A i \in I : g[i] \in Int /\ g[i] = t + 1 /\ g[i] <= m[i] /\ m[i] \in Int
    BY <1>1, <1>12
  <2> HIDE DEF g, m
  <2>2. SumFunctionOnSet(g, I) <= SumFunctionOnSet(m, I)
    BY <1>1, <2>1, SumAtMost
  <2>3. SumFunctionOnSet(g, I) = (t + 1) * n
    <3> DEFINE k == t + 1
    <3>1. k \in Int /\ \A i \in I : g[i] = k
      BY <1>1, <2>1
    <3> HIDE DEF k
    <3>2. SumFunctionOnSet(g, I) = k * Cardinality(I)
      BY <1>1, <3>1, SumOfSame
    <3> QED  BY <1>1, <3>2 DEF k
  <2>4. (t + 1) * n = n * t + n
    BY <1>1, Z3
  <2>5. n * t \in Int
    BY <1>1
  <2> QED  BY <1>1, <1>12, <2>2, <2>3, <2>4, <2>5
<1>14. \E k \in I : t <= n * s[k]
  <2> SUFFICES ASSUME \A i \in I : ~ (t <= n * s[i]) PROVE FALSE
    OBVIOUS
  <2> DEFINE g == [i \in I |-> t - 1]
  <2>1. \A i \in I : g[i] \in Int /\ g[i] = t - 1 /\ m[i] <= g[i] /\ m[i] \in Int
    BY <1>1, <1>12
  <2> HIDE DEF g, m
  <2>2. SumFunctionOnSet(m, I) <= SumFunctionOnSet(g, I)
    BY <1>1, <2>1, SumAtMost
  <2>3. SumFunctionOnSet(g, I) = (t - 1) * n
    <3> DEFINE k == t - 1
    <3>1. k \in Int /\ \A i \in I : g[i] = k
      BY <1>1, <2>1
    <3> HIDE DEF k
    <3>2. SumFunctionOnSet(g, I) = k * Cardinality(I)
      BY <1>1, <3>1, SumOfSame
    <3> QED  BY <1>1, <3>2 DEF k
  <2>4. (t - 1) * n = n * t - n
    BY <1>1, Z3
  <2>5. n * t \in Int
    BY <1>1
  <2> QED  BY <1>1, <1>12, <2>2, <2>3, <2>4, <2>5
<1> QED  BY <1>2, <1>11, <1>13, <1>14 DEF Describes, n, I, squares

-----------------------------------------------------------------------------
(* The properties.                                                          *)

LEMMA LinesInPlaces ==
  ASSUME LoopInv
  PROVE  /\ Read \in Seq(Lines) /\ DOMAIN Read = 1..Len(Read) /\ Len(Read) \in Nat /\ OneEach(Read)
         /\ ToSet(Read) = SubmittedLines \cup ToSet(vSWF)
         /\ \A line \in SubmittedLines : \A other \in ToSet(vSWF) : line.job # other.job
         /\ \A a, b \in ToSet(Read) : a.job = b.job => a = b
<1>1. /\ vSWF \in Seq(Lines) /\ trace \in Traces /\ position \in 0..Len(trace) /\ InMemory
  BY DEF LoopInv, TypeOK
<1>2. /\ Read \in Seq(Lines) /\ OneEach(Read) /\ DOMAIN Read = 1..Len(Read) /\ Len(Read) \in Nat
      /\ Submitted \in 0..Len(Read)
  BY <1>1, ReadLines, LinesSubmitted
<1>3. Len(vSWF) \in Nat /\ Len(vSWF) = Len(Read) - Submitted /\ DOMAIN vSWF = 1..Len(vSWF)
  BY <1>1, <1>2 DEF Submitted
<1>4. \A k \in 1..Len(vSWF) : vSWF[k] = Read[Submitted + k] /\ Submitted + k \in (Submitted + 1)..Len(Read)
  BY <1>1, <1>2, <1>3 DEF InMemory
<1>5. \A i \in (Submitted + 1)..Len(Read) :
        i - Submitted \in 1..Len(vSWF) /\ Read[i] = vSWF[i - Submitted]
  <2> SUFFICES ASSUME NEW i \in (Submitted + 1)..Len(Read)
               PROVE  i - Submitted \in 1..Len(vSWF) /\ Read[i] = vSWF[i - Submitted]
    OBVIOUS
  <2>1. i - Submitted \in 1..Len(vSWF) /\ Submitted + (i - Submitted) = i
    BY <1>2, <1>3
  <2> QED  BY <1>4, <2>1
<1>6. ToSet(vSWF) = {Read[i] : i \in (Submitted + 1)..Len(Read)}
  <2>1. ToSet(vSWF) \subseteq {Read[i] : i \in (Submitted + 1)..Len(Read)}
    BY <1>3, <1>4 DEF ToSet
  <2>2. {Read[i] : i \in (Submitted + 1)..Len(Read)} \subseteq ToSet(vSWF)
    BY <1>3, <1>5 DEF ToSet
  <2> QED  BY <2>1, <2>2
<1>7. DOMAIN Read = (1..Submitted) \cup (Submitted + 1)..Len(Read)
      /\ \A i \in 1..Submitted, k \in (Submitted + 1)..Len(Read) : i # k
  BY <1>2
<1>8. ToSet(Read) = SubmittedLines \cup ToSet(vSWF)
  BY <1>6, <1>7 DEF ToSet, SubmittedLines
<1>9. \A line \in SubmittedLines : \A other \in ToSet(vSWF) : line.job # other.job
  BY <1>2, <1>6, <1>7 DEF SubmittedLines, OneEach
<1>10. \A a, b \in ToSet(Read) : a.job = b.job => a = b
  BY <1>2 DEF ToSet, OneEach
<1> QED  BY <1>2, <1>8, <1>9, <1>10

LEMMA TablesMatch ==
  ASSUME LoopInv
  PROVE  TablesMatchJobs
<1> DEFINE finished == {line \in ToSet(Read) : line.job \in vFinishedJobID}
           launched == finished \cup mapRunningSingleJob
           in(i) == {line \in finished : line.submit \div PERIODIC_LOG_INTERVAL = i}
           vms == [line \in launched |-> line.numCPUs]
           work == [line \in launched |-> line.numCPUs * line.runTimeSec]
           least == [line \in finished |-> line.runTimeSec + 1]
           samples == [i \in Intervals |-> JobsOfColumn(i)]
           sizes == <<arrival.Small, arrival.Medium, arrival.Big>>
<1>1. finished = FinishedLines
  <2>1. \A line \in ToSet(vSWF) : line.job \notin vFinishedJobID
    BY LinesInPlaces DEF LoopInv, InOnePlace, JobNumbers, FinishedLines
  <2> QED  BY <2>1, LinesInPlaces DEF FinishedLines
<1>2. launched = Launched /\ \A i : in(i) = FinishedIn(i)
  BY <1>1 DEF Launched, FinishedIn, Index
<1>3. /\ FinishedLines \subseteq Lines /\ Launched \subseteq Lines
      /\ IsFiniteSet(FinishedLines) /\ IsFiniteSet(Launched)
  BY FinishedAreLines
<1>4. samples = SamplesOf
  BY DEF JobsOfColumn, SamplesOf
<1>5. SumFunction(vms) = SumFunctionOnSet(CPUsOf, Launched)
  <2>1. \A line \in Launched : vms[line] \in Int /\ vms[line] = CPUsOf[line]
    BY <1>2, <1>3 DEF CPUsOf, Lines
  <2>2. SumFunction(vms) = SumFunctionOnSet(vms, Launched)
    BY <1>2 DEF SumFunction
  <2> HIDE DEF vms
  <2> QED  BY <1>3, <2>1, <2>2, SumsAgree
<1>6. SumFunction(work) = SumFunctionOnSet(WorkOf, Launched)
  <2>1. \A line \in Launched : work[line] \in Int /\ work[line] = WorkOf[line]
    <3>1. \A line \in Lines : line.numCPUs * line.runTimeSec \in Int
      BY DEF Lines
    <3> QED  BY <1>2, <1>3, <3>1 DEF WorkOf
  <2>2. SumFunction(work) = SumFunctionOnSet(work, Launched)
    BY <1>2 DEF SumFunction
  <2> HIDE DEF work
  <2> QED  BY <1>3, <2>1, <2>2, SumsAgree
<1>7. ASSUME NEW i \in Intervals
      PROVE  /\ JobsOfColumn(i) = Cardinality(in(i))
             /\ LatencyOfColumn(i) >= SumFunctionOnSet(least, in(i))
             /\ PercentOfColumn(i) >= 100 * JobsOfColumn(i)
  <2>1. FinishedIn(i) \subseteq FinishedLines /\ IsFiniteSet(FinishedIn(i))
    BY <1>3, FS_Subset DEF FinishedIn
  <2>2. \A line \in FinishedIn(i) : least[line] \in Int /\ least[line] = LeastOf[line]
    BY <1>1, <1>3, <2>1 DEF LeastOf, Lines
  <2> HIDE DEF least
  <2>3. SumFunctionOnSet(least, FinishedIn(i)) = SumFunctionOnSet(LeastOf, FinishedIn(i))
    BY <2>1, <2>2, SumsAgree
  <2>4. /\ latency.interval[i].samples = Cardinality(FinishedIn(i))
        /\ latency.interval[i].sum >= SumFunctionOnSet(LeastOf, FinishedIn(i))
        /\ latency.interval[i].percent >= 100 * latency.interval[i].samples
    BY DEF LoopInv, LatencyTable
  <2>5. in(i) = FinishedIn(i)
    BY <1>2
  <2> HIDE DEF in
  <2> QED  BY <2>3, <2>4, <2>5 DEF JobsOfColumn, LatencyOfColumn, PercentOfColumn
<1>8. latency.samples = Cardinality(finished)
      /\ (Columns \subseteq Intervals => SumFunctionOnSet(samples, Columns) = latency.samples)
  BY <1>1, <1>4 DEF LoopInv, LatencyTable
<1>9. /\ Len(arrival.runTimes) = SumFunction(vms)
      /\ sizes[1] + sizes[2] + sizes[3] = Len(arrival.runTimes)
      /\ arrival.avgRunTime = SumFunction(work)
      /\ arrival.avgArrivalTime = arrival.clockPrevius
      /\ arrival.clockPrevius = SumFunction(arrival.gaps)
  BY <1>5, <1>6 DEF LoopInv, ArrivalTable
<1>10. /\ Describes(AverageArrivalTime, VarianceArrivalTime, arrival.gaps)
       /\ Describes(AverageRunTime, VarianceRunTime, arrival.runTimes)
  <2>1. /\ arrival.gaps \in Seq(Int) /\ arrival.runTimes \in Seq(Int)
        /\ arrival.avgArrivalTime = SumFunction(arrival.gaps)
        /\ arrival.avgRunTime = SumFunction(arrival.runTimes)
    BY NumbersAreInts DEF LoopInv, ArrivalTable, ArrivalTypes
  <2> QED  BY <2>1, StatisticsDescribe
           DEF AverageArrivalTime, VarianceArrivalTime, AverageRunTime, VarianceRunTime
<1> HIDE DEF finished, vms, work, least, samples, sizes, in
<1> QED  BY <1>7, <1>8, <1>9, <1>10
         DEF TablesMatchJobs, finished, vms, work, least, samples, sizes, in

LEMMA LoopInvGivesNoJobLost == LoopInv => NoJobLost
<1> SUFFICES ASSUME LoopInv PROVE NoJobLost
  OBVIOUS
<1> DEFINE A == JobNumbers(ToSet(vSWF))
           B == JobNumbers(mapSingleJob)
           C == JobNumbers(mapRunningSingleJob)
           D == vFinishedJobID
           places == <<A, B, C, D>>
<1>1. JobNumbers(ToSet(Read)) = JobNumbers(SubmittedLines) \cup A
  BY LinesInPlaces DEF JobNumbers
<1>2. JobNumbers(SubmittedLines) = B \cup C \cup D
  BY DEF LoopInv, InOnePlace, Launched, JobNumbers
<1>3. A \cap B = {} /\ A \cap C = {} /\ A \cap D = {}
  <2>1. A \cap JobNumbers(SubmittedLines) = {}
    BY LinesInPlaces DEF JobNumbers
  <2> QED  BY <1>2, <2>1
<1>4. B \cap D = {} /\ C \cap D = {}
  BY DEF LoopInv, InOnePlace, JobNumbers
<1>5. B \cap C = {}
  <2> SUFFICES ASSUME NEW b \in mapSingleJob, NEW c \in mapRunningSingleJob, b.job = c.job PROVE FALSE
    BY DEF JobNumbers
  <2>1. b = c
    BY FinishedAreLines
  <2> QED  BY <2>1 DEF LoopInv, InOnePlace
<1> HIDE DEF A, B, C, D
<1>6. places[1] = A /\ places[2] = B /\ places[3] = C /\ places[4] = D
  OBVIOUS
<1> HIDE DEF places
<1>7. UNION {places[i] : i \in 1..4} = A \cup B \cup C \cup D
  <2>1. 1..4 = {1, 2, 3, 4}
    OBVIOUS
  <2> QED  BY <1>6, <2>1
<1>8. \A i, k \in 1..4 : i # k => places[i] \cap places[k] = {}
  <2>1. 1..4 = {1, 2, 3, 4}
    OBVIOUS
  <2> QED  BY <1>3, <1>4, <1>5, <1>6, <2>1
<1>9. UNION {places[i] : i \in 1..4} = JobNumbers(ToSet(Read))
  BY <1>1, <1>2, <1>7
<1>10. TypeOK /\ TablesMatchJobs
  BY TablesMatch DEF LoopInv
<1> QED  BY <1>8, <1>9, <1>10 DEF NoJobLost, places, A, B, C, D

LEMMA LoopInvGivesSubmittedInTime == LoopInv => SubmittedInTime
<1> SUFFICES ASSUME LoopInv, NEW i \in DOMAIN Read,
                    Read[i].job \in JobNumbers(mapSingleJob \cup mapRunningSingleJob) \cup vFinishedJobID
             PROVE  /\ Read[i].submit <= clock
                    /\ Read[i].dependency \in vFinishedJobID \cup {0}
  BY DEF SubmittedInTime
<1>1. PICK line \in SubmittedLines : line.job = Read[i].job
  BY FinishedAreLines DEF LoopInv, InOnePlace, JobNumbers
<1>2. line = Read[i]
  <2>1. line \in ToSet(Read) /\ Read[i] \in ToSet(Read)
    BY LinesInPlaces DEF ToSet
  <2> QED  BY <1>1, <2>1, LinesInPlaces
<1>3. line.submit + Delay <= clock /\ line.dependency \in vFinishedJobID \cup {0}
  BY DEF LoopInv, InTime
<1>4. line.submit \in Nat /\ clock \in Nat /\ Delay \in {0, 1}
  BY FinishedAreLines DEF Lines, Delay
<1> QED  BY <1>2, <1>3, <1>4

LEMMA LoopInvGivesOnlyThese == LoopInv => OnlyTheseGivenUp
<1> DEFINE waiting == {v.job : v \in ToSet(qWaitingVMs)}
           unreported == {v.job : v \in {u \in ToSet(running) : u.state = "finished"}}
<1> SUFFICES ASSUME LoopInv, pc = "ended"
             PROVE  JobNumbers(ToSet(Parsed(trace))) \ vFinishedJobID =
                      JobNumbers(ToSet(Unread)) \cup waiting \cup unreported
  BY DEF OnlyTheseGivenUp
<1>1. /\ mapSingleJob = {} /\ vSWF = <<>>
      /\ \A i \in DOMAIN running : running[i].state = "finished"
  BY DEF LoopInv, EndsFinished, IsFinished, JobQueueIsFinished, DataCenterIsFinished, UsersIsFinished
<1>2. /\ Parsed(trace) = Read \o Unread /\ Read \in Seq(Lines) /\ Unread \in Seq(Lines)
      /\ \A i \in DOMAIN Read, k \in DOMAIN Unread : Read[i].job # Unread[k].job
  BY ReadLines DEF LoopInv, TypeOK
<1>3. ToSet(Read \o Unread) = ToSet(Read) \cup ToSet(Unread)
  <2>1. /\ Len(Read) \in Nat /\ Len(Unread) \in Nat
        /\ DOMAIN Read = 1..Len(Read) /\ DOMAIN Unread = 1..Len(Unread)
        /\ DOMAIN (Read \o Unread) = 1..(Len(Read) + Len(Unread))
        /\ \A i \in 1..Len(Read) : (Read \o Unread)[i] = Read[i]
        /\ \A i \in 1..Len(Unread) : (Read \o Unread)[Len(Read) + i] = Unread[i]
    BY <1>2
  <2>2. ToSet(Read) \cup ToSet(Unread) \subseteq ToSet(Read \o Unread)
    <3>1. \A i \in 1..Len(Read) : i \in 1..(Len(Read) + Len(Unread))
      BY <2>1
    <3>2. \A i \in 1..Len(Unread) : Len(Read) + i \in 1..(Len(Read) + Len(Unread))
      BY <2>1
    <3> QED  BY <2>1, <3>1, <3>2 DEF ToSet
  <2>3. ToSet(Read \o Unread) \subseteq ToSet(Read) \cup ToSet(Unread)
    <3> SUFFICES ASSUME NEW i \in 1..(Len(Read) + Len(Unread))
                 PROVE  (Read \o Unread)[i] \in ToSet(Read) \cup ToSet(Unread)
      BY <2>1 DEF ToSet
    <3>1. CASE i \in 1..Len(Read)
      BY <2>1, <3>1 DEF ToSet
    <3>2. CASE i \notin 1..Len(Read)
      <4>1. i - Len(Read) \in 1..Len(Unread) /\ Len(Read) + (i - Len(Read)) = i
        BY <2>1, <3>2
      <4> QED  BY <2>1, <4>1 DEF ToSet
    <3> QED  BY <3>1, <3>2
  <2> QED  BY <2>2, <2>3
<1>4. ToSet(Read) = SubmittedLines
  <2>1. ToSet(vSWF) = {}
    BY <1>1 DEF ToSet
  <2> QED  BY <2>1, LinesInPlaces
<1>5. JobNumbers(SubmittedLines) = vFinishedJobID \cup JobNumbers(mapRunningSingleJob)
      /\ JobNumbers(mapRunningSingleJob) \cap vFinishedJobID = {}
  BY <1>1 DEF LoopInv, InOnePlace, Launched, JobNumbers
<1>6. JobNumbers(ToSet(Unread)) \cap JobNumbers(SubmittedLines) = {}
  <2>1. \A a \in ToSet(Read), b \in ToSet(Unread) : a.job # b.job
    BY <1>2 DEF ToSet
  <2> QED  BY <1>4, <2>1 DEF JobNumbers
<1>7. ToSet(VMs) = ToSet(running) \cup ToSet(qWaitingVMs)
  <2>1. /\ qWaitingVMs \in Seq(VMRecord) /\ running \in Seq(VMRecord)
        /\ DOMAIN qWaitingVMs = 1..Len(qWaitingVMs) /\ DOMAIN running = 1..Len(running)
        /\ Len(qWaitingVMs) \in Nat /\ Len(running) \in Nat
    BY DEF LoopInv, TypeOK
  <2>2. /\ DOMAIN VMs = 1..(Len(running) + Len(qWaitingVMs))
        /\ \A k \in 1..(Len(running) + Len(qWaitingVMs)) :
             VMs[k] = IF k <= Len(running) THEN running[k] ELSE qWaitingVMs[k - Len(running)]
    BY <2>1, ConcatProperties DEF VMs
  <2>3. ToSet(running) \cup ToSet(qWaitingVMs) \subseteq ToSet(VMs)
    <3>1. \A k \in 1..Len(running) :
            k \in 1..(Len(running) + Len(qWaitingVMs)) /\ VMs[k] = running[k]
      BY <2>1, <2>2
    <3>2. \A k \in 1..Len(qWaitingVMs) :
            /\ Len(running) + k \in 1..(Len(running) + Len(qWaitingVMs))
            /\ VMs[Len(running) + k] = qWaitingVMs[k]
      <4> SUFFICES ASSUME NEW k \in 1..Len(qWaitingVMs)
                   PROVE  /\ Len(running) + k \in 1..(Len(running) + Len(qWaitingVMs))
                          /\ VMs[Len(running) + k] = qWaitingVMs[k]
        OBVIOUS
      <4>1. /\ Len(running) + k \in 1..(Len(running) + Len(qWaitingVMs))
            /\ ~ (Len(running) + k <= Len(running)) /\ (Len(running) + k) - Len(running) = k
        BY <2>1
      <4> QED  BY <2>2, <4>1
    <3>3. ASSUME NEW u \in ToSet(running) PROVE u \in ToSet(VMs)
      <4>1. PICK k \in 1..Len(running) : u = running[k]
        BY <2>1 DEF ToSet
      <4> QED  BY <2>2, <3>1, <4>1 DEF ToSet
    <3>4. ASSUME NEW u \in ToSet(qWaitingVMs) PROVE u \in ToSet(VMs)
      <4>1. PICK k \in 1..Len(qWaitingVMs) : u = qWaitingVMs[k]
        BY <2>1 DEF ToSet
      <4> QED  BY <2>2, <3>2, <4>1 DEF ToSet
    <3> QED  BY <3>3, <3>4
  <2>4. ToSet(VMs) \subseteq ToSet(running) \cup ToSet(qWaitingVMs)
    <3> SUFFICES ASSUME NEW k \in 1..(Len(running) + Len(qWaitingVMs))
                 PROVE  VMs[k] \in ToSet(running) \cup ToSet(qWaitingVMs)
      BY <2>2 DEF ToSet
    <3>1. CASE k <= Len(running)
      <4>1. k \in 1..Len(running)
        BY <2>1, <3>1
      <4> QED  BY <2>1, <2>2, <3>1, <4>1 DEF ToSet
    <3>2. CASE ~ (k <= Len(running))
      <4>1. k - Len(running) \in 1..Len(qWaitingVMs)
        BY <2>1, <3>2
      <4> QED  BY <2>1, <2>2, <3>2, <4>1 DEF ToSet
    <3> QED  BY <3>1, <3>2
  <2> QED  BY <2>3, <2>4
<1>8. waiting \cup unreported = JobNumbers(mapRunningSingleJob)
  <2>0. /\ \A u \in ToSet(running) : u.state = "finished"
        /\ waiting \cup unreported = {v.job : v \in ToSet(VMs)}
    <3>1. \A u \in ToSet(running) : u.state = "finished"
      BY <1>1 DEF ToSet
    <3> QED  BY <1>7, <3>1
  <2> HIDE DEF waiting, unreported
  <2>1. {v.job : v \in ToSet(VMs)} \subseteq JobNumbers(mapRunningSingleJob)
    BY DEF ToSet, LoopInv, VMsInPlace
  <2>2. ASSUME NEW line \in mapRunningSingleJob
        PROVE  \E v \in ToSet(VMs) : v.job = line.job
    <3>1. /\ finishedVMs[line.job] < line.numCPUs
          /\ finishedVMs[line.job] + Cardinality(VMsOfJob(line.job)) = line.numCPUs
      BY DEF LoopInv, VMsInPlace
    <3>2. line.numCPUs \in Nat /\ finishedVMs[line.job] \in Nat
      <4>1. line \in Lines /\ line.job \in DOMAIN finishedVMs
        BY FinishedAreLines DEF LoopInv, InOnePlace, Launched, JobNumbers
      <4> QED  BY <4>1 DEF LoopInv, TypeOK, Lines
    <3>3. VMsOfJob(line.job) # {}
      <4> SUFFICES ASSUME VMsOfJob(line.job) = {} PROVE FALSE
        OBVIOUS
      <4>1. Cardinality(VMsOfJob(line.job)) = 0
        BY FS_EmptySet
      <4> QED  BY <3>1, <3>2, <4>1
    <3> QED  BY <3>3 DEF VMsOfJob, ToSet
  <2>3. JobNumbers(mapRunningSingleJob) \subseteq {v.job : v \in ToSet(VMs)}
    BY <2>2 DEF JobNumbers
  <2> QED  BY <2>0, <2>1, <2>3
<1> HIDE DEF waiting, unreported
<1>9. JobNumbers(ToSet(Parsed(trace))) = JobNumbers(SubmittedLines) \cup JobNumbers(ToSet(Unread))
  BY <1>2, <1>3, <1>4 DEF JobNumbers
<1> QED  BY <1>5, <1>6, <1>8, <1>9

(* Every valid line that was read is in exactly one place, whatever the     *)
(* batches, and the tables of the results agree with it: main.cpp and the   *)
(* JobQueue lose no job and book none twice, for every trace, capacity and  *)
(* interval.                                                                *)
THEOREM EveryJobInOnePlace == Spec => []NoJobLost
BY LoopInvariant, LoopInvGivesNoJobLost, PTL

(* No job runs, waits or ends before its submit time or before the job it   *)
(* depends on has finished (Users::EveryASecond).                           *)
THEOREM NoJobTooEarly == Spec => []SubmittedInTime
BY LoopInvariant, LoopInvGivesSubmittedInTime, PTL

(* When main.cpp leaves its loop, the only jobs it has given up have a VM   *)
(* that never got a server, a VM that finished on a server turned off       *)
(* before it was asked for it, or a line that was never read.               *)
THEOREM NothingElseGivenUp == Spec => []OnlyTheseGivenUp
BY LoopInvariant, LoopInvGivesOnlyThese, PTL

-----------------------------------------------------------------------------
(* The loads that the policies move.                                        *)

(* What is added up under other names. *)
LEMMA SumOfRenamed ==
  ASSUME NEW S, IsFiniteSet(S), NEW h, NEW T, IsFiniteSet(T),
         \A x \in S : h[x] \in T,
         \A x, y \in S : h[x] = h[y] => x = y,
         NEW f, \A y \in T : f[y] \in Int,
         NEW g, \A x \in S : g[x] = f[h[x]]
  PROVE  SumFunctionOnSet(g, S) = SumFunctionOnSet(f, {h[x] : x \in S})
<1> DEFINE Image(s) == {h[x] : x \in s}
           A == {s \in SUBSET S : SumFunctionOnSet(g, s) = SumFunctionOnSet(f, Image(s))}
<1>1. {} \in A
  <2>1. Image({}) = {}
    OBVIOUS
  <2>2. SumFunctionOnSet(g, {}) = 0 /\ SumFunctionOnSet(f, {}) = 0
    BY SumOfNone
  <2> QED  BY <2>1, <2>2
<1>2. ASSUME NEW s \in SUBSET S, NEW x \in S, s \in A, x \notin s
      PROVE  s \cup {x} \in A
  <2>1. Image(s \cup {x}) = Image(s) \cup {h[x]}
    OBVIOUS
  <2>2. h[x] \notin Image(s)
    BY <1>2
  <2>3. IsFiniteSet(s) /\ IsFiniteSet(Image(s))
    <3>1. Image(s) \subseteq T
      OBVIOUS
    <3> QED  BY <3>1, FS_Subset
  <2>4. \A y \in s \cup {x} : g[y] \in Int
    OBVIOUS
  <2>5. \A y \in Image(s) \cup {h[x]} : f[y] \in Int
    OBVIOUS
  <2> HIDE DEF Image
  <2>6. SumFunctionOnSet(g, s \cup {x}) = SumFunctionOnSet(g, s) + g[x]
    BY ONLY <1>2, <2>3, <2>4, SumOfOneMore
  <2>7. SumFunctionOnSet(f, Image(s) \cup {h[x]}) = SumFunctionOnSet(f, Image(s)) + f[h[x]]
    BY ONLY <2>2, <2>3, <2>5, SumOfOneMore
  <2> QED  BY <1>2, <2>1, <2>6, <2>7
<1>3. \A s \in SUBSET S, x \in S : s \in A /\ x \notin s => s \cup {x} \in A
  BY <1>2
<1>4. S \in A
  <2> HIDE DEF A
  <2> QED  BY <1>1, <1>3, SubsetInduction
<1> QED  BY <1>4

LEMMA SumOfPart ==
  ASSUME NEW S, IsFiniteSet(S), NEW f, \A x \in S : f[x] \in Nat, NEW c \in SUBSET S
  PROVE  SumFunctionOnSet(f, c) <= SumFunctionOnSet(f, S)
<1>1. PICK d : d = S \ c
  OBVIOUS
<1>2. IsFiniteSet(c) /\ IsFiniteSet(d) /\ c \cap d = {} /\ c \cup d = S
  BY <1>1, FS_Subset
<1>3. \A x \in c : f[x] \in Nat
  OBVIOUS
<1>4. \A x \in d : f[x] \in Nat
  BY <1>1
<1>5. SumFunctionOnSet(f, c) \in Nat /\ SumFunctionOnSet(f, d) \in Nat
  BY ONLY <1>2, <1>3, <1>4, SumIsNat
<1>6. \A x \in c \cup d : f[x] \in Int
  BY <1>3, <1>4
<1>7. SumFunctionOnSet(f, c \cup d) = SumFunctionOnSet(f, c) + SumFunctionOnSet(f, d)
  BY ONLY <1>2, <1>6, SumOfUnion
<1>8. SumFunctionOnSet(f, S) = SumFunctionOnSet(f, c) + SumFunctionOnSet(f, d)
  BY ONLY <1>2, <1>7
<1> QED  BY ONLY <1>5, <1>8

LEMMA LoadsAreNat ==
  ASSUME NEW s \in Seq(Nat)
  PROVE  /\ SumFunction(s) = SumFunctionOnSet(s, 1..Len(s)) /\ SumFunction(s) \in Nat
         /\ IsFiniteSet(1..Len(s)) /\ Len(s) \in Nat /\ DOMAIN s = 1..Len(s)
         /\ \A i \in 1..Len(s) : s[i] \in Nat
<1>1. s \in Seq(Int) /\ Len(s) \in Nat /\ DOMAIN s = 1..Len(s) /\ \A i \in 1..Len(s) : s[i] \in Nat
  OBVIOUS
<1>2. SumFunction(s) = SumFunctionOnSet(s, 1..Len(s)) /\ IsFiniteSet(1..Len(s))
  BY ONLY <1>1, SumOfSequence
<1>3. SumFunctionOnSet(s, 1..Len(s)) \in Nat
  BY ONLY <1>1, <1>2, SumIsNat
<1> QED  BY ONLY <1>1, <1>2, <1>3

LEMMA SumOfConcat ==
  ASSUME NEW s \in Seq(Nat), NEW t \in Seq(Nat)
  PROVE  /\ s \o t \in Seq(Nat) /\ Len(s \o t) = Len(s) + Len(t)
         /\ SumFunction(s \o t) = SumFunction(s) + SumFunction(t)
<1>1. PICK a \in Nat, b \in Nat : a = Len(s) /\ b = Len(t)
  OBVIOUS
<1>2. PICK u : u = s \o t
  OBVIOUS
<1>3. /\ u \in Seq(Nat) /\ Len(u) = a + b
      /\ \A i \in 1..a : u[i] = s[i]
      /\ \A i \in 1..b : u[a + i] = t[i]
  BY <1>1, <1>2
<1>4. /\ SumFunction(s) = SumFunctionOnSet(s, 1..a) /\ IsFiniteSet(1..a)
      /\ \A i \in 1..a : s[i] \in Nat
  BY ONLY <1>1, s \in Seq(Nat), LoadsAreNat
<1>5. /\ SumFunction(t) = SumFunctionOnSet(t, 1..b) /\ IsFiniteSet(1..b)
      /\ \A i \in 1..b : t[i] \in Nat
  BY ONLY <1>1, t \in Seq(Nat), LoadsAreNat
<1>6. /\ SumFunction(u) = SumFunctionOnSet(u, 1..(a + b)) /\ IsFiniteSet(1..(a + b))
      /\ \A i \in 1..(a + b) : u[i] \in Nat
  BY ONLY <1>3, LoadsAreNat
<1> DEFINE h == [i \in 1..b |-> a + i]
           Rest == {h[i] : i \in 1..b}
<1>7. SumFunctionOnSet(t, 1..b) = SumFunctionOnSet(u, Rest)
  <2>1. ASSUME NEW i \in 1..b
        PROVE  h[i] \in 1..(a + b) /\ t[i] = u[h[i]]
    <3>1. h[i] = a + i /\ a + i \in 1..(a + b)
      OBVIOUS
    <3> HIDE DEF h
    <3> QED  BY <1>3, <3>1
  <2>2. \A i, j \in 1..b : h[i] = h[j] => i = j
    OBVIOUS
  <2>3. \A i \in 1..(a + b) : u[i] \in Int
    BY <1>6
  <2> HIDE DEF h
  <2>4. PICK B, E : B = 1..b /\ E = 1..(a + b)
    OBVIOUS
  <2>5. /\ IsFiniteSet(B) /\ IsFiniteSet(E)
        /\ \A i \in B : h[i] \in E /\ t[i] = u[h[i]]
        /\ \A i, j \in B : h[i] = h[j] => i = j
        /\ \A i \in E : u[i] \in Int
    BY ONLY <1>5, <1>6, <2>1, <2>2, <2>3, <2>4
  <2>6. SumFunctionOnSet(t, B) = SumFunctionOnSet(u, {h[i] : i \in B})
    BY ONLY <2>5, SumOfRenamed, SMTT(60)
  <2> QED  BY ONLY <2>4, <2>6 DEF Rest
<1>8. 1..(a + b) = 1..a \cup Rest /\ 1..a \cap Rest = {}
  <2>1. \A i \in 1..b : h[i] = a + i
    OBVIOUS
  <2>2. ASSUME NEW i \in 1..(a + b), i \notin 1..a
        PROVE  i \in Rest
    <3>1. i - a \in 1..b /\ i = a + (i - a)
      BY <2>2
    <3> QED  BY <2>1, <3>1
  <2> HIDE DEF h
  <2>3. Rest \subseteq 1..(a + b) /\ 1..a \cap Rest = {}
    BY <2>1
  <2>4. 1..a \subseteq 1..(a + b)
    OBVIOUS
  <2> QED  BY <2>2, <2>3, <2>4
<1>9. SumFunctionOnSet(u, 1..a \cup Rest) = SumFunctionOnSet(u, 1..a) + SumFunctionOnSet(u, Rest)
  <2> HIDE DEF Rest
  <2>1. IsFiniteSet(Rest)
    <3>1. Rest \subseteq 1..(a + b)
      BY <1>8
    <3> QED  BY <1>6, <3>1, FS_Subset
  <2>2. \A i \in 1..a \cup Rest : u[i] \in Int
    BY <1>6, <1>8
  <2> QED  BY ONLY <1>4, <1>8, <2>1, <2>2, SumOfUnion, ZenonT(60)
<1>10. SumFunctionOnSet(u, 1..a) = SumFunctionOnSet(s, 1..a)
  <2>1. \A i \in 1..a : u[i] \in Int /\ u[i] = s[i]
    BY <1>3, <1>4
  <2> QED  BY ONLY <1>4, <2>1, SumsAgree
<1>11. SumFunction(u) = SumFunction(s) + SumFunction(t)
  <2> HIDE DEF Rest
  <2> QED  BY <1>4, <1>5, <1>6, <1>7, <1>8, <1>9, <1>10
<1> QED  BY <1>1, <1>2, <1>3, <1>11

(* Loads are positive, so only an empty server has none. *)
LEMMA NoLoad ==
  ASSUME NEW s \in Seq(Nat \ {0})
  PROVE  SumFunction(s) > 0 <=> s # <<>>
<1>1. s \in Seq(Nat)
  OBVIOUS
<1>2. ASSUME s # <<>>
      PROVE  SumFunction(s) > 0
  <2>1. PICK n \in Nat : n = Len(s)
    OBVIOUS
  <2>2. /\ SumFunction(s) = SumFunctionOnSet(s, 1..n) /\ IsFiniteSet(1..n)
        /\ 1 \in 1..n /\ s[1] \in Nat \ {0} /\ \A i \in 1..n : s[i] \in Nat
    BY ONLY <1>1, <1>2, <2>1, s \in Seq(Nat \ {0}), LoadsAreNat
  <2>3. SumFunctionOnSet(s, {1}) <= SumFunctionOnSet(s, 1..n)
    <3>1. {1} \in SUBSET (1..n)
      BY <2>2
    <3> QED  BY ONLY <2>2, <3>1, SumOfPart
  <2>4. SumFunctionOnSet(s, {1}) = s[1]
    <3>1. IsFiniteSet({}) /\ 1 \notin {} /\ \A y \in {} \cup {1} : s[y] \in Int
      BY <2>2, FS_EmptySet
    <3>2. SumFunctionOnSet(s, {} \cup {1}) = SumFunctionOnSet(s, {}) + s[1]
      BY ONLY <3>1, SumOfOneMore
    <3>3. SumFunctionOnSet(s, {}) = 0 /\ {} \cup {1} = {1}
      BY SumOfNone
    <3> QED  BY ONLY <2>2, <3>2, <3>3
  <2>5. SumFunction(s) \in Nat
    BY <1>1, LoadsAreNat
  <2> QED  BY ONLY <2>2, <2>3, <2>4, <2>5
<1>3. ASSUME s = <<>>
      PROVE  SumFunction(s) = 0
  BY <1>3, SumOfEmpty
<1> QED  BY <1>2, <1>3

(* The copies of n VMs. *)
LEMMA CopiesOfSome ==
  ASSUME NEW loads \in Seq(Nat), NEW n \in Nat,
         NEW chosen, chosen \subseteq DOMAIN loads, Cardinality(chosen) = n,
         NEW copies, copies = [i \in 1..n |-> loads[SetToSeq(chosen)[i]]]
  PROVE  /\ copies \in Seq(Nat) /\ SumFunction(copies) <= SumFunction(loads)
         /\ loads = <<>> => copies = <<>>
<1>1. /\ SumFunction(loads) = SumFunctionOnSet(loads, 1..Len(loads))
      /\ IsFiniteSet(1..Len(loads)) /\ DOMAIN loads = 1..Len(loads)
      /\ \A i \in 1..Len(loads) : loads[i] \in Nat
  BY LoadsAreNat
<1>2. IsFiniteSet(chosen)
  BY <1>1, FS_Subset
<1>3. PICK f : f \in [1..n -> chosen] /\ IsInjective(f) /\ f = SetToSeq(chosen)
  <2>1. ExistsBijection(1..n, chosen)
    BY <1>2, FS_NatBijection, FS_CountingElements
  <2>2. \E f \in [1..n -> chosen] : IsInjective(f)
    BY <2>1 DEF ExistsBijection, Bijection, Injection, IsInjective
  <2> QED  BY <2>2 DEF SetToSeq
<1>4. copies \in Seq(Nat) /\ Len(copies) = n /\ \A i \in 1..n : copies[i] = loads[f[i]]
  BY <1>1, <1>3
<1>5. SumFunction(copies) = SumFunctionOnSet(copies, 1..n) /\ IsFiniteSet(1..n)
  BY ONLY <1>4, LoadsAreNat
<1>6. SumFunctionOnSet(copies, 1..n) = SumFunctionOnSet(loads, {f[i] : i \in 1..n})
  <2>1. \A i, j \in 1..n : f[i] = f[j] => i = j
    BY <1>3 DEF IsInjective
  <2>2. \A i \in 1..n : f[i] \in chosen
    BY <1>3
  <2>3. \A y \in chosen : loads[y] \in Int
    BY <1>1
  <2>4. PICK B : B = 1..n
    OBVIOUS
  <2>5. /\ IsFiniteSet(B) /\ \A i \in B : f[i] \in chosen /\ copies[i] = loads[f[i]]
        /\ \A i, j \in B : f[i] = f[j] => i = j
    BY ONLY <1>4, <1>5, <2>1, <2>2, <2>4
  <2>6. SumFunctionOnSet(copies, B) = SumFunctionOnSet(loads, {f[i] : i \in B})
    BY ONLY <1>2, <2>3, <2>5, SumOfRenamed, SMTT(60)
  <2> QED  BY ONLY <2>4, <2>6
<1>7. SumFunctionOnSet(loads, {f[i] : i \in 1..n}) <= SumFunctionOnSet(loads, 1..Len(loads))
  <2>1. {f[i] : i \in 1..n} \in SUBSET (1..Len(loads))
    BY <1>1, <1>3
  <2> QED  BY ONLY <1>1, <2>1, SumOfPart
<1>8. ASSUME loads = <<>>
      PROVE  copies = <<>>
  <2>1. chosen = {}
    BY <1>8
  <2>2. n = 0
    BY <2>1, FS_EmptySet
  <2> QED  BY <1>4, <2>2
<1> QED  BY ONLY <1>1, <1>4, <1>5, <1>6, <1>7, <1>8

-----------------------------------------------------------------------------
(* One call of a policy. *)

Candidate == [server : Servers, utilizationCPU : Nat]

BeforeCollect ==
  /\ stage = "collect" =>
       /\ ServerOPT = <<>> /\ VMsToMigrate = <<>> /\ isMigrating = {}
       /\ isPOOL = now.isPOOL /\ vRunningVMs = now.vms /\ from = 1
  /\ stage \in {"low", "high"} => stage = now.police

(* The recorded utilisation of a candidate is the one it has, that of a    *)
(* server to empty the one it had when the pass began.                     *)
RecordedNow ==
  \A i \in DOMAIN ServerOPT :
    ServerOPT[i].utilizationCPU = utilization(ServerOPT[i].server)

RecordedAtFirst ==
  \A i \in DOMAIN VMsToMigrate :
    /\ VMsToMigrate[i].server \in now.active
    /\ VMsToMigrate[i].utilizationCPU = SumFunction(now.vms[VMsToMigrate[i].server])
    /\ now.police = "low" => VMsToMigrate[i].utilizationCPU <= 3

OnlyAdded ==
  \A s \in Servers :
    /\ Len(now.vms[s]) <= Len(vRunningVMs[s])
    /\ s \in Receivers \/ vRunningVMs[s] = now.vms[s]

(* The servers to empty are the first candidates, in the same order.       *)
OneEntryEach ==
  /\ \A i, j \in DOMAIN ServerOPT : ServerOPT[i].server = ServerOPT[j].server => i = j
  /\ Len(VMsToMigrate) <= Len(ServerOPT)
  /\ \A i \in DOMAIN VMsToMigrate : VMsToMigrate[i].server = ServerOPT[i].server

AllListed ==
  /\ Listed \subseteq now.active \cup (now.isPOOL \ isPOOL)
  /\ now.police = "high" /\ stage # "collect" =>
       /\ now.active \cup (now.isPOOL \ isPOOL) \subseteq Listed
       /\ \A s \in now.active : now.inlet[s] > 29 => s \in Sources

(* The sources the loop is done with.  PoliceLowUtilization gives up on    *)
(* one at most: where the indices meet, which happens once.                *)
Passed == {VMsToMigrate[i].server : i \in 1..(from - 1)}

SourcesMigrate ==
  /\ isMigrating \subseteq Passed
  /\ now.police = "high" => Passed \subseteq isMigrating
  /\ now.police = "low" => \A s, t \in Passed \ isMigrating : s = t
  /\ stage = "low" /\ from <= to => Passed \subseteq isMigrating

CannotTake(e) ==
  \/ now.supply[e.server] > 29 \/ e.server \in now.beyond
  \/ VMsToMigrate[from].utilizationCPU + e.utilizationCPU > 9

(* PoliceHighTemperature has asked all candidates behind this one.         *)
Rejected ==
  stage = "high" /\ from <= Len(VMsToMigrate) =>
    \A i \in (to + 1)..Len(ServerOPT) : CannotTake(ServerOPT[i])

(* How many sources of at most 30% a target has taken at least, if it had  *)
(* at most 30% itself.                                                     *)
Taken(load) == IF load <= 3 THEN 0 ELSE IF load <= 6 THEN 1 ELSE 2

(* A target is passed by only when it is above 60%.  So while it is ahead  *)
(* of the source two sources were emptied for each target passed by among  *)
(* the lightly loaded ones; the two indices meet in the upper third of     *)
(* these.  From then on a target can be passed by only after it took a     *)
(* source, so the target goes down by one at most for each source that     *)
(* is left, and there are fewer of these than targets.                     *)
RoomLeft ==
  stage = "low" /\ from <= Len(VMsToMigrate) =>
    LET m == Len(VMsToMigrate)
        load == ServerOPT[to].utilizationCPU
    IN  /\ to > 0
        /\ \A i \in 1..m : i < to => ServerOPT[i].utilizationCPU <= 3
        /\ from <= to /\ to <= m => from - 1 >= 2 * (m - to) + Taken(load)
        /\ to < from => to >= (m - from) + IF load > 6 THEN 2 ELSE 1

PoliceInv ==
  /\ PoliceTypeOK /\ BeforeCollect
  /\ RecordedNow /\ RecordedAtFirst /\ OnlyAdded /\ OneEntryEach
  /\ AllListed /\ SourcesMigrate /\ Rejected /\ RoomLeft

-----------------------------------------------------------------------------
LEMMA SituationTypes ==
  ASSUME PoliceTypeOK
  PROVE  /\ IsFiniteSet(Servers) /\ now.police \in {"low", "high"}
         /\ now.active \subseteq Servers /\ now.isPOOL \subseteq Servers \ now.active
         /\ now.vms \in [Servers -> Seq(Nat \ {0})]
         /\ \A s \in Servers \ now.active : now.vms[s] = <<>>
         /\ now.inlet \in [Servers -> Nat] /\ now.supply \in [Servers -> Nat]
BY SituationAssumption DEF PoliceTypeOK

LEMMA Indices ==
  ASSUME PoliceTypeOK
  PROVE  /\ ServerOPT \in Seq(Candidate) /\ VMsToMigrate \in Seq(Candidate)
         /\ Len(ServerOPT) \in Nat /\ DOMAIN ServerOPT = 1..Len(ServerOPT)
         /\ Len(VMsToMigrate) \in Nat /\ DOMAIN VMsToMigrate = 1..Len(VMsToMigrate)
         /\ from \in 1..(Len(VMsToMigrate) + 1) /\ to \in 0..Len(ServerOPT)
         /\ \A i \in 1..Len(ServerOPT) :
              ServerOPT[i].server \in Servers /\ ServerOPT[i].utilizationCPU \in Nat
         /\ \A i \in 1..Len(VMsToMigrate) :
              VMsToMigrate[i].server \in Servers /\ VMsToMigrate[i].utilizationCPU \in Nat
<1>1. /\ ServerOPT \in Seq(Candidate) /\ VMsToMigrate \in Seq(Candidate)
      /\ from \in 1..(Len(VMsToMigrate) + 1) /\ to \in 0..Len(ServerOPT)
  BY DEF PoliceTypeOK, Candidate
<1>2. \A e \in Candidate : e.server \in Servers /\ e.utilizationCPU \in Nat
  BY DEF Candidate
<1>3. /\ Len(ServerOPT) \in Nat /\ DOMAIN ServerOPT = 1..Len(ServerOPT)
      /\ Len(VMsToMigrate) \in Nat /\ DOMAIN VMsToMigrate = 1..Len(VMsToMigrate)
      /\ \A i \in 1..Len(ServerOPT) : ServerOPT[i] \in Candidate
      /\ \A i \in 1..Len(VMsToMigrate) : VMsToMigrate[i] \in Candidate
  BY <1>1
<1> QED  BY ONLY <1>1, <1>2, <1>3

(* The orders of a set list each member once. *)
LEMMA OrderListsAll ==
  ASSUME IsFiniteSet(Servers), NEW S, S \subseteq Servers, NEW order \in SetToSeqs(S)
  PROVE  /\ order \in [1..Cardinality(S) -> S] /\ Cardinality(S) \in Nat
         /\ \A i, j \in DOMAIN order : order[i] = order[j] => i = j
         /\ \A s \in S : \E i \in DOMAIN order : order[i] = s
<1>1. IsFiniteSet(S) /\ Cardinality(S) \in Nat
  BY FS_Subset, FS_CardinalityType
<1>2. /\ order \in [1..Cardinality(S) -> S]
      /\ \A i, j \in 1..Cardinality(S) : i # j => order[i] # order[j]
  BY DEF SetToSeqs
<1>3. order \in Injection(1..Cardinality(S), S)
  BY <1>2 DEF Injection, IsInjective
<1>4. Cardinality(1..Cardinality(S)) = Cardinality(S)
  BY <1>1, FS_Interval
<1>5. order \in Surjection(1..Cardinality(S), S)
  BY <1>1, <1>3, <1>4, FS_Injection
<1> QED  BY <1>1, <1>2, <1>5 DEF Surjection

(* Copies are added to one server. *)
LEMMA AddCopies ==
  ASSUME vRunningVMs \in [Servers -> Seq(Nat)], NEW t \in Servers, NEW copies \in Seq(Nat),
         vRunningVMs' = [vRunningVMs EXCEPT ![t] = @ \o copies]
  PROVE  /\ vRunningVMs' \in [Servers -> Seq(Nat)]
         /\ vRunningVMs'[t] = vRunningVMs[t] \o copies
         /\ Len(vRunningVMs'[t]) = Len(vRunningVMs[t]) + Len(copies)
         /\ Len(vRunningVMs[t]) \in Nat /\ Len(copies) \in Nat
         /\ SumFunction(vRunningVMs'[t]) = SumFunction(vRunningVMs[t]) + SumFunction(copies)
         /\ SumFunction(vRunningVMs[t]) \in Nat /\ SumFunction(copies) \in Nat
         /\ \A s \in Servers \ {t} : vRunningVMs'[s] = vRunningVMs[s]
<1>1. vRunningVMs[t] \in Seq(Nat)
  OBVIOUS
<1>2. /\ vRunningVMs[t] \o copies \in Seq(Nat)
      /\ Len(vRunningVMs[t] \o copies) = Len(vRunningVMs[t]) + Len(copies)
      /\ SumFunction(vRunningVMs[t] \o copies) = SumFunction(vRunningVMs[t]) + SumFunction(copies)
  BY <1>1, SumOfConcat
<1>3. vRunningVMs'[t] = vRunningVMs[t] \o copies
  OBVIOUS
<1>4. SumFunction(vRunningVMs[t]) \in Nat /\ SumFunction(copies) \in Nat
  BY <1>1, LoadsAreNat
<1>5. vRunningVMs' \in [Servers -> Seq(Nat)] /\ \A s \in Servers \ {t} : vRunningVMs'[s] = vRunningVMs[s]
  BY <1>2
<1> QED  BY <1>1, <1>2, <1>3, <1>4, <1>5

LEMMA AddsOnly ==
  ASSUME PoliceTypeOK, OnlyAdded, NEW t \in Servers, NEW copies \in Seq(Nat),
         vRunningVMs' = [vRunningVMs EXCEPT ![t] = @ \o copies], now' = now
  PROVE  OnlyAdded'
<1> SUFFICES ASSUME NEW s \in Servers
             PROVE  /\ Len(now.vms[s]) <= Len(vRunningVMs'[s])
                    /\ Len(vRunningVMs'[s]) > Len(now.vms[s]) \/ vRunningVMs'[s] = now.vms[s]
  BY DEF OnlyAdded, Receivers
<1>1. /\ vRunningVMs'[t] = vRunningVMs[t] \o copies
      /\ Len(vRunningVMs'[t]) = Len(vRunningVMs[t]) + Len(copies)
      /\ Len(vRunningVMs[t]) \in Nat /\ Len(copies) \in Nat
      /\ s # t => vRunningVMs'[s] = vRunningVMs[s]
  BY AddCopies DEF PoliceTypeOK
<1>2. /\ Len(now.vms[s]) <= Len(vRunningVMs[s])
      /\ Len(vRunningVMs[s]) > Len(now.vms[s]) \/ vRunningVMs[s] = now.vms[s]
  BY DEF OnlyAdded, Receivers
<1>3. Len(now.vms[s]) \in Nat
  BY SituationTypes
<1>4. CASE s # t
  BY <1>1, <1>2, <1>4
<1>5. CASE s = t /\ Len(copies) = 0
  <2>1. copies = <<>>
    BY <1>5
  <2>2. vRunningVMs[t] \in Seq(Nat)
    BY DEF PoliceTypeOK
  <2>3. vRunningVMs[t] \o copies = vRunningVMs[t]
    BY <2>1, <2>2
  <2> QED  BY <1>1, <1>2, <1>5, <2>3
<1>6. CASE s = t /\ Len(copies) # 0
  BY <1>1, <1>2, <1>3, <1>6
<1> QED  BY <1>4, <1>5, <1>6

-----------------------------------------------------------------------------
(* What Collect makes of the candidates, n in this order, and of those to  *)
(* empty: e of the first m, which is all of them or none.                  *)
CollectedAs(order, m, n, e) ==
  /\ n = Len(order) /\ e = Len(VMsToMigrate')
  /\ \A i, j \in 1..n : order[i] = order[j] => i = j
  /\ \A i \in 1..n : order[i] \in Candidates
  /\ \A s \in Candidates : \E i \in 1..n : order[i] = s
  /\ \A i, j \in 1..n : i < j => Before(order[i], order[j])
  /\ \A i \in 1..m : ToEmpty(order[i])
  /\ m <= n
  /\ m < n => ~ ToEmpty(order[m + 1])
  /\ ServerOPT' \in Seq(Candidate) /\ Len(ServerOPT') = n /\ to' = n
  /\ \A i \in 1..n : /\ ServerOPT'[i].server = order[i]
                     /\ ServerOPT'[i].utilizationCPU = utilization(order[i])
  /\ VMsToMigrate' \in Seq(Candidate)
  /\ \A i \in 1..e : VMsToMigrate'[i] = ServerOPT'[i]
  /\ e = IF now.police = "low" /\ m <= 1 THEN 0 ELSE m

LEMMA Collected ==
  ASSUME PoliceInv, Collect
  PROVE  \E order \in Seq(Servers), m \in Nat, n \in Nat, e \in Nat : CollectedAs(order, m, n, e)
<1>1. PoliceTypeOK
  BY DEF PoliceInv
<1>2. /\ IsFiniteSet(Servers) /\ Candidates \subseteq Servers
      /\ vRunningVMs \in [Servers -> Seq(Nat)]
  BY <1>1, SituationTypes DEF Candidates, PoliceTypeOK
<1>3. PICK order \in SetToSeqs(Candidates), m \in 0..Cardinality(Candidates) :
       /\ \A i, j \in DOMAIN order : i < j => Before(order[i], order[j])
       /\ \A i \in 1..m : ToEmpty(order[i])
       /\ m < Len(order) => ~ ToEmpty(order[m + 1])
       /\ ServerOPT' = [i \in DOMAIN order |-> Recorded(order[i])]
       /\ VMsToMigrate' = IF now.police = "low" /\ m <= 1
                            THEN <<>> ELSE SubSeq(ServerOPT', 1, m)
       /\ to' = Len(order)
  BY DEF Collect
<1>4. PICK n : n = Cardinality(Candidates)
  OBVIOUS
<1>5. /\ order \in [1..n -> Candidates] /\ n \in Nat
      /\ \A i, j \in DOMAIN order : order[i] = order[j] => i = j
      /\ \A s \in Candidates : \E i \in DOMAIN order : order[i] = s
  BY ONLY <1>2, <1>3, <1>4, OrderListsAll
<1>6. order \in Seq(Servers) /\ Len(order) = n /\ DOMAIN order = 1..n
  BY <1>2, <1>5
<1>7. \A i \in 1..n : /\ Recorded(order[i]) \in Candidate
                      /\ Recorded(order[i]).server = order[i]
                      /\ Recorded(order[i]).utilizationCPU = utilization(order[i])
  <2> SUFFICES ASSUME NEW i \in 1..n
               PROVE  /\ Recorded(order[i]) \in Candidate
                      /\ Recorded(order[i]).server = order[i]
                      /\ Recorded(order[i]).utilizationCPU = utilization(order[i])
    OBVIOUS
  <2>1. order[i] \in Servers
    BY <1>2, <1>5
  <2>2. vRunningVMs[order[i]] \in Seq(Nat)
    BY <1>2, <2>1
  <2>3. utilization(order[i]) \in Nat
    BY <2>2, LoadsAreNat DEF utilization
  <2> QED  BY <2>1, <2>3 DEF Recorded, Candidate
<1>8. /\ ServerOPT' \in Seq(Candidate) /\ Len(ServerOPT') = n
      /\ \A i \in 1..n : ServerOPT'[i] = Recorded(order[i])
  BY <1>3, <1>5, <1>6, <1>7
<1>9. PICK e : e = IF now.police = "low" /\ m <= 1 THEN 0 ELSE m
  OBVIOUS
<1>10. /\ VMsToMigrate' \in Seq(Candidate) /\ e \in Nat /\ Len(VMsToMigrate') = e
       /\ \A i \in 1..e : VMsToMigrate'[i] = ServerOPT'[i]
  <2>1. m \in Nat /\ m <= n
    BY <1>3, <1>4, <1>5
  <2>2. CASE now.police = "low" /\ m <= 1
    BY <1>3, <1>9, <2>2
  <2>3. CASE ~ (now.police = "low" /\ m <= 1)
    <3>1. VMsToMigrate' = SubSeq(ServerOPT', 1, m) /\ e = m
      BY <1>3, <1>9, <2>3
    <3>2. /\ SubSeq(ServerOPT', 1, m) \in Seq(Candidate)
          /\ Len(SubSeq(ServerOPT', 1, m)) = m
          /\ \A i \in 1..m : SubSeq(ServerOPT', 1, m)[i] = ServerOPT'[i]
      BY ONLY <1>5, <1>8, <2>1
    <3> QED  BY ONLY <2>1, <3>1, <3>2
  <2> QED  BY <2>2, <2>3
<1>11. m \in Nat /\ m <= n
  BY <1>3, <1>4, <1>5
<1>12. /\ \A i, j \in 1..n : order[i] = order[j] => i = j
       /\ \A i \in 1..n : order[i] \in Candidates
       /\ \A s \in Candidates : \E i \in 1..n : order[i] = s
       /\ \A i, j \in 1..n : i < j => Before(order[i], order[j])
       /\ m < n => ~ ToEmpty(order[m + 1])
       /\ to' = n
       /\ \A i \in 1..n : /\ ServerOPT'[i].server = order[i]
                          /\ ServerOPT'[i].utilizationCPU = utilization(order[i])
  BY <1>3, <1>5, <1>6, <1>7, <1>8
<1>13. CollectedAs(order, m, n, e)
  BY ONLY <1>3, <1>6, <1>8, <1>9, <1>10, <1>11, <1>12 DEF CollectedAs
<1> QED  BY <1>5, <1>6, <1>10, <1>11, <1>13

LEMMA CollectInv ==
  ASSUME PoliceInv, Collect
  PROVE  PoliceInv'
<1>0. PICK order \in Seq(Servers), m \in Nat, n \in Nat, e \in Nat : CollectedAs(order, m, n, e)
  BY Collected
<1>1. /\ n = Len(order) /\ e = Len(VMsToMigrate')
      /\ \A i, j \in 1..n : order[i] = order[j] => i = j
      /\ \A i \in 1..n : order[i] \in Candidates
      /\ \A s \in Candidates : \E i \in 1..n : order[i] = s
      /\ \A i, j \in 1..n : i < j => Before(order[i], order[j])
      /\ \A i \in 1..m : ToEmpty(order[i])
      /\ m <= n /\ (m < n => ~ ToEmpty(order[m + 1]))
      /\ ServerOPT' \in Seq(Candidate) /\ Len(ServerOPT') = n /\ to' = n
      /\ \A i \in 1..n : /\ ServerOPT'[i].server = order[i]
                         /\ ServerOPT'[i].utilizationCPU = utilization(order[i])
      /\ VMsToMigrate' \in Seq(Candidate)
      /\ \A i \in 1..e : VMsToMigrate'[i] = ServerOPT'[i]
      /\ e = IF now.police = "low" /\ m <= 1 THEN 0 ELSE m
  BY <1>0 DEF CollectedAs
<1>2. /\ PoliceTypeOK /\ BeforeCollect /\ OnlyAdded /\ stage = "collect"
      /\ stage' = now.police /\ now.police \in {"low", "high"}
      /\ now' = now /\ isMigrating' = isMigrating /\ isPOOL' = isPOOL
      /\ vRunningVMs' = vRunningVMs /\ from' = from /\ sumRemovePOOL' = sumRemovePOOL
  BY SituationTypes DEF PoliceInv, Collect
<1>3. from = 1 /\ isMigrating = {} /\ isPOOL = now.isPOOL /\ vRunningVMs = now.vms
  BY <1>2 DEF BeforeCollect
<1>4. e <= n /\ e <= m /\ (now.police = "low" => e # 1)
  BY <1>1
<1>5. DOMAIN ServerOPT' = 1..n /\ DOMAIN VMsToMigrate' = 1..e
  <2>1. \A q \in Seq(Candidate) : DOMAIN q = 1..Len(q)
    OBVIOUS
  <2> QED  BY ONLY <1>1, <2>1
<1>6. Candidates \subseteq now.active /\ (now.police = "high" => Candidates = now.active)
  BY DEF Candidates
<1>7. PoliceTypeOK'
  BY <1>1, <1>2, <1>3 DEF PoliceTypeOK, Candidate
<1>8. BeforeCollect'
  BY <1>2 DEF BeforeCollect
<1>9. RecordedNow'
  BY <1>1, <1>2, <1>5 DEF RecordedNow, utilization
<1>10. RecordedAtFirst'
  <2> SUFFICES ASSUME NEW i \in 1..e
               PROVE  /\ VMsToMigrate'[i].server \in now.active
                      /\ VMsToMigrate'[i].utilizationCPU
                           = SumFunction(now.vms[VMsToMigrate'[i].server])
                      /\ now.police = "low" => VMsToMigrate'[i].utilizationCPU <= 3
    BY <1>2, <1>5 DEF RecordedAtFirst
  <2>1. /\ VMsToMigrate'[i].server = order[i] /\ order[i] \in now.active
        /\ VMsToMigrate'[i].utilizationCPU = utilization(order[i]) /\ ToEmpty(order[i])
    BY <1>1, <1>4, <1>6
  <2> QED  BY <1>3, <2>1 DEF utilization, ToEmpty
<1>11. OnlyAdded'
  BY <1>2 DEF OnlyAdded, Receivers
<1>12. OneEntryEach'
  BY <1>1, <1>4, <1>5 DEF OneEntryEach
<1>13. AllListed'
  <2>1. Listed' = Candidates
    <3>1. \A i \in 1..n : ServerOPT'[i].server \in Candidates
      BY <1>1
    <3>2. \A s \in Candidates : \E i \in 1..n : ServerOPT'[i].server = s
      BY <1>1
    <3> QED  BY <1>5, <3>1, <3>2 DEF Listed
  <2>2. ASSUME now.police = "high", NEW s \in now.active, now.inlet[s] > 29
        PROVE  s \in Sources'
    <3>1. PICK i \in 1..n : order[i] = s
      BY <1>1, <1>6, <2>2
    <3>2. CASE i <= m
      <4>1. VMsToMigrate'[i].server = s /\ i \in 1..e
        BY <1>1, <2>2, <3>1, <3>2
      <4> QED  BY <1>5, <4>1 DEF Sources
    <3>3. CASE m + 1 = i
      BY <1>1, <2>2, <3>1, <3>3 DEF ToEmpty
    <3>4. CASE m + 1 < i
      <4>1. m + 1 \in 1..n /\ m < n
        BY <1>1, <3>4
      <4>2. Before(order[m + 1], order[i]) /\ ~ ToEmpty(order[m + 1])
        BY <1>1, <3>4, <4>1
      <4>3. order[m + 1] \in Servers /\ s \in Servers
        BY <1>1, <3>1, <4>1
      <4>4. now.inlet[order[m + 1]] \in Nat /\ now.inlet[s] \in Nat
        BY <1>2, <4>3, SituationTypes
      <4>5. now.inlet[order[m + 1]] >= now.inlet[s] /\ ~ (now.inlet[order[m + 1]] > 29)
        BY <2>2, <3>1, <4>2 DEF Before, ToEmpty
      <4> QED  BY ONLY <2>2, <4>4, <4>5
    <3> QED  BY <3>2, <3>3, <3>4
  <2> QED  BY <1>2, <1>3, <1>6, <2>1, <2>2 DEF AllListed
<1>14. SourcesMigrate'
  <2>1. Passed' = {}
    BY <1>2, <1>3 DEF Passed
  <2> QED  BY <1>2, <1>3, <2>1 DEF SourcesMigrate
<1>15. Rejected'
  BY <1>1 DEF Rejected
<1>16. RoomLeft'
  <2> SUFFICES ASSUME stage' = "low", 1 <= e
               PROVE  /\ n > 0
                      /\ \A i \in 1..e : i < n => ServerOPT'[i].utilizationCPU <= 3
                      /\ 1 <= n /\ n <= e => 0 >= 2 * (e - n) + Taken(ServerOPT'[n].utilizationCPU)
                      /\ n < 1 => n >= (e - 1) + IF ServerOPT'[n].utilizationCPU > 6 THEN 2 ELSE 1
    <3>1. Len(VMsToMigrate') = e /\ to' = n /\ from' = 1 /\ 1 - 1 = 0
      BY <1>1, <1>2, <1>3
    <3> QED  BY <3>1 DEF RoomLeft, Taken
  <2>1. \A i \in 1..e : ServerOPT'[i].utilizationCPU <= 3
    BY <1>1, <1>2, <1>4 DEF ToEmpty
  <2>2. n \in 1..n /\ n > 0
    BY <1>4
  <2>3. n <= e => n = e
    BY <1>4
  <2> QED  BY <2>1, <2>2, <2>3 DEF Taken
<1> QED  BY <1>7, <1>8, <1>9, <1>10, <1>11, <1>12, <1>13, <1>14, <1>15, <1>16 DEF PoliceInv

(* The next source. *)
LEMMA NextSource ==
  ASSUME PoliceTypeOK, from <= Len(VMsToMigrate), from' = from + 1,
         VMsToMigrate' = VMsToMigrate
  PROVE  Passed' = Passed \cup {Source} /\ from' \in 1..(Len(VMsToMigrate) + 1)
<1>1. from \in Nat /\ from >= 1 /\ Len(VMsToMigrate) \in Nat
  BY Indices
<1>2. 1..(from' - 1) = 1..(from - 1) \cup {from}
  BY <1>1
<1>3. Passed' = {VMsToMigrate[i].server : i \in 1..(from' - 1)}
  BY DEF Passed
<1> QED  BY <1>1, <1>2, <1>3 DEF Passed, Source

LEMMA SourceIsActive ==
  ASSUME PoliceInv, from <= Len(VMsToMigrate)
  PROVE  /\ from \in 1..Len(VMsToMigrate) /\ from \in DOMAIN VMsToMigrate
         /\ Source \in now.active /\ Source \in Servers
         /\ Source = ServerOPT[from].server /\ from \in 1..Len(ServerOPT)
         /\ VMsToMigrate[from].utilizationCPU \in Nat
<1>1. PoliceTypeOK /\ RecordedAtFirst /\ OneEntryEach
  BY DEF PoliceInv
<1>2. from \in 1..Len(VMsToMigrate) /\ from \in DOMAIN VMsToMigrate
      /\ VMsToMigrate[from].utilizationCPU \in Nat
  BY <1>1, Indices
<1>3. from \in 1..Len(ServerOPT)
  BY <1>1, <1>2, Indices DEF OneEntryEach
<1> QED  BY <1>1, <1>2, <1>3, SituationTypes DEF RecordedAtFirst, OneEntryEach, Source

(* A source is moved to a target, which is known to have more load.        *)
LEMMA MoveToTarget ==
  ASSUME PoliceInv, from <= Len(VMsToMigrate), to > 0,
         NEW copies \in Seq(Nat), Move(copies),
         UNCHANGED <<now, stage, isPOOL, VMsToMigrate>>, from' = from + 1
  PROVE  /\ ServerOPT' \in Seq(Candidate) /\ Len(ServerOPT') = Len(ServerOPT)
         /\ \A i \in 1..Len(ServerOPT) :
              /\ ServerOPT'[i].server = ServerOPT[i].server
              /\ i # to => ServerOPT'[i] = ServerOPT[i]
         /\ ServerOPT'[to].utilizationCPU = ServerOPT[to].utilizationCPU + SumFunction(copies)
         /\ vRunningVMs' \in [Servers -> Seq(Nat)] /\ to \in 1..Len(ServerOPT)
         /\ Target \in Servers /\ SumFunction(copies) \in Nat
<1>1. PoliceTypeOK /\ RecordedNow
  BY DEF PoliceInv
<1>2. /\ to \in 1..Len(ServerOPT) /\ to \in DOMAIN ServerOPT /\ Target \in Servers
      /\ ServerOPT \in Seq(Candidate)
      /\ vRunningVMs \in [Servers -> Seq(Nat)]
      /\ ServerOPT[to].utilizationCPU = SumFunction(vRunningVMs[Target])
  <2>1. to \in 1..Len(ServerOPT) /\ to \in DOMAIN ServerOPT /\ ServerOPT \in Seq(Candidate)
    BY <1>1, Indices
  <2>2. Target \in Servers
    BY <1>1, <2>1, Indices DEF Target
  <2>3. ServerOPT[to].utilizationCPU = SumFunction(vRunningVMs[ServerOPT[to].server])
    BY <1>1, <2>1 DEF RecordedNow, utilization
  <2> QED  BY <1>1, <2>1, <2>2, <2>3 DEF Target, PoliceTypeOK
<1>3. /\ vRunningVMs' \in [Servers -> Seq(Nat)]
      /\ SumFunction(vRunningVMs'[Target]) = SumFunction(vRunningVMs[Target]) + SumFunction(copies)
      /\ SumFunction(vRunningVMs[Target]) \in Nat /\ SumFunction(copies) \in Nat
  BY <1>2, AddCopies DEF Move
<1>4. PICK u \in Nat : u = SumFunction(vRunningVMs'[Target])
  BY <1>3
<1>5. ServerOPT' = [ServerOPT EXCEPT ![to].utilizationCPU = u]
  BY <1>4 DEF Move
<1>6. /\ ServerOPT[to] \in Candidate
      /\ [ServerOPT[to] EXCEPT !.utilizationCPU = u] \in Candidate
      /\ [ServerOPT[to] EXCEPT !.utilizationCPU = u].server = ServerOPT[to].server
      /\ [ServerOPT[to] EXCEPT !.utilizationCPU = u].utilizationCPU = u
  <2>1. ServerOPT[to] \in Candidate
    BY <1>2
  <2> QED  BY <2>1 DEF Candidate
<1>7. PICK e \in Candidate : e.server = ServerOPT[to].server /\ e.utilizationCPU = u
                             /\ ServerOPT' = [ServerOPT EXCEPT ![to] = e]
  BY <1>5, <1>6
<1>8. /\ ServerOPT' \in Seq(Candidate) /\ Len(ServerOPT') = Len(ServerOPT)
      /\ ServerOPT'[to] = e
      /\ \A i \in 1..Len(ServerOPT) : i # to => ServerOPT'[i] = ServerOPT[i]
  BY <1>2, <1>7
<1> QED  BY <1>2, <1>3, <1>4, <1>7, <1>8

LEMMA MoveKeeps ==
  ASSUME PoliceInv, stage \in {"low", "high"}, from <= Len(VMsToMigrate), to > 0,
         NEW copies \in Seq(Nat), Move(copies),
         UNCHANGED <<now, stage, isPOOL, VMsToMigrate, sumRemovePOOL>>, from' = from + 1,
         to' \in 0..Len(ServerOPT), stage = "low" => to' = to
  PROVE  /\ PoliceTypeOK' /\ BeforeCollect'
         /\ RecordedNow' /\ RecordedAtFirst' /\ OnlyAdded' /\ OneEntryEach'
         /\ AllListed' /\ SourcesMigrate'
<1>1. /\ PoliceTypeOK /\ BeforeCollect /\ RecordedNow /\ RecordedAtFirst /\ OnlyAdded
      /\ OneEntryEach /\ AllListed /\ SourcesMigrate
  BY DEF PoliceInv
<1>2. /\ ServerOPT' \in Seq(Candidate) /\ Len(ServerOPT') = Len(ServerOPT)
      /\ \A i \in 1..Len(ServerOPT) :
           /\ ServerOPT'[i].server = ServerOPT[i].server
           /\ i # to => ServerOPT'[i] = ServerOPT[i]
      /\ ServerOPT'[to].utilizationCPU = ServerOPT[to].utilizationCPU + SumFunction(copies)
      /\ vRunningVMs' \in [Servers -> Seq(Nat)] /\ to \in 1..Len(ServerOPT)
      /\ Target \in Servers
  BY MoveToTarget
<1>3. DOMAIN ServerOPT' = 1..Len(ServerOPT) /\ DOMAIN ServerOPT = 1..Len(ServerOPT)
  <2>1. \A q \in Seq(Candidate) : DOMAIN q = 1..Len(q)
    OBVIOUS
  <2> QED  BY <1>1, <1>2, <2>1, Indices
<1>4. /\ now' = now /\ stage' = stage /\ isPOOL' = isPOOL /\ VMsToMigrate' = VMsToMigrate
      /\ sumRemovePOOL' = sumRemovePOOL
  OBVIOUS
<1>5. Source \in now.active
  BY SourceIsActive
<1>6. Passed' = Passed \cup {Source} /\ from' \in 1..(Len(VMsToMigrate) + 1)
  BY <1>1, <1>4, NextSource
<1>7. isMigrating' = isMigrating \cup {Source}
      /\ vRunningVMs' = [vRunningVMs EXCEPT ![Target] = @ \o copies]
  BY DEF Move
<1>8. PoliceTypeOK'
  <2>1. isMigrating' \subseteq now.active
    BY <1>1, <1>5, <1>7 DEF PoliceTypeOK
  <2> QED  BY <1>1, <1>2, <1>4, <1>6, <2>1 DEF PoliceTypeOK, Candidate
<1>9. BeforeCollect'
  BY <1>1, <1>4 DEF BeforeCollect
<1>10. RecordedNow'
  <2> SUFFICES ASSUME NEW i \in 1..Len(ServerOPT)
               PROVE  ServerOPT'[i].utilizationCPU = SumFunction(vRunningVMs'[ServerOPT'[i].server])
    BY <1>3 DEF RecordedNow, utilization
  <2>1. CASE i = to
    <3>1. ServerOPT' = [ServerOPT EXCEPT ![to].utilizationCPU = SumFunction(vRunningVMs'[Target])]
      BY DEF Move
    <3>2. ServerOPT[to] \in Candidate /\ ServerOPT \in Seq(Candidate)
      BY <1>1, <1>2, Indices
    <3>3. ServerOPT'[to].utilizationCPU = SumFunction(vRunningVMs'[Target])
      BY <1>2, <3>1, <3>2 DEF Candidate
    <3> QED  BY <1>2, <2>1, <3>3 DEF Target
  <2>2. CASE i # to
    <3>1. ServerOPT[i].server # Target /\ ServerOPT[i].server \in Servers
      BY <1>1, <1>2, <1>3, <2>2, Indices DEF OneEntryEach, Target
    <3>2. vRunningVMs'[ServerOPT[i].server] = vRunningVMs[ServerOPT[i].server]
      BY <1>1, <1>2, <1>7, <3>1, AddCopies DEF PoliceTypeOK
    <3>3. ServerOPT[i].utilizationCPU = SumFunction(vRunningVMs[ServerOPT[i].server])
      BY <1>1, <1>3 DEF RecordedNow, utilization
    <3> QED  BY <1>2, <2>2, <3>2, <3>3
  <2> QED  BY <2>1, <2>2
<1>11. RecordedAtFirst'
  BY <1>1, <1>4 DEF RecordedAtFirst
<1>12. OnlyAdded'
  BY <1>1, <1>2, <1>4, <1>7, AddsOnly
<1>13. OneEntryEach'
  <2>1. \A i \in DOMAIN VMsToMigrate : i \in 1..Len(ServerOPT)
    BY <1>1, Indices DEF OneEntryEach
  <2> QED  BY <1>1, <1>2, <1>3, <1>4, <2>1 DEF OneEntryEach
<1>14. AllListed'
  <2>1. Listed' = Listed
    BY <1>2, <1>3 DEF Listed
  <2>2. Sources' = Sources
    BY <1>4 DEF Sources
  <2> QED  BY <1>1, <1>4, <2>1, <2>2 DEF AllListed
<1>15. SourcesMigrate'
  <2>1. stage = "low" /\ from' <= to' => from <= to
    <3>1. from \in Nat /\ to \in Nat
      BY <1>1, Indices
    <3> QED  BY <3>1
  <2>2. Passed' \ isMigrating' \subseteq Passed \ isMigrating
    BY <1>6, <1>7
  <2>3. isMigrating' \subseteq Passed'
    BY <1>1, <1>6, <1>7 DEF SourcesMigrate
  <2>4. Passed \subseteq isMigrating => Passed' \subseteq isMigrating'
    BY <1>6, <1>7
  <2> QED  BY <1>1, <1>4, <2>1, <2>2, <2>3, <2>4 DEF SourcesMigrate
<1> QED  BY <1>8, <1>9, <1>10, <1>11, <1>12, <1>13, <1>14, <1>15

(* The copies of a policy are of the source's VMs. *)
LEMMA AllOfTheSource ==
  ASSUME PoliceInv, from <= Len(VMsToMigrate)
  PROVE  /\ GetALLVMs \in Seq(Nat) /\ SumFunction(GetALLVMs) = utilization(Source)
         /\ GetALLVMs = vRunningVMs[Source] /\ utilization(Source) \in Nat
<1>1. PoliceTypeOK /\ Source \in Servers
  BY SourceIsActive DEF PoliceInv
<1>2. GetALLVMs \in Seq(Nat) /\ SumFunction(GetALLVMs) = utilization(Source)
      /\ GetALLVMs = vRunningVMs[Source]
  BY <1>1 DEF GetALLVMs, utilization, PoliceTypeOK
<1> QED  BY <1>2, LoadsAreNat

LEMMA SomeOfTheSource ==
  ASSUME PoliceInv, from <= Len(VMsToMigrate), NEW n \in Nat, NEW copies \in GetNVMs(n)
  PROVE  /\ copies \in Seq(Nat) /\ SumFunction(copies) <= utilization(Source)
         /\ GetALLVMs = <<>> => copies = <<>>
<1>1. PICK loads \in Seq(Nat) : /\ loads = GetALLVMs /\ loads = vRunningVMs[Source]
                                /\ SumFunction(loads) = utilization(Source)
  BY AllOfTheSource
<1>2. PICK chosen \in kSubset(n, DOMAIN loads) :
        copies = [i \in 1..n |-> loads[SetToSeq(chosen)[i]]]
  BY <1>1 DEF GetNVMs
<1>3. chosen \subseteq DOMAIN loads /\ Cardinality(chosen) = n
  BY <1>2 DEF kSubset
<1>4. /\ copies \in Seq(Nat) /\ SumFunction(copies) <= SumFunction(loads)
      /\ loads = <<>> => copies = <<>>
  BY ONLY n \in Nat, loads \in Seq(Nat), <1>2, <1>3, CopiesOfSome, SMTT(60)
<1> QED  BY <1>1, <1>4

LEMMA ShareOfTheSource ==
  ASSUME PoliceInv, from <= Len(VMsToMigrate), MoveShare
  PROVE  \E copies \in Seq(Nat) :
           /\ Move(copies) /\ SumFunction(copies) <= utilization(Source)
           /\ GetALLVMs = <<>> => copies = <<>>
<1>1. PICK many \in Nat : many = Len(vRunningVMs[Source])
  BY AllOfTheSource
<1>2. many \div 2 \in Nat /\ many \div 4 \in Nat
  BY ONLY many \in Nat, QuotientRounds, 2 \in Nat \ {0}, 4 \in Nat \ {0}
<1>3. CASE Move(GetALLVMs)
  <2>1. utilization(Source) <= utilization(Source)
    BY AllOfTheSource
  <2> QED  BY <1>3, <2>1, AllOfTheSource
<1>4. CASE \E copies \in GetNVMs(many \div 2) : Move(copies)
  BY <1>2, <1>4, SomeOfTheSource
<1>5. CASE \E copies \in GetNVMs(many \div 4) : Move(copies)
  BY <1>2, <1>5, SomeOfTheSource
<1> QED  BY <1>1, <1>3, <1>4, <1>5 DEF MoveShare

LEMMA IndexValues ==
  ASSUME PoliceInv
  PROVE  \E m \in Nat, f \in Nat, t \in Nat :
           /\ m = Len(VMsToMigrate) /\ f = from /\ t = to /\ f >= 1 /\ t <= Len(ServerOPT)
           /\ m <= Len(ServerOPT)
<1>1. PoliceTypeOK /\ Len(VMsToMigrate) <= Len(ServerOPT)
  BY DEF PoliceInv, OneEntryEach
<1>2. /\ Len(VMsToMigrate) \in Nat /\ from \in 1..(Len(VMsToMigrate) + 1)
      /\ Len(ServerOPT) \in Nat /\ to \in 0..Len(ServerOPT)
  BY <1>1, Indices
<1>3. from \in Nat /\ from >= 1 /\ to \in Nat /\ to <= Len(ServerOPT)
  BY <1>2
<1> QED  BY <1>1, <1>2, <1>3

(* What the numbers of PoliceLowUtilization say, with the loads named.     *)
(* Ahead: u, of at most 3, is added to load.                               *)
LEMMA AheadMigrates ==
  ASSUME NEW f \in Nat, NEW t \in Nat, NEW m \in Nat, NEW load \in Nat, NEW u \in Nat,
         f - 1 >= 2 * (m - t) + Taken(load), u <= 3
  PROVE  (f + 1) - 1 >= 2 * (m - t) + Taken(load + u)
<1>1. PICK c \in 0..2 : c = Taken(load)
  BY DEF Taken
<1>2. Taken(load + u) <= c + 1 /\ Taken(load + u) \in 0..2
  BY <1>1 DEF Taken
<1> QED  BY <1>1, <1>2

LEMMA MigrateLowInv ==
  ASSUME PoliceInv, MigrateLow
  PROVE  PoliceInv'
<1>1. /\ stage = "low" /\ from <= Len(VMsToMigrate) /\ to # from /\ Fits
      /\ Move(GetALLVMs) /\ from' = from + 1 /\ to' = to
      /\ UNCHANGED <<now, stage, isPOOL, VMsToMigrate, sumRemovePOOL>>
  BY DEF MigrateLow
<1>2. PoliceTypeOK /\ RecordedNow /\ OneEntryEach /\ RoomLeft
  BY DEF PoliceInv
<1>3. PICK m \in Nat, f \in Nat, t \in Nat :
        /\ m = Len(VMsToMigrate) /\ f = from /\ t = to /\ f >= 1 /\ t <= Len(ServerOPT)
        /\ m <= Len(ServerOPT)
  BY IndexValues
<1>4. PICK load \in Nat : load = ServerOPT[t].utilizationCPU
  <2>1. t > 0
    BY <1>1, <1>2, <1>3 DEF RoomLeft
  <2> QED  BY <1>2, <1>3, <2>1, Indices, SMTT(60)
<1>5. /\ t > 0
      /\ \A i \in 1..m : i < t => ServerOPT[i].utilizationCPU <= 3
      /\ f <= t /\ t <= m => f - 1 >= 2 * (m - t) + Taken(load)
      /\ t < f => t >= (m - f) + IF load > 6 THEN 2 ELSE 1
  BY <1>1, <1>2, <1>3, <1>4 DEF RoomLeft
<1>6. /\ GetALLVMs \in Seq(Nat) /\ SumFunction(GetALLVMs) = utilization(Source)
  BY <1>1, AllOfTheSource
<1>7. PICK u \in Nat : u = SumFunction(GetALLVMs)
  BY <1>6, LoadsAreNat
<1>8. /\ PoliceTypeOK' /\ BeforeCollect'
      /\ RecordedNow' /\ RecordedAtFirst' /\ OnlyAdded' /\ OneEntryEach'
      /\ AllListed' /\ SourcesMigrate'
  <2>1. stage \in {"low", "high"} /\ to > 0 /\ to' \in 0..Len(ServerOPT)
    BY <1>1, <1>3, <1>5
  <2> QED  BY <1>1, <1>6, <2>1, MoveKeeps
<1>9. /\ \A i \in 1..Len(ServerOPT) : i # t => ServerOPT'[i] = ServerOPT[i]
      /\ ServerOPT'[t].utilizationCPU = load + u
  <2>1. to > 0
    BY <1>3, <1>5
  <2>2. /\ \A i \in 1..Len(ServerOPT) : i # to => ServerOPT'[i] = ServerOPT[i]
        /\ ServerOPT'[to].utilizationCPU
             = ServerOPT[to].utilizationCPU + SumFunction(GetALLVMs)
    BY <1>1, <1>6, <2>1, MoveToTarget
  <2> QED  BY <1>3, <1>4, <1>7, <2>2
<1>10. Rejected'
  BY <1>1 DEF Rejected
<1>11. f <= m /\ t # f /\ from' = f + 1 /\ to' = t /\ Len(VMsToMigrate') = m
  BY <1>1, <1>3
<1>12. f < t => u <= 3
  <2> SUFFICES ASSUME f < t PROVE u <= 3
    OBVIOUS
  <2>1. ServerOPT[f].utilizationCPU <= 3
    BY <1>3, <1>5, <1>11
  <2>2. Source = ServerOPT[f].server /\ f \in 1..Len(ServerOPT)
    BY <1>1, <1>3, SourceIsActive
  <2>3. ServerOPT[f].utilizationCPU = utilization(Source)
    BY <1>2, <2>2, Indices DEF RecordedNow
  <2>4. u = ServerOPT[f].utilizationCPU
    BY <1>6, <1>7, <2>3
  <2> QED  BY <1>4, <2>1, <2>4
<1>13. RoomLeft'
  <2> SUFFICES ASSUME f + 1 <= m
               PROVE  /\ t > 0
                      /\ \A i \in 1..m : i < t => ServerOPT'[i].utilizationCPU <= 3
                      /\ f + 1 <= t /\ t <= m => (f + 1) - 1 >= 2 * (m - t) + Taken(load + u)
                      /\ t < f + 1 => t >= (m - (f + 1)) + IF load + u > 6 THEN 2 ELSE 1
    BY <1>9, <1>11 DEF RoomLeft
  <2>1. \A i \in 1..m : i < t => ServerOPT'[i].utilizationCPU <= 3
    BY <1>3, <1>5, <1>9, SMTT(60)
  <2>2. ASSUME f + 1 <= t, t <= m
        PROVE  (f + 1) - 1 >= 2 * (m - t) + Taken(load + u)
    <3>1. f < t /\ f <= t
      BY <2>2
    <3>2. f - 1 >= 2 * (m - t) + Taken(load) /\ u <= 3
      BY <1>5, <1>12, <2>2, <3>1
    <3> QED  BY ONLY <3>2, f \in Nat, t \in Nat, m \in Nat, load \in Nat, u \in Nat, AheadMigrates
  <2>3. t < f + 1 => t >= (m - (f + 1)) + IF load + u > 6 THEN 2 ELSE 1
    BY <1>5, <1>11
  <2> QED  BY <1>5, <2>1, <2>2, <2>3
<1> QED  BY <1>8, <1>10, <1>13 DEF PoliceInv

LEMMA NextTargetLowInv ==
  ASSUME PoliceInv, NextTargetLow
  PROVE  PoliceInv'
<1>1. /\ stage = "low" /\ from <= Len(VMsToMigrate) /\ to # from /\ ~ Fits
      /\ to' = to - 1
      /\ UNCHANGED <<now, stage, isMigrating, isPOOL, vRunningVMs, ServerOPT,
                     VMsToMigrate, from, sumRemovePOOL>>
  BY DEF NextTargetLow
<1>2. /\ PoliceTypeOK /\ BeforeCollect /\ RecordedNow /\ RecordedAtFirst /\ OnlyAdded
      /\ OneEntryEach /\ AllListed /\ SourcesMigrate /\ RoomLeft
  BY DEF PoliceInv
<1>3. PICK m \in Nat, f \in Nat, t \in Nat :
        /\ m = Len(VMsToMigrate) /\ f = from /\ t = to /\ f >= 1 /\ t <= Len(ServerOPT)
        /\ m <= Len(ServerOPT)
  BY IndexValues
<1>4. PICK load \in Nat : load = ServerOPT[t].utilizationCPU
  <2>1. t > 0
    BY <1>1, <1>2, <1>3 DEF RoomLeft
  <2> QED  BY <1>2, <1>3, <2>1, Indices
<1>5. /\ t > 0
      /\ \A i \in 1..m : i < t => ServerOPT[i].utilizationCPU <= 3
      /\ f <= t /\ t <= m => f - 1 >= 2 * (m - t) + Taken(load)
      /\ t < f => t >= (m - f) + IF load > 6 THEN 2 ELSE 1
  BY <1>1, <1>2, <1>3, <1>4 DEF RoomLeft
<1>6. f <= m /\ f # t
  BY <1>1, <1>3
<1>7. load > 6
  <2>1. f \in DOMAIN VMsToMigrate
    BY <1>2, <1>3, <1>6, Indices
  <2>2. now.police = "low"
    BY <1>1, <1>2 DEF BeforeCollect
  <2>3. VMsToMigrate[f].utilizationCPU <= 3
    BY <1>2, <2>1, <2>2 DEF RecordedAtFirst
  <2>4. VMsToMigrate[f].utilizationCPU \in Nat
    BY <1>2, <1>3, <1>6, Indices
  <2>5. ~ (VMsToMigrate[f].utilizationCPU + load <= 9)
    BY <1>1, <1>3, <1>4 DEF Fits
  <2> QED  BY ONLY <2>3, <2>4, <2>5, load \in Nat
<1>8. RoomLeft'
  <2> SUFFICES /\ t - 1 > 0
               /\ \A i \in 1..m : i < t - 1 => ServerOPT[i].utilizationCPU <= 3
               /\ f <= t - 1 /\ t - 1 <= m =>
                    f - 1 >= 2 * (m - (t - 1)) + Taken(ServerOPT[t - 1].utilizationCPU)
               /\ t - 1 < f =>
                    t - 1 >= (m - f) + IF ServerOPT[t - 1].utilizationCPU > 6 THEN 2 ELSE 1
    BY <1>1, <1>3 DEF RoomLeft
  <2>1. \A i \in 1..m : i < t - 1 => ServerOPT[i].utilizationCPU <= 3
    BY <1>5
  <2>2. t - 1 > 0
    BY <1>3, <1>5, <1>6, <1>7
  <2>3. ASSUME t - 1 <= m
        PROVE  ServerOPT[t - 1].utilizationCPU <= 3 /\ ServerOPT[t - 1].utilizationCPU \in Nat
    <3>1. t - 1 \in 1..m /\ t - 1 < t /\ t - 1 \in 1..Len(ServerOPT)
      BY <1>3, <2>2, <2>3
    <3> QED  BY <1>2, <1>5, <3>1, Indices
  <2>4. ASSUME f <= t - 1, t - 1 <= m
        PROVE  f - 1 >= 2 * (m - (t - 1)) + Taken(ServerOPT[t - 1].utilizationCPU)
    <3>1. Taken(ServerOPT[t - 1].utilizationCPU) = 0 /\ Taken(load) = 2
      BY <1>7, <2>3, <2>4 DEF Taken
    <3>2. CASE t = m + 1
      BY <1>3, <3>1, <3>2
    <3>3. CASE t # m + 1
      <4>1. t <= m /\ f <= t
        BY <2>4, <3>3
      <4> QED  BY <1>5, <3>1, <4>1
    <3> QED  BY <3>2, <3>3
  <2>5. ASSUME t - 1 < f
        PROVE  t - 1 >= (m - f) + IF ServerOPT[t - 1].utilizationCPU > 6 THEN 2 ELSE 1
    <3>1. t < f
      BY <1>6, <2>5
    <3>2. ServerOPT[t - 1].utilizationCPU <= 3 /\ ServerOPT[t - 1].utilizationCPU \in Nat
      BY <1>6, <2>3, <3>1
    <3> QED  BY <1>5, <1>7, <3>1, <3>2
  <2> QED  BY <2>1, <2>2, <2>4, <2>5
<1>9. PoliceTypeOK'
  <2>1. to' \in 0..Len(ServerOPT)
    BY <1>1, <1>3, <1>5
  <2> QED  BY <1>1, <1>2, <2>1 DEF PoliceTypeOK
<1>10. BeforeCollect' /\ RecordedNow' /\ RecordedAtFirst' /\ OnlyAdded' /\ OneEntryEach'
  BY <1>1, <1>2 DEF BeforeCollect, RecordedNow, RecordedAtFirst, OnlyAdded, OneEntryEach,
                    utilization, Receivers
<1>11. AllListed' /\ Rejected'
  BY <1>1, <1>2 DEF AllListed, Listed, Sources, Rejected
<1>12. SourcesMigrate'
  <2>1. from' <= to' => from <= to
    BY <1>1, <1>3
  <2> QED  BY <1>1, <1>2, <2>1 DEF SourcesMigrate, Passed
<1> QED  BY <1>8, <1>9, <1>10, <1>11, <1>12 DEF PoliceInv

LEMMA NoTargetLowInv ==
  ASSUME PoliceInv, NoTargetLow
  PROVE  PoliceInv'
<1>1. /\ stage = "low" /\ from <= Len(VMsToMigrate) /\ to = from
      /\ from' = from + 1
      /\ UNCHANGED <<now, stage, isMigrating, isPOOL, vRunningVMs, ServerOPT,
                     VMsToMigrate, to, sumRemovePOOL>>
  BY DEF NoTargetLow
<1>2. /\ PoliceTypeOK /\ BeforeCollect /\ RecordedNow /\ RecordedAtFirst /\ OnlyAdded
      /\ OneEntryEach /\ AllListed /\ SourcesMigrate /\ RoomLeft
  BY DEF PoliceInv
<1>3. PICK m \in Nat, f \in Nat, t \in Nat :
        /\ m = Len(VMsToMigrate) /\ f = from /\ t = to /\ f >= 1 /\ t <= Len(ServerOPT)
        /\ m <= Len(ServerOPT)
  BY IndexValues
<1>4. f = t /\ f <= m /\ t \in 1..Len(ServerOPT)
  BY <1>1, <1>3
<1>5. PICK load \in Nat : load = ServerOPT[t].utilizationCPU
  BY <1>2, <1>4, Indices
<1>6. /\ f - 1 >= 2 * (m - t) + Taken(load)
      /\ \A i \in 1..m : i < t => ServerOPT[i].utilizationCPU <= 3
  BY <1>1, <1>2, <1>3, <1>4, <1>5 DEF RoomLeft
<1>7. t >= (m - (f + 1)) + IF load > 6 THEN 2 ELSE 1
  <2>1. CASE load > 6
    <3>1. Taken(load) = 2
      BY <2>1 DEF Taken
    <3> QED  BY <1>4, <1>6, <2>1, <3>1
  <2>2. CASE ~ (load > 6)
    <3>1. Taken(load) >= 0 /\ Taken(load) \in Int
      BY DEF Taken
    <3> QED  BY <1>4, <1>6, <2>2, <3>1
  <2> QED  BY <2>1, <2>2
<1>8. RoomLeft'
  <2> SUFFICES /\ t > 0
               /\ \A i \in 1..m : i < t => ServerOPT[i].utilizationCPU <= 3
               /\ ~ (f + 1 <= t)
               /\ t >= (m - (f + 1)) + IF load > 6 THEN 2 ELSE 1
    BY <1>1, <1>3, <1>5 DEF RoomLeft
  <2> QED  BY <1>3, <1>4, <1>6, <1>7
<1>9. Passed' = Passed \cup {Source} /\ from' \in 1..(Len(VMsToMigrate) + 1)
  BY <1>1, <1>2, NextSource
<1>10. PoliceTypeOK'
  BY <1>1, <1>2, <1>9 DEF PoliceTypeOK
<1>11. BeforeCollect' /\ RecordedNow' /\ RecordedAtFirst' /\ OnlyAdded' /\ OneEntryEach'
  BY <1>1, <1>2 DEF BeforeCollect, RecordedNow, RecordedAtFirst, OnlyAdded, OneEntryEach,
                    utilization, Receivers
<1>12. AllListed' /\ Rejected'
  BY <1>1, <1>2 DEF AllListed, Listed, Sources, Rejected
<1>13. SourcesMigrate'
  <2>1. Passed \subseteq isMigrating
    <3>1. from <= to
      BY <1>3, <1>4
    <3> QED  BY <1>1, <1>2, <3>1 DEF SourcesMigrate
  <2>2. ~ (from' <= to') /\ now.police # "high"
    BY <1>1, <1>2, <1>3 DEF BeforeCollect
  <2>3. Passed' \ isMigrating \subseteq {Source}
    BY <1>9, <2>1
  <2> QED  BY <1>1, <1>2, <1>9, <2>2, <2>3 DEF SourcesMigrate
<1> QED  BY <1>8, <1>10, <1>11, <1>12, <1>13 DEF PoliceInv

LEMMA MigrateHighInv ==
  ASSUME PoliceInv, MigrateHigh
  PROVE  PoliceInv'
<1>1. /\ stage = "high" /\ from <= Len(VMsToMigrate) /\ to > 0 /\ MoveShare
      /\ from' = from + 1 /\ to' = Len(ServerOPT)
      /\ UNCHANGED <<now, stage, isPOOL, VMsToMigrate, sumRemovePOOL>>
  BY DEF MigrateHigh
<1>2. PICK copies \in Seq(Nat) : Move(copies)
  BY <1>1, ShareOfTheSource
<1>3. /\ PoliceTypeOK' /\ BeforeCollect'
      /\ RecordedNow' /\ RecordedAtFirst' /\ OnlyAdded' /\ OneEntryEach'
      /\ AllListed' /\ SourcesMigrate'
  <2>1. stage \in {"low", "high"} /\ to' \in 0..Len(ServerOPT) /\ (stage = "low" => to' = to)
    BY <1>1, Indices DEF PoliceInv
  <2> QED  BY <1>1, <1>2, <2>1, MoveKeeps
<1>4. Len(ServerOPT') = Len(ServerOPT) /\ Len(ServerOPT) \in Nat
  BY <1>1, <1>2, MoveToTarget, Indices DEF PoliceInv
<1>5. Rejected'
  <2>1. (to' + 1)..Len(ServerOPT') = {}
    BY <1>1, <1>4
  <2> QED  BY <2>1 DEF Rejected
<1>6. RoomLeft'
  BY <1>1 DEF RoomLeft
<1> QED  BY <1>3, <1>5, <1>6 DEF PoliceInv

LEMMA NextTargetHighInv ==
  ASSUME PoliceInv, NextTargetHigh
  PROVE  PoliceInv'
<1>1. /\ stage = "high" /\ from <= Len(VMsToMigrate) /\ to > 0
      /\ (\E calcTemp \in Estimates(Target) : ~ (calcTemp <= 29 /\ Fits)) /\ to' = to - 1
      /\ UNCHANGED <<now, stage, isMigrating, isPOOL, vRunningVMs, ServerOPT,
                     VMsToMigrate, from, sumRemovePOOL>>
  BY DEF NextTargetHigh
<1>2. /\ PoliceTypeOK /\ BeforeCollect /\ RecordedNow /\ RecordedAtFirst /\ OnlyAdded
      /\ OneEntryEach /\ AllListed /\ SourcesMigrate /\ Rejected
  BY DEF PoliceInv
<1>3. /\ to \in 1..Len(ServerOPT) /\ Len(ServerOPT) \in Nat
      /\ ServerOPT[to].server \in Servers /\ ServerOPT[to].utilizationCPU \in Nat
  BY <1>1, <1>2, Indices
<1>4. CannotTake(ServerOPT[to])
  <2>1. now.supply[Target] \in Nat
    BY <1>2, <1>3, SituationTypes DEF Target
  <2>2. VMsToMigrate[from].utilizationCPU \in Nat
    BY <1>1, SourceIsActive
  <2> QED  BY <1>1, <1>3, <2>1, <2>2 DEF CannotTake, Estimates, Fits, Target
<1>5. Rejected'
  <2>1. \A i \in (to - 1 + 1)..Len(ServerOPT) : i = to \/ i \in (to + 1)..Len(ServerOPT)
    BY <1>3
  <2>2. \A i \in (to - 1 + 1)..Len(ServerOPT) : CannotTake(ServerOPT[i])
    BY <1>1, <1>2, <1>4, <2>1 DEF Rejected
  <2> QED  BY <1>1, <2>2 DEF Rejected, CannotTake
<1>6. RoomLeft'
  BY <1>1 DEF RoomLeft
<1>7. PoliceTypeOK'
  <2>1. to' \in 0..Len(ServerOPT)
    BY <1>1, <1>3
  <2> QED  BY <1>1, <1>2, <2>1 DEF PoliceTypeOK
<1>8. BeforeCollect' /\ RecordedNow' /\ RecordedAtFirst' /\ OnlyAdded' /\ OneEntryEach'
  BY <1>1, <1>2 DEF BeforeCollect, RecordedNow, RecordedAtFirst, OnlyAdded, OneEntryEach,
                    utilization, Receivers
<1>9. AllListed' /\ SourcesMigrate'
  BY <1>1, <1>2 DEF AllListed, Listed, Sources, SourcesMigrate, Passed
<1> QED  BY <1>5, <1>6, <1>7, <1>8, <1>9 DEF PoliceInv

LEMMA MigrateToPoolInv ==
  ASSUME PoliceInv, MigrateToPool
  PROVE  PoliceInv'
<1>1. /\ stage = "high" /\ from <= Len(VMsToMigrate) /\ to = 0
      /\ isMigrating' = isMigrating \cup {Source} /\ sumRemovePOOL' = sumRemovePOOL + 1
      /\ from' = from + 1 /\ to' = Len(ServerOPT')
      /\ UNCHANGED <<now, stage, VMsToMigrate>>
  BY DEF MigrateToPool
<1>2. PICK s \in Coldest :
        /\ isPOOL' = isPOOL \ {s}
        /\ vRunningVMs' = [vRunningVMs EXCEPT ![s] = @ \o GetALLVMs]
        /\ ServerOPT' = Append(ServerOPT,
                 [server |-> s, utilizationCPU |-> SumFunction(vRunningVMs'[s])])
  BY DEF MigrateToPool
<1>3. /\ PoliceTypeOK /\ BeforeCollect /\ RecordedNow /\ RecordedAtFirst /\ OnlyAdded
      /\ OneEntryEach /\ AllListed /\ SourcesMigrate
  BY DEF PoliceInv
<1>4. s \in isPOOL /\ s \in now.isPOOL /\ s \in Servers /\ s \notin now.active
  BY <1>3, SituationTypes DEF Coldest, PoliceTypeOK
<1>5. GetALLVMs \in Seq(Nat) /\ vRunningVMs \in [Servers -> Seq(Nat)]
  BY <1>1, <1>3, AllOfTheSource DEF PoliceTypeOK
<1>6. PICK u \in Nat : u = SumFunction(vRunningVMs'[s])
  <2>1. vRunningVMs'[s] \in Seq(Nat)
    BY <1>2, <1>4, <1>5, AddCopies
  <2> QED  BY <2>1, LoadsAreNat
<1>7. /\ vRunningVMs' \in [Servers -> Seq(Nat)]
      /\ \A t \in Servers \ {s} : vRunningVMs'[t] = vRunningVMs[t]
  BY <1>2, <1>4, <1>5, AddCopies, SMTT(60)
<1>8. PICK n \in Nat : n = Len(ServerOPT) /\ DOMAIN ServerOPT = 1..n
  BY <1>3, Indices
<1>9. PICK e \in Candidate : /\ e.server = s /\ e.utilizationCPU = u
                             /\ ServerOPT' = Append(ServerOPT, e)
  BY <1>2, <1>4, <1>6 DEF Candidate
<1>10. /\ ServerOPT' \in Seq(Candidate) /\ Len(ServerOPT') = n + 1
       /\ DOMAIN ServerOPT' = 1..(n + 1)
       /\ \A i \in 1..n : ServerOPT'[i] = ServerOPT[i]
       /\ ServerOPT'[n + 1] = e
  <2>1. ServerOPT \in Seq(Candidate)
    BY <1>3, Indices
  <2> QED  BY <1>8, <1>9, <2>1
<1>11. s \notin Listed
  BY <1>3, <1>4 DEF AllListed
<1>12. \A i \in 1..n : ServerOPT[i].server \in Servers /\ ServerOPT[i].server # s
  BY <1>3, <1>8, <1>11, Indices DEF Listed
<1>13. Source \in now.active
  BY <1>1, SourceIsActive
<1>14. Passed' = Passed \cup {Source} /\ from' \in 1..(Len(VMsToMigrate) + 1)
  BY <1>1, <1>3, NextSource
<1>15. PoliceTypeOK'
  <2>1. isMigrating' \subseteq now.active /\ isPOOL' \subseteq now.isPOOL
    BY <1>1, <1>2, <1>3, <1>13 DEF PoliceTypeOK
  <2>2. to' \in 0..Len(ServerOPT')
    BY <1>1, <1>10
  <2>3. sumRemovePOOL' \in Nat
    BY <1>1, <1>3 DEF PoliceTypeOK
  <2>4. VMsToMigrate' \in Seq(Candidate) /\ from' \in 1..(Len(VMsToMigrate') + 1)
    BY <1>1, <1>3, <1>14, Indices
  <2>5. now' \in Situations /\ now'.active = now.active /\ now'.isPOOL = now.isPOOL
        /\ stage' \in {"collect", "low", "high", "done"}
    BY <1>1, <1>3 DEF PoliceTypeOK
  <2> QED  BY ONLY <1>7, <1>10, <2>1, <2>2, <2>3, <2>4, <2>5 DEF PoliceTypeOK, Candidate
<1>16. BeforeCollect'
  BY <1>1, <1>3 DEF BeforeCollect
<1>17. RecordedNow'
  <2> SUFFICES ASSUME NEW i \in 1..(n + 1)
               PROVE  ServerOPT'[i].utilizationCPU = SumFunction(vRunningVMs'[ServerOPT'[i].server])
    BY <1>10 DEF RecordedNow, utilization
  <2>1. CASE i = n + 1
    BY <1>6, <1>9, <1>10, <2>1
  <2>2. CASE i # n + 1
    <3>1. i \in 1..n
      BY <2>2
    <3>2. ServerOPT[i].utilizationCPU = SumFunction(vRunningVMs[ServerOPT[i].server])
      BY <1>3, <1>8, <3>1 DEF RecordedNow, utilization
    <3> QED  BY <1>7, <1>10, <1>12, <3>1, <3>2
  <2> QED  BY <2>1, <2>2
<1>18. RecordedAtFirst'
  BY <1>1, <1>3 DEF RecordedAtFirst
<1>19. OnlyAdded'
  BY <1>1, <1>2, <1>3, <1>4, <1>5, AddsOnly
<1>20. OneEntryEach'
  <2>1. \A i, j \in 1..(n + 1) : ServerOPT'[i].server = ServerOPT'[j].server => i = j
    <3> SUFFICES ASSUME NEW i \in 1..(n + 1), NEW j \in 1..(n + 1),
                        ServerOPT'[i].server = ServerOPT'[j].server
                 PROVE  i = j
      OBVIOUS
    <3>1. \A k \in 1..(n + 1) : k \in 1..n \/ k = n + 1
      OBVIOUS
    <3>2. \A k \in 1..n : ServerOPT'[k].server # s
      BY <1>10, <1>12
    <3>3. ServerOPT'[n + 1].server = s
      BY <1>9, <1>10
    <3>4. CASE i \in 1..n /\ j \in 1..n
      BY <1>3, <1>8, <1>10, <3>4 DEF OneEntryEach
    <3> QED  BY <3>1, <3>2, <3>3, <3>4
  <2>2. Len(VMsToMigrate) \in Nat /\ DOMAIN VMsToMigrate = 1..Len(VMsToMigrate)
    BY <1>3, Indices
  <2>3. \A i \in DOMAIN VMsToMigrate : i \in 1..n
    BY <1>3, <1>8, <2>2 DEF OneEntryEach
  <2>4. Len(VMsToMigrate) <= n + 1
    BY <1>3, <1>8, <2>2 DEF OneEntryEach
  <2> QED  BY <1>1, <1>3, <1>10, <2>1, <2>3, <2>4 DEF OneEntryEach
<1>21. AllListed'
  <2>1. Listed' = Listed \cup {s}
    <3>1. \A k \in 1..(n + 1) : k \in 1..n \/ k = n + 1
      OBVIOUS
    <3>2. \A k \in 1..n : k \in 1..(n + 1)
      OBVIOUS
    <3>3. n + 1 \in 1..(n + 1)
      OBVIOUS
    <3> QED  BY <1>8, <1>9, <1>10, <3>1, <3>2, <3>3 DEF Listed
  <2>2. Sources' = Sources
    BY <1>1 DEF Sources
  <2>3. now.isPOOL \ isPOOL' = (now.isPOOL \ isPOOL) \cup {s}
    BY <1>2, <1>4
  <2> QED  BY <1>1, <1>3, <2>1, <2>2, <2>3 DEF AllListed
<1>22. SourcesMigrate'
  <2>1. now.police = "high"
    BY <1>1, <1>3 DEF BeforeCollect
  <2> QED  BY <1>1, <1>3, <1>14, <2>1 DEF SourcesMigrate
<1>23. Rejected'
  <2>1. (to' + 1)..Len(ServerOPT') = {}
    BY <1>1, <1>10
  <2> QED  BY <2>1 DEF Rejected
<1>24. RoomLeft'
  BY <1>1 DEF RoomLeft
<1> QED  BY <1>15, <1>16, <1>17, <1>18, <1>19, <1>20, <1>21, <1>22, <1>23, <1>24 DEF PoliceInv

(* How a pass ends. *)
Ended ==
  stage = "done" =>
    \/ from > Len(VMsToMigrate)
    \/ now.police = "high" /\ isPOOL = {}

LEMMA ReturnInv ==
  ASSUME PoliceInv, Return
  PROVE  PoliceInv'
<1>1. /\ stage' = "done"
      /\ UNCHANGED <<now, isMigrating, isPOOL, vRunningVMs, ServerOPT, VMsToMigrate,
                     from, to, sumRemovePOOL>>
      /\ stage \in {"low", "high"}
  BY DEF Return
<1>2. /\ PoliceTypeOK /\ BeforeCollect /\ RecordedNow /\ RecordedAtFirst /\ OnlyAdded
      /\ OneEntryEach /\ AllListed /\ SourcesMigrate
  BY DEF PoliceInv
<1>3. PoliceTypeOK'
  BY <1>1, <1>2 DEF PoliceTypeOK
<1>4. BeforeCollect' /\ RecordedNow' /\ RecordedAtFirst' /\ OnlyAdded' /\ OneEntryEach'
  BY <1>1, <1>2 DEF BeforeCollect, RecordedNow, RecordedAtFirst, OnlyAdded, OneEntryEach,
                    utilization, Receivers
<1>5. AllListed'
  BY <1>1, <1>2 DEF AllListed, Listed, Sources
<1>6. SourcesMigrate' /\ Rejected' /\ RoomLeft'
  BY <1>1, <1>2 DEF SourcesMigrate, Passed, Rejected, RoomLeft
<1> QED  BY <1>3, <1>4, <1>5, <1>6 DEF PoliceInv

LEMMA PoliceInitInv ==
  ASSUME PoliceInit
  PROVE  PoliceInv /\ Ended
<1>1. /\ now \in Situations /\ stage = "collect" /\ isMigrating = {} /\ isPOOL = now.isPOOL
      /\ vRunningVMs = now.vms /\ ServerOPT = <<>> /\ VMsToMigrate = <<>>
      /\ from = 1 /\ to = 0 /\ sumRemovePOOL = 0
  BY DEF PoliceInit
<1>2. Len(<<>>) = 0 /\ 0 \in Nat /\ 1 \in 1..1 /\ 0 \in 0..0 /\ DOMAIN <<>> = {} /\ 1 - 1 = 0
  OBVIOUS
<1>3. now.vms \in [Servers -> Seq(Nat)]
  BY <1>1, SituationAssumption
<1>4. PoliceTypeOK
  BY <1>1, <1>3 DEF PoliceTypeOK
<1>5. BeforeCollect
  BY <1>1 DEF BeforeCollect
<1>6. RecordedNow /\ RecordedAtFirst /\ OneEntryEach
  BY <1>1, <1>2 DEF RecordedNow, RecordedAtFirst, OneEntryEach
<1>7. OnlyAdded
  <2> SUFFICES ASSUME NEW s \in Servers PROVE Len(now.vms[s]) <= Len(now.vms[s])
    BY <1>1 DEF OnlyAdded
  <2>1. Len(now.vms[s]) \in Nat
    BY <1>3
  <2> QED  BY <2>1
<1>8. AllListed
  BY <1>1, <1>2 DEF AllListed, Listed
<1>9. SourcesMigrate
  <2>1. Passed = {}
    BY <1>1, <1>2 DEF Passed
  <2> QED  BY <1>1, <2>1 DEF SourcesMigrate
<1>10. Rejected /\ RoomLeft /\ Ended
  BY <1>1 DEF Rejected, RoomLeft, Ended
<1> QED  BY <1>4, <1>5, <1>6, <1>7, <1>8, <1>9, <1>10 DEF PoliceInv

LEMMA StutterInv ==
  ASSUME PoliceInv, UNCHANGED policeVars
  PROVE  PoliceInv'
<1>1. /\ PoliceTypeOK /\ BeforeCollect /\ RecordedNow /\ RecordedAtFirst /\ OnlyAdded
      /\ OneEntryEach /\ AllListed /\ SourcesMigrate /\ Rejected /\ RoomLeft
  BY DEF PoliceInv
<1>2. UNCHANGED <<now, stage, isMigrating, isPOOL, vRunningVMs, ServerOPT, VMsToMigrate,
                  from, to, sumRemovePOOL>>
  BY DEF policeVars
<1>3. PoliceTypeOK'
  BY <1>1, <1>2 DEF PoliceTypeOK
<1>4. BeforeCollect' /\ RecordedNow' /\ RecordedAtFirst' /\ OnlyAdded' /\ OneEntryEach'
  BY <1>1, <1>2 DEF BeforeCollect, RecordedNow, RecordedAtFirst, OnlyAdded, OneEntryEach,
                    utilization, Receivers
<1>5. AllListed' /\ SourcesMigrate'
  BY <1>1, <1>2 DEF AllListed, Listed, Sources, SourcesMigrate, Passed
<1>6. Rejected' /\ RoomLeft'
  BY <1>1, <1>2 DEF Rejected, RoomLeft, CannotTake
<1> QED  BY <1>3, <1>4, <1>5, <1>6 DEF PoliceInv

LEMMA PoliceNextInv ==
  ASSUME PoliceInv, Ended, [PoliceNext]_policeVars
  PROVE  PoliceInv' /\ Ended'
<1>1. PoliceInv'
  BY CollectInv, MigrateLowInv, NextTargetLowInv, NoTargetLowInv, MigrateHighInv,
     NextTargetHighInv, MigrateToPoolInv, ReturnInv, StutterInv DEF PoliceNext
<1>2. Ended'
  <2>1. CASE Return
    BY <2>1 DEF PoliceInv, BeforeCollect, Return, Ended
  <2>2. CASE UNCHANGED policeVars
    BY <2>2 DEF policeVars, Ended
  <2>3. CASE Collect
    <3>1. now.police \in {"low", "high"}
      BY SituationTypes DEF PoliceInv
    <3> QED  BY <2>3, <3>1 DEF Collect, Ended
  <2>4. CASE MigrateLow \/ NextTargetLow \/ NoTargetLow
    BY <2>4 DEF MigrateLow, NextTargetLow, NoTargetLow, Ended
  <2>5. CASE MigrateHigh \/ NextTargetHigh \/ MigrateToPool
    BY <2>5 DEF MigrateHigh, NextTargetHigh, MigrateToPool, Ended
  <2> QED  BY <2>1, <2>2, <2>3, <2>4, <2>5 DEF PoliceNext
<1> QED  BY <1>1, <1>2

LEMMA PoliceSpecInv == PoliceSpec => [](PoliceInv /\ Ended)
<1>1. PoliceInv /\ Ended /\ [PoliceNext]_policeVars => (PoliceInv /\ Ended)'
  BY PoliceNextInv
<1> QED  BY <1>1, PoliceInitInv, PTL DEF PoliceSpec

(* PoliceLowUtilization never leaves the vector of candidates: RoomLeft.   *)
THEOREM TargetsInRange == PoliceSpec => []InRange
<1>1. PoliceInv /\ Ended => InRange
  BY DEF PoliceInv, RoomLeft, InRange
<1> QED  BY <1>1, PoliceSpecInv, PTL

LEMMA AtTheEnd ==
  ASSUME PoliceInv, Ended
  PROVE  PassComplete
<1> SUFFICES ASSUME stage = "done"
             PROVE  IF now.police = "low"
                    THEN Cardinality(Sources \ isMigrating) <= 1
                    ELSE isPOOL = {} \/ \A s \in now.active :
                                          now.inlet[s] > 29 => s \in isMigrating
  BY DEF PassComplete
<1>1. PoliceTypeOK /\ AllListed /\ SourcesMigrate
  BY DEF PoliceInv
<1>2. now.police \in {"low", "high"}
  BY <1>1, SituationTypes
<1>3. ASSUME from > Len(VMsToMigrate)
      PROVE  Sources = Passed
  <2>1. /\ from \in 1..(Len(VMsToMigrate) + 1) /\ Len(VMsToMigrate) \in Nat
        /\ DOMAIN VMsToMigrate = 1..Len(VMsToMigrate)
    BY <1>1, Indices
  <2>2. from - 1 = Len(VMsToMigrate)
    BY <1>3, <2>1
  <2> QED  BY <2>1, <2>2 DEF Sources, Passed
<1>4. CASE now.police = "low"
  <2>1. \A s, t \in Sources \ isMigrating : s = t
    BY <1>1, <1>3, <1>4 DEF SourcesMigrate, Ended
  <2>2. Sources \ isMigrating = {} \/ \E s : Sources \ isMigrating = {s}
    BY <2>1
  <2>3. CASE Sources \ isMigrating = {}
    <3>1. Cardinality(Sources \ isMigrating) = 0
      BY <2>3, FS_EmptySet
    <3> QED  BY <1>4, <3>1
  <2>4. CASE \E s : Sources \ isMigrating = {s}
    <3>1. Cardinality(Sources \ isMigrating) = 1
      BY <2>4, FS_Singleton
    <3> QED  BY <1>4, <3>1
  <2> QED  BY <2>2, <2>3, <2>4
<1>5. CASE now.police = "high" /\ isPOOL # {}
  <2>1. Sources \subseteq isMigrating
    BY <1>1, <1>3, <1>5 DEF SourcesMigrate, Ended
  <2> QED  BY <1>1, <1>5, <2>1 DEF AllListed
<1> QED  BY <1>2, <1>4, <1>5

(* A pass empties all lightly loaded servers but one, and marks every hot  *)
(* server: SourcesMigrate where the loop ends.                             *)
THEOREM PassesComplete == PoliceSpec => []PassComplete
BY AtTheEnd, PoliceSpecInv, PTL


(* What a target has after a move, and what it is that takes no more.      *)
LimitedStep ==
  /\ \A s \in Servers :
       utilization(s)' > utilization(s) /\ utilization(s)' > 9 =>
         Source \in Receivers \/ s \in isPOOL
  /\ isPOOL' # isPOOL =>
       \A s \in now.active \cup (now.isPOOL \ isPOOL) :
         \/ now.supply[s] > 29 \/ s \in now.beyond
         \/ utilization(s) + VMsToMigrate[from].utilizationCPU > 9

LEMMA NothingMoves ==
  ASSUME PoliceInv, UNCHANGED <<vRunningVMs, isPOOL>>
  PROVE  LimitedStep
<1>1. \A s \in Servers : utilization(s)' = utilization(s) /\ utilization(s) \in Nat
  <2> SUFFICES ASSUME NEW s \in Servers
               PROVE  utilization(s)' = utilization(s) /\ utilization(s) \in Nat
    OBVIOUS
  <2>1. vRunningVMs[s] \in Seq(Nat)
    BY DEF PoliceInv, PoliceTypeOK
  <2> QED  BY <2>1, LoadsAreNat DEF utilization
<1>2. \A s \in Servers : ~ (utilization(s)' > utilization(s))
  BY <1>1
<1> QED  BY <1>2 DEF LimitedStep

LEMMA FitsTheTarget ==
  ASSUME PoliceInv, from <= Len(VMsToMigrate), to > 0, Fits, UNCHANGED isPOOL,
         NEW copies \in Seq(Nat), Move(copies), SumFunction(copies) <= utilization(Source)
  PROVE  LimitedStep
<1>1. PoliceTypeOK /\ RecordedNow /\ RecordedAtFirst /\ OnlyAdded
  BY DEF PoliceInv
<1>2. /\ from \in DOMAIN VMsToMigrate /\ Source \in Servers
      /\ VMsToMigrate[from].utilizationCPU \in Nat
  BY SourceIsActive
<1>3. to \in 1..Len(ServerOPT) /\ to \in DOMAIN ServerOPT /\ Target \in Servers
      /\ ServerOPT[to].utilizationCPU \in Nat
  BY <1>1, Indices DEF Target
<1>4. ServerOPT[to].utilizationCPU = utilization(Target)
  BY <1>1, <1>3 DEF RecordedNow, Target
<1>5. vRunningVMs \in [Servers -> Seq(Nat)]
      /\ vRunningVMs' = [vRunningVMs EXCEPT ![Target] = @ \o copies]
  BY <1>1 DEF PoliceTypeOK, Move
<1>6. /\ SumFunction(vRunningVMs'[Target]) = utilization(Target) + SumFunction(copies)
      /\ utilization(Target) \in Nat /\ SumFunction(copies) \in Nat
      /\ \A s \in Servers \ {Target} : vRunningVMs'[s] = vRunningVMs[s]
  BY ONLY <1>3, <1>5, AddCopies, copies \in Seq(Nat) DEF utilization
<1>7. utilization(Source) \in Nat
  BY AllOfTheSource
<1>8. ASSUME Source \notin Receivers
      PROVE  utilization(Source) = VMsToMigrate[from].utilizationCPU
  <2>1. vRunningVMs[Source] = now.vms[Source]
    BY <1>1, <1>2, <1>8 DEF OnlyAdded
  <2> QED  BY <1>1, <1>2, <2>1 DEF RecordedAtFirst, Source, utilization
<1>9. VMsToMigrate[from].utilizationCPU + ServerOPT[to].utilizationCPU <= 9
  BY DEF Fits
<1>10. ASSUME NEW s \in Servers, utilization(s)' > utilization(s), utilization(s)' > 9
       PROVE  Source \in Receivers
  <2>1. s = Target
    <3>1. CASE s # Target
      <4>1. utilization(s)' = utilization(s) /\ utilization(s) \in Nat
        BY <1>5, <1>6, <3>1, LoadsAreNat DEF utilization
      <4> QED  BY <1>10, <4>1
    <3> QED  BY <3>1
  <2>2. utilization(Target) + SumFunction(copies) > 9
    <3>1. utilization(s)' = SumFunction(vRunningVMs'[s])
      BY DEF utilization
    <3> QED  BY <1>6, <1>10, <2>1, <3>1
  <2> SUFFICES ASSUME Source \notin Receivers PROVE FALSE
    OBVIOUS
  <2>3. utilization(Source) = VMsToMigrate[from].utilizationCPU
    BY <1>8
  <2> QED  BY <1>2, <1>4, <1>6, <1>7, <1>9, <2>2, <2>3
<1> QED  BY <1>10 DEF LimitedStep

LEMMA FromThePoolLast ==
  ASSUME PoliceInv, MigrateToPool
  PROVE  LimitedStep
<1>1. /\ stage = "high" /\ from <= Len(VMsToMigrate) /\ to = 0
  BY DEF MigrateToPool
<1>2. PICK s \in Coldest : vRunningVMs' = [vRunningVMs EXCEPT ![s] = @ \o GetALLVMs]
  BY DEF MigrateToPool
<1>3. /\ PoliceTypeOK /\ BeforeCollect /\ RecordedNow /\ AllListed /\ Rejected
  BY DEF PoliceInv
<1>4. s \in isPOOL /\ s \in Servers
  BY <1>2, <1>3, SituationTypes DEF Coldest, PoliceTypeOK
<1>5. GetALLVMs \in Seq(Nat) /\ vRunningVMs \in [Servers -> Seq(Nat)]
  BY <1>1, <1>3, AllOfTheSource DEF PoliceTypeOK
<1>6. ASSUME NEW t \in Servers, t # s
      PROVE  ~ (utilization(t)' > utilization(t))
  <2>1. vRunningVMs'[t] = vRunningVMs[t] /\ vRunningVMs[t] \in Seq(Nat)
    BY <1>2, <1>4, <1>5, <1>6, AddCopies
  <2>2. utilization(t)' = utilization(t) /\ utilization(t) \in Nat
    BY <2>1, LoadsAreNat DEF utilization
  <2> QED  BY <2>2
<1>7. ASSUME NEW t \in now.active \cup (now.isPOOL \ isPOOL)
      PROVE  \/ now.supply[t] > 29 \/ t \in now.beyond
             \/ utilization(t) + VMsToMigrate[from].utilizationCPU > 9
  <2>1. now.police = "high" /\ stage # "collect"
    BY <1>1, <1>3 DEF BeforeCollect
  <2>2. PICK i \in DOMAIN ServerOPT : ServerOPT[i].server = t
    BY <1>3, <2>1 DEF AllListed, Listed
  <2>3. i \in (to + 1)..Len(ServerOPT) /\ ServerOPT[i].utilizationCPU \in Nat
    BY <1>1, <1>3, Indices
  <2>4. CannotTake(ServerOPT[i])
    BY <1>1, <1>3, <2>3 DEF Rejected
  <2>5. ServerOPT[i].utilizationCPU = utilization(t)
    BY <1>3, <2>2 DEF RecordedNow
  <2>6. VMsToMigrate[from].utilizationCPU \in Nat
    BY <1>1, SourceIsActive
  <2> QED  BY <2>2, <2>3, <2>4, <2>5, <2>6 DEF CannotTake
<1> QED  BY <1>4, <1>6, <1>7 DEF LimitedStep

LEMMA StepsAreLimited ==
  ASSUME PoliceInv, [PoliceNext]_policeVars
  PROVE  LimitedStep
<1>1. CASE MigrateLow
  <2>1. /\ stage = "low" /\ from <= Len(VMsToMigrate) /\ Fits /\ Move(GetALLVMs)
        /\ UNCHANGED isPOOL
    BY <1>1 DEF MigrateLow
  <2>2. to > 0
    BY <2>1 DEF PoliceInv, RoomLeft
  <2>3. GetALLVMs \in Seq(Nat) /\ SumFunction(GetALLVMs) <= utilization(Source)
    BY <2>1, AllOfTheSource
  <2> QED  BY ONLY PoliceInv, <2>1, <2>2, <2>3, FitsTheTarget
<1>2. CASE MigrateHigh
  <2>1. /\ from <= Len(VMsToMigrate) /\ to > 0 /\ Fits /\ MoveShare /\ UNCHANGED isPOOL
    BY <1>2 DEF MigrateHigh
  <2>2. PICK copies \in Seq(Nat) : Move(copies) /\ SumFunction(copies) <= utilization(Source)
    BY <2>1, ShareOfTheSource
  <2> QED  BY ONLY PoliceInv, <2>1, <2>2, FitsTheTarget
<1>3. CASE MigrateToPool
  BY <1>3, FromThePoolLast
<1>4. CASE Collect \/ NextTargetLow \/ NoTargetLow \/ NextTargetHigh \/ Return \/ UNCHANGED policeVars
  <2>1. UNCHANGED <<vRunningVMs, isPOOL>>
    BY <1>4 DEF Collect, NextTargetLow, NoTargetLow, NextTargetHigh, Return, policeVars
  <2> QED  BY <2>1, NothingMoves
<1> QED  BY <1>1, <1>2, <1>3, <1>4 DEF PoliceNext

(* No move loads its target above 90% but where the source had been a      *)
(* target; none is taken from the pool while a candidate has room: the     *)
(* candidates' utilisations are recorded as they are, and the search has   *)
(* rejected all of them.                                                   *)
THEOREM MovesLimited == PoliceSpec => TargetsLimited
<1>1. PoliceInv /\ Ended /\ [PoliceNext]_policeVars => [LimitedStep]_policeVars
  BY StepsAreLimited
<1>2. TargetsLimited <=> [][LimitedStep]_policeVars
  BY PTL DEF TargetsLimited, LimitedStep
<1> QED  BY <1>1, <1>2, PoliceSpecInv, PTL DEF PoliceSpec


-----------------------------------------------------------------------------
(* The servers, as ServersPool sees them. *)

Loaded == {s \in Servers : vRunningVMs[s] # <<>>}

Pooled == [s \in Servers |-> IF s \in isPOOL THEN 1 ELSE 0]

LEMMA PoolCardinality == \A S : Pool!Cardinality(S) = Cardinality(S)
BY DEF Cardinality, Pool!Cardinality

LEMMA CollectImplements ==
  ASSUME PoliceInv, Collect
  PROVE  Pool!PoliceLowUtilization \/ Pool!PoliceHighTemperature
<1>0. PICK order \in Seq(Servers), m \in Nat, n \in Nat, e \in Nat : CollectedAs(order, m, n, e)
  BY Collected
<1>1. /\ \A i, j \in 1..n : order[i] = order[j] => i = j
      /\ \A i \in 1..n : order[i] \in Candidates
      /\ \A s \in Candidates : \E i \in 1..n : order[i] = s
      /\ ServerOPT' \in Seq(Candidate) /\ Len(ServerOPT') = n
      /\ \A i \in 1..n : ServerOPT'[i].server = order[i]
      /\ VMsToMigrate' \in Seq(Candidate) /\ Len(VMsToMigrate') = e
      /\ \A i \in 1..e : VMsToMigrate'[i] = ServerOPT'[i]
      /\ m <= n
      /\ e = IF now.police = "low" /\ m <= 1 THEN 0 ELSE m
  BY <1>0 DEF CollectedAs
<1>2. e <= n /\ (now.police = "low" => e # 1)
  BY <1>1
<1>3. /\ PoliceTypeOK /\ BeforeCollect /\ stage = "collect"
      /\ stage' = now.police /\ now.police \in {"low", "high"}
      /\ UNCHANGED <<now, isMigrating, isPOOL, vRunningVMs, sumRemovePOOL>>
  BY SituationTypes DEF PoliceInv, Collect
<1>4. isMigrating = {} /\ isPOOL = now.isPOOL /\ vRunningVMs = now.vms
  BY <1>3 DEF BeforeCollect
<1>5. DOMAIN ServerOPT' = 1..n /\ DOMAIN VMsToMigrate' = 1..e
  <2>1. \A q \in Seq(Candidate) : DOMAIN q = 1..Len(q)
    OBVIOUS
  <2> QED  BY ONLY <1>1, <2>1
<1>6. Listed = {} /\ Sources = {}
  BY <1>3 DEF BeforeCollect, Listed, Sources
<1>7. Listed' = Candidates
  <2>1. \A i \in 1..n : ServerOPT'[i].server \in Candidates
    BY <1>1
  <2>2. \A s \in Candidates : \E i \in 1..n : ServerOPT'[i].server = s
    BY <1>1
  <2> QED  BY <1>5, <2>1, <2>2 DEF Listed
<1>8. Sources' = {order[i] : i \in 1..e}
  <2>1. \A i \in 1..e : VMsToMigrate'[i].server = order[i]
    BY <1>1, <1>2
  <2> QED  BY <1>5, <2>1 DEF Sources
<1>9. Sources' \subseteq Candidates
  BY <1>1, <1>2, <1>8
<1>10. now.active \subseteq Servers /\ now.active \cap now.isPOOL = {}
       /\ now.isPOOL \subseteq Servers
  BY <1>3, SituationTypes
<1>11. Pool!Active = now.active
  BY <1>4, <1>10 DEF Pool!Active
<1>12. Pool!Due(1)
  BY DEF Pool!Due
<1>13. Sources' \ isMigrating' = Sources' /\ Sources \ isMigrating = {}
  BY <1>3, <1>4, <1>6
<1>14. CASE now.police = "low"
  <2>1. Candidates = now.active \cap Loaded
    <3> SUFFICES ASSUME NEW s \in now.active
                 PROVE  utilization(s) > 0 <=> vRunningVMs[s] # <<>>
      BY <1>10, <1>14 DEF Candidates, Loaded
    <3>1. vRunningVMs[s] \in Seq(Nat \ {0})
      BY <1>3, <1>4, <1>10, SituationTypes
    <3> QED  BY <3>1, NoLoad DEF utilization
  <2>2. Cardinality(Sources') # 1
    <3>1. CASE e = 0
      <4>1. Sources' = {}
        BY <1>8, <3>1
      <4> QED  BY <4>1, FS_EmptySet
    <3>2. CASE e # 0
      <4>1. 1 \in 1..e /\ 2 \in 1..e /\ 1 \in 1..n /\ 2 \in 1..n
        BY <1>2, <1>14, <3>2
      <4>2. order[1] # order[2] /\ order[1] \in Sources' /\ order[2] \in Sources'
        BY <1>1, <1>8, <4>1
      <4>3. IsFiniteSet(Sources')
        <5>1. Sources' \subseteq Servers /\ IsFiniteSet(Servers)
          BY <1>3, <1>9, <1>10, SituationTypes DEF Candidates
        <5> QED  BY <5>1, FS_Subset
      <4>4. Cardinality(Sources') = 1 => \E x : Sources' = {x}
        BY <4>3, FS_Singleton
      <4> QED  BY <4>2, <4>4
    <3> QED  BY <3>1, <3>2
  <2>3. Phase = "low" /\ Phase' = "migrateLow"
    BY <1>3, <1>14 DEF Phase
  <2>4. stage # "done" /\ stage' # "done"
    BY <1>3
  <2>5. /\ Listed' = Pool!Active \cap Loaded
        /\ Sources' \ isMigrating' \in {V \in SUBSET Listed' : Pool!Cardinality(V) # 1}
    BY <1>7, <1>9, <1>11, <1>13, <2>1, <2>2, PoolCardinality
  <2>6. Loaded' = Loaded /\ Pooled' = Pooled
    BY <1>3 DEF Loaded, Pooled
  <2>7. Pool!PoliceLowUtilization
    BY <1>3, <1>12, <2>3, <2>4, <2>5, <2>6
    DEF Pool!PoliceLowUtilization, Pool!flags, Pool!vectors, Loaded, Pooled
  <2> QED  BY <2>7
<1>15. CASE now.police = "high"
  <2>1. Candidates = now.active
    BY <1>15 DEF Candidates
  <2>2. Phase = "high" /\ Phase' = "migrateHigh"
    BY <1>3, <1>15 DEF Phase
  <2>3. stage # "done" /\ stage' # "done"
    BY <1>3
  <2>4. Pool!PoliceHighTemperature
    BY <1>3, <1>7, <1>9, <1>11, <1>12, <1>13, <2>1, <2>2, <2>3
    DEF Pool!PoliceHighTemperature, Pool!flags, Pool!vectors
  <2> QED  BY <2>4
<1> QED  BY <1>3, <1>14, <1>15

(* The source of a move has not been emptied yet. *)
LEMMA SourceIsLeft ==
  ASSUME PoliceInv, from <= Len(VMsToMigrate)
  PROVE  Source \in Sources /\ Source \notin isMigrating
<1>1. /\ PoliceTypeOK /\ OneEntryEach /\ isMigrating \subseteq Passed
  BY DEF PoliceInv, SourcesMigrate
<1>2. /\ from \in 1..Len(VMsToMigrate) /\ from \in DOMAIN VMsToMigrate
      /\ Len(VMsToMigrate) \in Nat /\ DOMAIN VMsToMigrate = 1..Len(VMsToMigrate)
      /\ DOMAIN ServerOPT = 1..Len(ServerOPT) /\ Len(ServerOPT) \in Nat
  BY <1>1, SourceIsActive, Indices
<1>3. ASSUME NEW i \in 1..(from - 1)
      PROVE  VMsToMigrate[i].server # Source
  <2>1. i \in DOMAIN VMsToMigrate /\ i # from
    BY <1>2
  <2>2. i \in DOMAIN ServerOPT /\ from \in DOMAIN ServerOPT
    BY <1>1, <1>2, <2>1 DEF OneEntryEach
  <2> QED  BY <1>1, <1>2, <2>1, <2>2 DEF OneEntryEach, Source
<1>4. Source \notin Passed
  BY <1>3 DEF Passed
<1> QED  BY <1>1, <1>2, <1>4 DEF Sources, Source

(* Copies, of a source that runs anything, make a server run VMs. *)
LEMMA CopiesLoad ==
  ASSUME PoliceInv, from <= Len(VMsToMigrate), NEW t \in Servers, NEW copies \in Seq(Nat),
         vRunningVMs' = [vRunningVMs EXCEPT ![t] = @ \o copies],
         GetALLVMs = <<>> => copies = <<>>
  PROVE  Loaded' = Loaded \/ (Source \in Loaded /\ Loaded' = Loaded \cup {t})
<1>1. vRunningVMs \in [Servers -> Seq(Nat)] /\ Source \in Servers
  BY SourceIsActive DEF PoliceInv, PoliceTypeOK
<1>2. /\ vRunningVMs'[t] = vRunningVMs[t] \o copies
      /\ Len(vRunningVMs'[t]) = Len(vRunningVMs[t]) + Len(copies)
      /\ vRunningVMs' \in [Servers -> Seq(Nat)]
      /\ \A s \in Servers \ {t} : vRunningVMs'[s] = vRunningVMs[s]
  BY <1>1, AddCopies
<1>3. CASE copies = <<>>
  <2>1. vRunningVMs[t] \o copies = vRunningVMs[t]
    BY <1>1, <1>3
  <2>2. \A s \in Servers : vRunningVMs'[s] = vRunningVMs[s]
    BY <1>2, <2>1
  <2> QED  BY <2>2 DEF Loaded
<1>4. CASE copies # <<>>
  <2>1. Source \in Loaded
    BY <1>1, <1>4 DEF Loaded, GetALLVMs
  <2>2. vRunningVMs'[t] # <<>>
    <3>1. Len(copies) \in Nat /\ Len(copies) # 0 /\ Len(vRunningVMs[t]) \in Nat
      BY <1>1, <1>4
    <3>2. Len(vRunningVMs'[t]) # 0
      BY <1>2, <3>1
    <3> QED  BY <3>2
  <2>3. Loaded' = Loaded \cup {t}
    BY <1>2, <2>2 DEF Loaded
  <2> QED  BY <2>1, <2>3
<1> QED  BY <1>3, <1>4

LEMMA MoveImplements ==
  ASSUME PoliceInv, stage \in {"low", "high"}, stage = "low" => to # from,
         from <= Len(VMsToMigrate), to > 0,
         NEW copies \in Seq(Nat), Move(copies), GetALLVMs = <<>> => copies = <<>>,
         UNCHANGED <<now, stage, isPOOL, VMsToMigrate, sumRemovePOOL>>, from' = from + 1
  PROVE  \E s, t \in Servers : Pool!MigrateToServer(s, t)
<1>1. PoliceTypeOK /\ OneEntryEach
  BY DEF PoliceInv
<1>2. /\ Len(ServerOPT') = Len(ServerOPT) /\ to \in 1..Len(ServerOPT)
      /\ \A i \in 1..Len(ServerOPT) : ServerOPT'[i].server = ServerOPT[i].server
      /\ ServerOPT' \in Seq(Candidate) /\ Target \in Servers
  BY MoveToTarget
<1>3. DOMAIN ServerOPT' = 1..Len(ServerOPT) /\ DOMAIN ServerOPT = 1..Len(ServerOPT)
  <2>1. \A q \in Seq(Candidate) : DOMAIN q = 1..Len(q)
    OBVIOUS
  <2> QED  BY <1>1, <1>2, <2>1, Indices
<1>4. Listed' = Listed /\ Target \in Listed
  BY <1>2, <1>3 DEF Listed, Target
<1>5. Source \in Sources /\ Source \notin isMigrating
  BY SourceIsLeft
<1>6. isMigrating' = isMigrating \cup {Source}
      /\ vRunningVMs' = [vRunningVMs EXCEPT ![Target] = @ \o copies]
  BY DEF Move
<1>7. Loaded' = Loaded \/ (Source \in Loaded /\ Loaded' = Loaded \cup {Target})
  BY <1>2, <1>6, CopiesLoad
<1>8. Sources' = Sources
  BY DEF Sources
<1>9. stage = "low" => Source # Target
  BY <1>1, <1>2, <1>3, SourceIsActive DEF OneEntryEach, Target
<1>10. /\ stage = "low" => Phase = "migrateLow"
       /\ stage = "high" => Phase = "migrateHigh"
       /\ Phase' = Phase
  BY DEF Phase
<1>11. stage # "done" /\ stage' # "done"
  OBVIOUS
<1>12. PICK s \in Servers, t \in Servers : s = Source /\ t = Target
  BY <1>2, SourceIsActive
<1>13. Pool!MigrateToServer(s, t)
  BY <1>4, <1>5, <1>6, <1>7, <1>8, <1>9, <1>10, <1>11, <1>12
  DEF Pool!MigrateToServer, Pool!MoveVMs, Pool!vectors, Loaded
<1> QED  BY <1>13

LEMMA PoolImplements ==
  ASSUME PoliceInv, MigrateToPool
  PROVE  \E s, t \in Servers : Pool!MigrateToPool(s, t)
<1>1. /\ stage = "high" /\ from <= Len(VMsToMigrate)
      /\ isMigrating' = isMigrating \cup {Source} /\ sumRemovePOOL' = sumRemovePOOL + 1
      /\ UNCHANGED <<now, stage, VMsToMigrate>>
  BY DEF MigrateToPool
<1>2. PICK s \in Coldest :
        /\ isPOOL' = isPOOL \ {s}
        /\ vRunningVMs' = [vRunningVMs EXCEPT ![s] = @ \o GetALLVMs]
        /\ ServerOPT' = Append(ServerOPT,
                 [server |-> s, utilizationCPU |-> SumFunction(vRunningVMs'[s])])
  BY DEF MigrateToPool
<1>3. PoliceTypeOK
  BY DEF PoliceInv
<1>4. s \in isPOOL /\ s \in Servers
  BY <1>2, <1>3, SituationTypes DEF Coldest, PoliceTypeOK
<1>5. GetALLVMs \in Seq(Nat) /\ vRunningVMs \in [Servers -> Seq(Nat)]
  BY <1>1, <1>3, AllOfTheSource DEF PoliceTypeOK
<1>6. Loaded' = Loaded \/ (Source \in Loaded /\ Loaded' = Loaded \cup {s})
  BY <1>1, <1>2, <1>4, <1>5, CopiesLoad
<1>7. SumFunction(vRunningVMs'[s]) \in Nat
  <2>1. vRunningVMs'[s] \in Seq(Nat)
    BY <1>2, <1>4, <1>5, AddCopies
  <2> QED  BY <2>1, LoadsAreNat
<1>8. PICK n \in Nat : n = Len(ServerOPT) /\ DOMAIN ServerOPT = 1..n
  BY <1>3, Indices
<1>9. PICK c \in Candidate : c.server = s /\ ServerOPT' = Append(ServerOPT, c)
  BY <1>2, <1>4, <1>7 DEF Candidate
<1>10. /\ DOMAIN ServerOPT' = 1..(n + 1)
       /\ \A i \in 1..n : ServerOPT'[i] = ServerOPT[i]
       /\ ServerOPT'[n + 1] = c
  <2>1. ServerOPT \in Seq(Candidate)
    BY <1>3, Indices
  <2> QED  BY <1>8, <1>9, <2>1
<1>11. Listed' = Listed \cup {s}
  <2>1. \A k \in 1..(n + 1) : k \in 1..n \/ k = n + 1
    OBVIOUS
  <2>2. \A k \in 1..n : k \in 1..(n + 1)
    OBVIOUS
  <2>3. n + 1 \in 1..(n + 1)
    OBVIOUS
  <2> QED  BY <1>8, <1>9, <1>10, <2>1, <2>2, <2>3 DEF Listed
<1>12. Source \in Sources /\ Source \notin isMigrating /\ Source \in Servers
  BY <1>1, SourceIsLeft, SourceIsActive
<1>13. Sources' = Sources
  BY <1>1 DEF Sources
<1>14. Pooled[s] = 1 /\ Pooled' = [Pooled EXCEPT ![s] = @ - 1]
  <2>1. Pooled[s] = 1 /\ Pooled[s] - 1 = 0
    BY <1>4 DEF Pooled
  <2>2. [Pooled EXCEPT ![s] = Pooled[s] - 1] =
          [t \in Servers |-> IF t = s THEN Pooled[s] - 1 ELSE Pooled[t]]
    BY DEF Pooled
  <2>3. \A t \in Servers :
          (IF t \in isPOOL' THEN 1 ELSE 0) = IF t = s THEN Pooled[s] - 1 ELSE Pooled[t]
    BY <1>2, <2>1 DEF Pooled
  <2>4. Pooled' = [t \in Servers |-> IF t \in isPOOL' THEN 1 ELSE 0]
    BY DEF Pooled
  <2> QED  BY <2>1, <2>2, <2>3, <2>4
<1>15. Phase = "migrateHigh" /\ Phase' = "migrateHigh" /\ stage # "done" /\ stage' # "done"
  BY <1>1 DEF Phase
<1>16. Pool!RemoveServerPOOL(s)
  <2>1. Pooled[s] > 0
    BY <1>14
  <2> QED  BY <1>2, <1>14, <2>1
           DEF Pool!RemoveServerPOOL, Pool!EraseFirst, Pool!removePOOL, Pooled
<1>17. PICK source \in Servers : source = Source
  BY <1>12
<1>18. Pool!MigrateToPool(source, s)
  BY <1>1, <1>6, <1>11, <1>12, <1>13, <1>15, <1>16, <1>17
  DEF Pool!MigrateToPool, Pool!MoveVMs, Loaded
<1> QED  BY <1>4, <1>18

LEMMA ReturnImplements ==
  ASSUME PoliceInv, Return
  PROVE  Pool!EndLowUtilization \/ Pool!EndHighTemperature
<1>1. /\ stage' = "done" /\ stage \in {"low", "high"} /\ stage = now.police
      /\ UNCHANGED <<now, isMigrating, isPOOL, vRunningVMs, sumRemovePOOL>>
  BY DEF PoliceInv, BeforeCollect, Return
<1>2. CASE stage = "low"
  <2>1. Phase = "migrateLow" /\ Phase' = "high"
    BY <1>1, <1>2 DEF Phase
  <2> QED  BY <1>1, <2>1 DEF Pool!EndLowUtilization, Pool!flags, Pool!vectors
<1>3. CASE stage = "high"
  <2>1. Phase = "migrateHigh" /\ Phase' = "wakeHigh"
    BY <1>1, <1>3 DEF Phase
  <2>2. Sources \ isMigrating = {} \/ isPOOL = {}
    <3>1. CASE from > Len(VMsToMigrate)
      <4>1. /\ from \in 1..(Len(VMsToMigrate) + 1) /\ Len(VMsToMigrate) \in Nat
            /\ DOMAIN VMsToMigrate = 1..Len(VMsToMigrate)
        BY Indices DEF PoliceInv
      <4>2. from - 1 = Len(VMsToMigrate)
        BY <3>1, <4>1
      <4>3. Sources = Passed
        BY <4>1, <4>2 DEF Sources, Passed
      <4> QED  BY <1>1, <1>3, <4>3 DEF PoliceInv, SourcesMigrate
    <3> QED  BY <1>3, <3>1 DEF Return
  <2>3. isPOOL = {} => Pool!IsEmptyVector(Pooled)
    BY DEF Pool!IsEmptyVector, Pooled
  <2> QED  BY <1>1, <1>3, <2>1, <2>2, <2>3
           DEF Pool!EndHighTemperature, Pool!flags, Pool!vectors, Pooled
<1> QED  BY <1>1, <1>2, <1>3

LEMMA QuietStep ==
  ASSUME UNCHANGED <<now, stage, isMigrating, isPOOL, vRunningVMs, ServerOPT,
                     VMsToMigrate, sumRemovePOOL>>
  PROVE  UNCHANGED Pool!vars
<1>1. UNCHANGED <<Phase, Listed, Sources>>
  BY DEF Phase, Listed, Sources
<1> QED  BY <1>1 DEF Pool!vars, Pool!flags, Pool!vectors, Pool!pass

LEMMA PoliceStepImplements ==
  ASSUME PoliceInv, [PoliceNext]_policeVars
  PROVE  [Pool!Next]_(Pool!vars)
<1>1. CASE Collect
  BY <1>1, CollectImplements DEF Pool!Next
<1>2. CASE MigrateLow
  <2>1. /\ stage = "low" /\ from <= Len(VMsToMigrate) /\ to # from /\ Move(GetALLVMs)
        /\ from' = from + 1
        /\ UNCHANGED <<now, stage, isPOOL, VMsToMigrate, sumRemovePOOL>>
    BY <1>2 DEF MigrateLow
  <2>2. to > 0
    BY <2>1 DEF PoliceInv, RoomLeft
  <2>3. \E s, t \in Servers : Pool!MigrateToServer(s, t)
    BY <2>1, <2>2, AllOfTheSource, MoveImplements
  <2> QED  BY <2>3 DEF Pool!Next
<1>3. CASE MigrateHigh
  <2>1. /\ stage = "high" /\ from <= Len(VMsToMigrate) /\ to > 0 /\ MoveShare
        /\ from' = from + 1
        /\ UNCHANGED <<now, stage, isPOOL, VMsToMigrate, sumRemovePOOL>>
    BY <1>3 DEF MigrateHigh
  <2>2. PICK copies \in Seq(Nat) : Move(copies) /\ (GetALLVMs = <<>> => copies = <<>>)
    BY <2>1, ShareOfTheSource
  <2>3. \E s, t \in Servers : Pool!MigrateToServer(s, t)
    BY <2>1, <2>2, MoveImplements
  <2> QED  BY <2>3 DEF Pool!Next
<1>4. CASE MigrateToPool
  <2>1. \E s, t \in Servers : Pool!MigrateToPool(s, t)
    BY <1>4, PoolImplements
  <2> QED  BY <2>1 DEF Pool!Next
<1>5. CASE Return
  BY <1>5, ReturnImplements DEF Pool!Next
<1>6. CASE NextTargetLow \/ NoTargetLow \/ NextTargetHigh \/ UNCHANGED policeVars
  <2>1. UNCHANGED <<now, stage, isMigrating, isPOOL, vRunningVMs, ServerOPT,
                    VMsToMigrate, sumRemovePOOL>>
    BY <1>6 DEF NextTargetLow, NoTargetLow, NextTargetHigh, policeVars
  <2> QED  BY <2>1, QuietStep
<1> QED  BY <1>1, <1>2, <1>3, <1>4, <1>5, <1>6 DEF PoliceNext

(* Every step of a policy is one that ServersPool allows, or none for the  *)
(* servers: no server is emptied twice, and none into itself by            *)
(* PoliceLowUtilization.                                                   *)
THEOREM PoliciesImplement == PoliceSpec => PoolSteps
<1>1. PoliceInv /\ Ended /\ [PoliceNext]_policeVars => [Pool!Next]_(Pool!vars)
  BY PoliceStepImplements
<1> QED  BY <1>1, PoliceSpecInv, PTL DEF PoliceSpec, PoolSteps

=============================================================================
