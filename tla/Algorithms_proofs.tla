-------------------------- MODULE Algorithms_proofs --------------------------
(* Four sequential parts of the simulator that share no state, each with   *)
(* its invariant:                                                           *)
(*   - Prediction: no prediction is missed, every hit is compared once or   *)
(*     still waits, the window of samples has no gap, and the statistics    *)
(*     that are printed agree;                                              *)
(*   - QuickSort: no scan leaves the part it sorts, no part leaves the      *)
(*     array, no entry is lost, and numbers are in order at the end;        *)
(*   - Options: the settings fit together whatever is passed, in any number *)
(*     and order;                                                           *)
(*   - Forecast: the coefficients of a fit are the only ones that satisfy   *)
(*     its normal equations, what is printed of it and cast from it is that *)
(*     of these coefficients, and a recurrence of the series is continued.  *)
EXTENDS Prediction, QuickSort, Options, Forecast, SumTheorems, SequenceTheorems,
        FiniteSetTheorems, TLAPS

-----------------------------------------------------------------------------
(* The predictions.                                                        *)

Entry == [temp : Predicted, due : Nat]

Sample == [temp : Temperatures, time : Nat]

(* Before the scheduler is called what was predicted in earlier seconds is *)
(* due earlier than what it predicts now.  NoPredictionMissed alone would  *)
(* let the new prediction fall into the second of the last one.            *)
DueBefore ==
  \A s \in Servers : \A n \in DOMAIN predictions[s] :
    pc = "assign" => predictions[s][n].due < clock + Ahead

IInv ==
  /\ TypeOK
  /\ NoPredictionMissed
  /\ DueBefore
  /\ HitsAreCompared
  /\ WindowHasNoGap

-----------------------------------------------------------------------------
(* The time ahead is at least a second. *)
LEMMA AheadPositive == Ahead \in Nat \ {0}
BY PredictionAssumption DEF Ahead

(* A queue of seconds, in order and within bounds, and what the two        *)
(* operations on it keep.                                                  *)
DueInOrder(q, low, high) ==
  /\ \A m, n \in DOMAIN q : m < n => q[m].due < q[n].due
  /\ \A n \in DOMAIN q : q[n].due \in low..high

LEMMA AppendInOrder ==
  ASSUME NEW q \in Seq(Entry), NEW e \in Entry, NEW low \in Nat, NEW high \in Nat,
         DueInOrder(q, low, high),
         \A n \in DOMAIN q : q[n].due < e.due,
         low <= e.due, e.due <= high
  PROVE  /\ Append(q, e) \in Seq(Entry)
         /\ Len(Append(q, e)) = Len(q) + 1
         /\ DueInOrder(Append(q, e), low, high)
<1> DEFINE a == Append(q, e)
<1>1. a \in Seq(Entry) /\ Len(a) = Len(q) + 1 /\ Len(q) \in Nat
  OBVIOUS
<1>2. \A n \in DOMAIN q : a[n] = q[n] /\ q[n] \in Entry
  OBVIOUS
<1>3. a[Len(q) + 1] = e
  OBVIOUS
<1>4. \A n \in DOMAIN a : n \in DOMAIN q \/ n = Len(q) + 1
  BY <1>1
<1>5. DOMAIN q = 1..Len(q)
  OBVIOUS
<1> HIDE DEF a
<1>6. ASSUME NEW m \in DOMAIN a, NEW n \in DOMAIN a, m < n
      PROVE  a[m].due < a[n].due
  <2>1. m \in DOMAIN q
    BY <1>1, <1>4, <1>5, <1>6
  <2>2. CASE n \in DOMAIN q
    BY <2>1, <2>2, <1>2, <1>6 DEF DueInOrder
  <2>3. CASE n = Len(q) + 1
    BY <2>1, <2>3, <1>2, <1>3
  <2> QED  BY <2>2, <2>3, <1>4
<1>7. ASSUME NEW n \in DOMAIN a
      PROVE  a[n].due \in low..high
  <2>1. CASE n \in DOMAIN q
    BY <2>1, <1>2 DEF DueInOrder
  <2>2. CASE n = Len(q) + 1
    BY <2>2, <1>3 DEF Entry
  <2> QED  BY <2>1, <2>2, <1>4
<1> QED  BY <1>1, <1>6, <1>7 DEF a, DueInOrder

LEMMA TailInOrder ==
  ASSUME NEW q \in Seq(Entry), NEW low \in Nat, NEW high \in Nat, q # <<>>,
         DueInOrder(q, low, high), Head(q).due = low
  PROVE  /\ Tail(q) \in Seq(Entry)
         /\ Len(q) = Len(Tail(q)) + 1
         /\ DueInOrder(Tail(q), low + 1, high)
<1> DEFINE t == Tail(q)
<1>1. t \in Seq(Entry) /\ Len(q) = Len(t) + 1 /\ Len(t) \in Nat
  OBVIOUS
<1>2. ASSUME NEW n \in DOMAIN t
      PROVE  n \in Nat /\ n + 1 \in DOMAIN q /\ t[n] = q[n + 1]
  <2>1. n \in 1..Len(t)
    BY <1>1
  <2>2. n + 1 \in 1..Len(q)
    BY <2>1, <1>1
  <2> QED  BY <2>1, <2>2, HeadTailProperties
<1>3. 1 \in DOMAIN q /\ q[1].due = low
  OBVIOUS
<1>4. ASSUME NEW n \in DOMAIN q
      PROVE  q[n].due \in Nat
  <2>1. n \in 1..Len(q)
    OBVIOUS
  <2>2. q[n] \in Entry
    BY <2>1, ElementOfSeq
  <2> QED  BY <2>2 DEF Entry
<1> HIDE DEF t
<1>5. ASSUME NEW m \in DOMAIN t, NEW n \in DOMAIN t, m < n
      PROVE  t[m].due < t[n].due
  <2>1. m + 1 \in DOMAIN q /\ n + 1 \in DOMAIN q /\ m + 1 < n + 1
    BY <1>2, <1>5
  <2>2. q[m + 1].due < q[n + 1].due
    BY <2>1 DEF DueInOrder
  <2> QED  BY <2>2, <1>2
<1>6. ASSUME NEW n \in DOMAIN t
      PROVE  t[n].due \in (low + 1)..high
  <2>1. n + 1 \in DOMAIN q /\ 1 < n + 1 /\ t[n].due = q[n + 1].due
    <3>1. n \in 1..Len(t)
      BY <1>1
    <3> QED  BY <3>1, <1>1, <1>2
  <2>2. low < q[n + 1].due
    BY <2>1, <1>3 DEF DueInOrder
  <2> QED  BY <2>1, <2>2, <1>4 DEF DueInOrder
<1> QED  BY <1>1, <1>5, <1>6 DEF t, DueInOrder

(* No clock is -1: what is due is the head of a queue.                     *)
LEMMA DueMeans ==
  ASSUME clock \in Nat, NEW s \in Servers
  PROVE  Due(s) <=> predictions[s] # <<>> /\ Head(predictions[s]).due = clock
BY DEF Due, returnFirstTimePredictionServer

(* Nothing is due now: the same bounds, a second later.                    *)
LEMMA NotYetDue ==
  ASSUME NEW q \in Seq(Entry), NEW low \in Nat, NEW high \in Nat,
         DueInOrder(q, low, high), q = <<>> \/ Head(q).due # low
  PROVE  DueInOrder(q, low + 1, high)
<1>1. SUFFICES ASSUME NEW n \in DOMAIN q
               PROVE  q[n].due \in (low + 1)..high
  BY DEF DueInOrder
<1>2. q # <<>> /\ 1 \in DOMAIN q /\ Head(q) = q[1] /\ n \in 1..Len(q)
  BY <1>1
<1>3. q[1].due > low
  BY <1>2 DEF DueInOrder
<1>4. q[n].due >= q[1].due
  <2>1. CASE n = 1
    BY <2>1, <1>2 DEF DueInOrder
  <2>2. CASE n > 1
    BY <2>2, <1>1, <1>2 DEF DueInOrder
  <2> QED  BY <2>1, <2>2, <1>2
<1> QED  BY <1>1, <1>2, <1>3, <1>4 DEF DueInOrder

-----------------------------------------------------------------------------
(* The window: a sample is taken in every second IsDue names unless it is  *)
(* among those in which the server was away.                               *)
IsDue(t) == t % MONITORINGTIME = 0

NextTime(w, n, now) == IF n = Len(w) THEN now ELSE w[n + 1].time

NoGap(w, now, away) ==
  \A n \in DOMAIN w :
    /\ w[n].time < NextTime(w, n, now)
    /\ \A t \in (w[n].time + 1)..(NextTime(w, n, now) - 1) : IsDue(t) => t \in away

LEMMA WindowIsNoGap ==
  WindowHasNoGap <=>
    \A s \in Servers : /\ Len(temperatureServer[s]) <= SIZEWINDOWNPREDICTION
                       /\ NoGap(temperatureServer[s], clock, missed[s])
BY DEF WindowHasNoGap, NoGap, NextTime, IsDue

LEMMA TimeOfSample ==
  ASSUME NEW w \in Seq(Sample), NEW n \in DOMAIN w
  PROVE  w[n].time \in Nat /\ n \in 1..Len(w) /\ Len(w) \in Nat
<1>1. n \in 1..Len(w) /\ Len(w) \in Nat
  OBVIOUS
<1>2. w[n] \in Sample
  BY <1>1, ElementOfSeq
<1> QED  BY <1>1, <1>2 DEF Sample

(* A second passes in which no sample was due or the server was away.      *)
LEMMA LaterNoGap ==
  ASSUME NEW w \in Seq(Sample), NEW now \in Nat, NEW before, NEW away,
         NoGap(w, now, before), before \subseteq away,
         IsDue(now) => now \in away
  PROVE  NoGap(w, now + 1, away)
<1> SUFFICES ASSUME NEW n \in DOMAIN w
             PROVE  /\ w[n].time < NextTime(w, n, now + 1)
                    /\ \A t \in (w[n].time + 1)..(NextTime(w, n, now + 1) - 1) :
                         IsDue(t) => t \in away
  BY DEF NoGap
<1>1. w[n].time \in Nat /\ n \in 1..Len(w) /\ Len(w) \in Nat
  BY TimeOfSample
<1>2. CASE n = Len(w)
  BY <1>1, <1>2, SMTT(60) DEF NoGap, NextTime
<1>3. CASE n # Len(w)
  BY <1>1, <1>3 DEF NoGap, NextTime
<1> QED  BY <1>2, <1>3

(* A sample of this second is appended, and a second passes.               *)
LEMMA AppendNoGap ==
  ASSUME NEW w \in Seq(Sample), NEW e \in Sample, NEW now \in Nat, NEW away,
         NoGap(w, now, away), e.time = now
  PROVE  /\ Append(w, e) \in Seq(Sample)
         /\ Len(Append(w, e)) = Len(w) + 1
         /\ NoGap(Append(w, e), now + 1, away)
<1> DEFINE a == Append(w, e)
<1>1. a \in Seq(Sample) /\ Len(a) = Len(w) + 1 /\ Len(w) \in Nat
  OBVIOUS
<1>2. \A n \in 1..Len(w) : a[n] = w[n]
  OBVIOUS
<1>3. a[Len(w) + 1] = e
  OBVIOUS
<1>4. DOMAIN a = 1..(Len(w) + 1) /\ DOMAIN w = 1..Len(w)
  BY <1>1
<1> HIDE DEF a
<1>5. ASSUME NEW n \in DOMAIN a
      PROVE  /\ a[n].time < NextTime(a, n, now + 1)
             /\ \A t \in (a[n].time + 1)..(NextTime(a, n, now + 1) - 1) :
                  IsDue(t) => t \in away
  <2>1. CASE n = Len(w) + 1
    <3>1. a[n].time = now /\ NextTime(a, n, now + 1) = now + 1
      BY <2>1, <1>1, <1>3 DEF NextTime
    <3> QED  BY <3>1
  <2>2. CASE n # Len(w) + 1
    <3>1. n \in 1..Len(w) /\ n \in DOMAIN w /\ a[n] = w[n]
      BY <2>2, <1>1, <1>2, <1>4
    <3>2. NextTime(a, n, now + 1) = NextTime(w, n, now)
      <4>1. CASE n = Len(w)
        BY <4>1, <1>1, <1>3 DEF NextTime
      <4>2. CASE n # Len(w)
        <5>1. n + 1 \in 1..Len(w) /\ n # Len(a)
          BY <4>2, <3>1, <1>1
        <5> QED  BY <5>1, <4>2, <1>2 DEF NextTime
      <4> QED  BY <4>1, <4>2
    <3> QED  BY <3>1, <3>2 DEF NoGap
  <2> QED  BY <2>1, <2>2
<1> QED  BY <1>1, <1>5 DEF NoGap, a

(* The oldest sample leaves the window. *)
LEMMA TailNoGap ==
  ASSUME NEW w \in Seq(Sample), NEW now \in Nat, NEW away, NoGap(w, now, away), w # <<>>
  PROVE  /\ Tail(w) \in Seq(Sample)
         /\ Len(Tail(w)) = Len(w) - 1
         /\ NoGap(Tail(w), now, away)
<1> DEFINE t == Tail(w)
<1>1. t \in Seq(Sample) /\ Len(t) = Len(w) - 1 /\ Len(w) \in Nat \ {0}
  OBVIOUS
<1>2. \A n \in 1..Len(t) : t[n] = w[n + 1]
  BY HeadTailProperties
<1> HIDE DEF t
<1>3. ASSUME NEW n \in DOMAIN t
      PROVE  /\ t[n].time < NextTime(t, n, now)
             /\ \A u \in (t[n].time + 1)..(NextTime(t, n, now) - 1) :
                  IsDue(u) => u \in away
  <2>1. n \in 1..Len(t) /\ n + 1 \in 1..Len(w) /\ n + 1 \in DOMAIN w
    BY <1>1
  <2>2. t[n] = w[n + 1]
    BY <2>1, <1>2
  <2>3. NextTime(t, n, now) = NextTime(w, n + 1, now)
    <3>1. CASE n = Len(t)
      BY <3>1, <1>1 DEF NextTime
    <3>2. CASE n # Len(t)
      <4>1. n + 1 \in 1..Len(t) /\ n + 1 # Len(w)
        BY <3>2, <2>1, <1>1
      <4> QED  BY <4>1, <3>2, <1>2 DEF NextTime
    <3> QED  BY <3>1, <3>2
  <2> QED  BY <2>1, <2>2, <2>3 DEF NoGap
<1> QED  BY <1>1, <1>3 DEF NoGap, t

-----------------------------------------------------------------------------
(* The second of every prediction, and what the two clauses of the         *)
(* invariant about them say of one server.                                 *)
Queued(s, low, high) == DueInOrder(predictions[s], low, high)

LEMMA QueuesDueInOrder ==
  NoPredictionMissed <=> \A s \in Servers : Queued(s, clock, clock + Ahead)
BY DEF NoPredictionMissed, Queued, DueInOrder

LEMMA InitInv == Init => IInv
<1> SUFFICES ASSUME Init PROVE IInv
  OBVIOUS
<1>1. TypeOK
  BY DEF Init, TypeOK
<1>2. NoPredictionMissed /\ DueBefore
  BY DEF Init, NoPredictionMissed, DueBefore
<1>3. HitsAreCompared
  BY DEF Init, HitsAreCompared
<1>4. WindowHasNoGap
  BY PredictionAssumption DEF Init, WindowHasNoGap
<1> QED  BY <1>1, <1>2, <1>3, <1>4 DEF IInv

(* Steps that change neither queues nor windows nor the clock.             *)
LEMMA QuietStep ==
  ASSUME IInv, TypeOK',
         UNCHANGED <<clock, temperatureServer, predictions, counts, evaluation, missed>>,
         pc' # "assign"
  PROVE  IInv'
<1>1. NoPredictionMissed' /\ DueBefore'
  BY DEF IInv, NoPredictionMissed, DueBefore, Ahead
<1>2. HitsAreCompared'
  BY DEF IInv, HitsAreCompared, counts, evaluation
<1>3. WindowHasNoGap'
  BY DEF IInv, WindowHasNoGap
<1> QED  BY <1>1, <1>2, <1>3 DEF IInv

(* The two queues of a server, and the counters that belong to them.       *)
LEMMA QueuesTyped ==
  ASSUME IInv, NEW s \in Servers
  PROVE  /\ predictions[s] \in Seq(Entry) /\ Len(predictions[s]) \in Nat
         /\ temperatureServer[s] \in Seq(Sample) /\ Len(temperatureServer[s]) \in Nat
         /\ hitPrediction[s] \in Nat /\ numberElements[s] \in Nat
<1>1. predictions \in [Servers -> Seq(Entry)] /\ temperatureServer \in [Servers -> Seq(Sample)]
  BY DEF IInv, TypeOK, Entry, Sample
<1>2. predictions[s] \in Seq(Entry) /\ temperatureServer[s] \in Seq(Sample)
  BY <1>1
<1>3. \A S : \A q \in Seq(S) : Len(q) \in Nat
  OBVIOUS
<1>4. hitPrediction[s] \in Nat /\ numberElements[s] \in Nat
  BY DEF IInv, TypeOK
<1> QED  BY <1>2, <1>3, <1>4

(* A prediction is noted for the second Ahead, later than all before it.   *)
LEMMA AssignInv ==
  ASSUME IInv, NEW first \in [Servers -> Predicted], NEW last \in [Servers -> Predicted],
         AssignVMs(first, last)
  PROVE  IInv'
<1> DEFINE hit == {s \in Candidates : Believed(first[s]) \/ Believed(last[s])}
           noted(s) == [temp |-> IF Believed(last[s]) THEN last[s] ELSE first[s],
                        due  |-> clock + Ahead]
<1>1. clock \in Nat /\ Ahead \in Nat \ {0} /\ clock + Ahead \in Nat
  BY AheadPositive DEF IInv, TypeOK
<1>2. /\ pc = "assign" /\ pc' = "modes"
      /\ UNCHANGED <<clock, mode, inlet, temperatureServer, evaluation, missed>>
      /\ hitPrediction' = [s \in Servers |-> hitPrediction[s] + IF s \in hit THEN 1 ELSE 0]
      /\ errorPrediction' = [s \in Servers |->
           errorPrediction[s] + IF s \in Candidates \ hit THEN 1 ELSE 0]
  BY DEF AssignVMs
<1>3. /\ DOMAIN predictions' = Servers
      /\ predictions' = [s \in Servers |-> predictions'[s]]
      /\ \A s \in Servers : predictions'[s] = IF s \in hit
           THEN Append(predictions[s], noted(s)) ELSE predictions[s]
  BY DEF AssignVMs, Note, insertPrediction
<1>4. ASSUME NEW s \in Servers
      PROVE  /\ predictions'[s] \in Seq(Entry)
             /\ Len(predictions'[s]) = Len(predictions[s]) + IF s \in hit THEN 1 ELSE 0
             /\ DueInOrder(predictions'[s], clock, clock + Ahead)
  <2>1. predictions[s] \in Seq(Entry) /\ Len(predictions[s]) \in Nat
    BY QueuesTyped
  <2>2. DueInOrder(predictions[s], clock, clock + Ahead)
    BY QueuesDueInOrder DEF IInv, Queued
  <2>3. CASE s \in hit
    <3>1. noted(s) \in Entry /\ noted(s).due = clock + Ahead
      BY <1>1 DEF Entry
    <3>2. \A n \in DOMAIN predictions[s] : predictions[s][n].due < clock + Ahead
      BY <1>2 DEF IInv, DueBefore
    <3>3. predictions'[s] = Append(predictions[s], noted(s))
      BY <1>3, <2>3
    <3> HIDE DEF noted, hit
    <3>4. /\ Append(predictions[s], noted(s)) \in Seq(Entry)
          /\ Len(Append(predictions[s], noted(s))) = Len(predictions[s]) + 1
          /\ DueInOrder(Append(predictions[s], noted(s)), clock, clock + Ahead)
      <4> DEFINE high == clock + Ahead
                 e == noted(s)
      <4>1. /\ e \in Entry /\ e.due = high /\ high \in Nat /\ clock <= high
            /\ \A n \in DOMAIN predictions[s] : predictions[s][n].due < e.due
        BY <3>1, <3>2, <1>1
      <4>2. DueInOrder(predictions[s], clock, high)
        BY <2>2
      <4> HIDE DEF high, e
      <4>3. /\ Append(predictions[s], e) \in Seq(Entry)
            /\ Len(Append(predictions[s], e)) = Len(predictions[s]) + 1
            /\ DueInOrder(Append(predictions[s], e), clock, high)
        BY <4>1, <4>2, <2>1, <1>1, AppendInOrder
      <4> QED  BY <4>3 DEF high, e
    <3> QED  BY <3>3, <3>4, <2>3
  <2>4. CASE s \notin hit
    <3> HIDE DEF noted, hit
    <3> QED  BY <2>4, <2>1, <2>2, <1>3
  <2> QED  BY <2>3, <2>4
<1> HIDE DEF noted, hit
<1>5. TypeOK'
  <2>1. predictions' \in [Servers -> Seq([temp : Predicted, due : Nat])]
    BY <1>3, <1>4 DEF Entry
  <2>2. hitPrediction' \in [Servers -> Nat] /\ errorPrediction' \in [Servers -> Nat]
    <3>1. hitPrediction \in [Servers -> Nat] /\ errorPrediction \in [Servers -> Nat]
      BY DEF IInv, TypeOK
    <3> QED  BY <3>1, <1>2
  <2> QED  BY <2>1, <2>2, <1>2 DEF IInv, TypeOK, evaluation
<1>6. NoPredictionMissed'
  <2>1. \A s \in Servers : DueInOrder(predictions'[s], clock', clock' + Ahead)
    BY <1>4, <1>2
  <2> QED  BY <2>1 DEF NoPredictionMissed, DueInOrder, Ahead
<1>7. DueBefore'
  BY <1>2 DEF DueBefore
<1>8. HitsAreCompared'
  <2>1. ASSUME NEW s \in Servers
        PROVE  hitPrediction'[s] = numberElements'[s] + Len(predictions'[s])
    <3> DEFINE one == IF s \in hit THEN 1 ELSE 0
    <3>1. hitPrediction[s] = numberElements[s] + Len(predictions[s])
      BY DEF IInv, HitsAreCompared
    <3>2. /\ numberElements'[s] = numberElements[s] /\ numberElements[s] \in Nat
          /\ Len(predictions[s]) \in Nat
      BY <1>2, QueuesTyped DEF evaluation
    <3>3. hitPrediction'[s] = hitPrediction[s] + one
      BY <1>2
    <3>4. Len(predictions'[s]) = Len(predictions[s]) + one
      BY <1>4
    <3>5. one \in Int
      OBVIOUS
    <3> HIDE DEF one
    <3> QED  BY <3>1, <3>2, <3>3, <3>4, <3>5
  <2> QED  BY <2>1 DEF HitsAreCompared
<1>9. WindowHasNoGap'
  BY <1>2 DEF IInv, WindowHasNoGap
<1> QED  BY <1>5, <1>6, <1>7, <1>8, <1>9 DEF IInv

(* A second of the servers: what is due is compared and removed, and what  *)
(* is left is later than this second.                                      *)
LEMMA RunQueues ==
  ASSUME IInv, RunServers, NEW s \in Servers
  PROVE  /\ predictions'[s] \in Seq(Entry)
         /\ Len(predictions[s]) = Len(predictions'[s]) + IF Due(s) THEN 1 ELSE 0
         /\ DueInOrder(predictions'[s], clock + 1, clock + Ahead)
<1>1. clock \in Nat /\ clock + Ahead \in Nat
  BY AheadPositive DEF IInv, TypeOK
<1>2. predictions[s] \in Seq(Entry) /\ Len(predictions[s]) \in Nat
  BY QueuesTyped
<1>3. DueInOrder(predictions[s], clock, clock + Ahead)
  BY QueuesDueInOrder DEF IInv, Queued
<1>4. predictions'[s] = IF Due(s) THEN Tail(predictions[s]) ELSE predictions[s]
  BY DEF RunServers, calculateRMSE
<1>5. CASE Due(s)
  <2>1. predictions[s] # <<>> /\ Head(predictions[s]).due = clock
    BY <1>5, <1>1, DueMeans
  <2> QED  BY <2>1, <1>1, <1>2, <1>3, <1>4, <1>5, TailInOrder
<1>6. CASE ~ Due(s)
  <2>1. predictions[s] = <<>> \/ Head(predictions[s]).due # clock
    BY <1>6, <1>1, DueMeans
  <2> QED  BY <2>1, <1>1, <1>2, <1>3, <1>4, <1>6, NotYetDue
<1> QED  BY <1>5, <1>6

(* ... and a sample is taken of the servers that are not away.             *)
LEMMA RunWindows ==
  ASSUME IInv, RunServers, NEW s \in Servers
  PROVE  /\ temperatureServer'[s] \in Seq(Sample)
         /\ Len(temperatureServer'[s]) <= SIZEWINDOWNPREDICTION
         /\ NoGap(temperatureServer'[s], clock + 1, missed'[s])
<1> DEFINE w == temperatureServer[s]
           e == [temp |-> inlet[s], time |-> clock]
<1>1. /\ clock \in Nat /\ w \in Seq(Sample) /\ e \in Sample /\ Len(w) \in Nat
      /\ e.time = clock
  <2>1. clock \in Nat /\ e \in Sample /\ e.time = clock
    BY DEF IInv, TypeOK, Sample
  <2> QED  BY <2>1, QueuesTyped
<1>2. Len(w) <= SIZEWINDOWNPREDICTION /\ NoGap(w, clock, missed[s])
  BY WindowIsNoGap DEF IInv
<1>3. SIZEWINDOWNPREDICTION \in Nat \ {0}
  BY PredictionAssumption
<1>4. temperatureServer'[s] = IF mode[s] = "away" THEN w ELSE Slide(Sampled(s))
  BY DEF RunServers
<1>5. missed'[s] = IF mode[s] = "away" /\ IsDue(clock)
                   THEN missed[s] \cup {clock} ELSE missed[s]
  BY DEF RunServers, IsDue
<1>6. Sampled(s) = IF IsDue(clock) THEN Append(w, e) ELSE w
  BY DEF Sampled, IsDue
<1> HIDE DEF w, e
<1>7. CASE mode[s] = "away"
  <2>1. missed[s] \subseteq missed'[s] /\ (IsDue(clock) => clock \in missed'[s])
    BY <1>5, <1>7
  <2>2. NoGap(w, clock + 1, missed'[s])
    BY <2>1, <1>1, <1>2, LaterNoGap
  <2> QED  BY <2>2, <1>1, <1>2, <1>4, <1>7
<1>8. CASE mode[s] # "away" /\ ~ IsDue(clock)
  <2>1. NoGap(w, clock + 1, missed[s])
    BY <1>8, <1>1, <1>2, LaterNoGap
  <2>2. temperatureServer'[s] = w
    BY <1>8, <1>1, <1>2, <1>3, <1>4, <1>6 DEF Slide
  <2> QED  BY <2>1, <2>2, <1>1, <1>2, <1>5, <1>8
<1>9. CASE mode[s] # "away" /\ IsDue(clock)
  <2> DEFINE a == Append(w, e)
  <2>1. a \in Seq(Sample) /\ Len(a) = Len(w) + 1 /\ NoGap(a, clock + 1, missed[s])
    BY <1>1, <1>2, AppendNoGap
  <2>2. temperatureServer'[s] = Slide(a) /\ missed'[s] = missed[s]
    BY <1>9, <1>4, <1>5, <1>6
  <2> HIDE DEF a
  <2>3. CASE Len(a) > SIZEWINDOWNPREDICTION
    <3>1. temperatureServer'[s] = Tail(a) /\ a # <<>> /\ clock + 1 \in Nat
      BY <2>1, <2>2, <2>3, <1>1, <1>3 DEF Slide
    <3>2. Tail(a) \in Seq(Sample) /\ Len(Tail(a)) = Len(a) - 1
          /\ NoGap(Tail(a), clock + 1, missed[s])
      BY <3>1, <2>1, TailNoGap
    <3> QED  BY <3>1, <3>2, <2>1, <2>2, <1>1, <1>2, <1>3
  <2>4. CASE ~ Len(a) > SIZEWINDOWNPREDICTION
    <3>1. temperatureServer'[s] = a
      BY <2>2, <2>4 DEF Slide
    <3> QED  BY <3>1, <2>1, <2>2, <2>4, <1>1, <1>3
  <2> QED  BY <2>3, <2>4
<1> QED  BY <1>7, <1>8, <1>9

(* A prediction that is compared has an error.                             *)
LEMMA ErrorTyped ==
  ASSUME IInv, NEW s \in Servers, Due(s)
  PROVE  Error(s) \in Nat
<1>1. predictions[s] \in Seq(Entry) /\ predictions[s] # <<>>
  BY QueuesTyped, DueMeans DEF IInv, TypeOK
<1>2. Head(predictions[s]) \in Entry
  BY <1>1, HeadTailProperties
<1>3. Head(predictions[s]).temp \in Predicted /\ inlet[s] \in Temperatures
  BY <1>2 DEF IInv, TypeOK, Entry
<1>4. RelativeError \in [Predicted -> [Temperatures -> Nat]]
  BY PredictionAssumption
<1> QED  BY <1>3, <1>4 DEF Error

LEMMA RunInv ==
  ASSUME IInv, RunServers
  PROVE  IInv'
<1>1. /\ clock \in Nat /\ clock' = clock + 1 /\ clock' \in Nat
      /\ pc = "servers" /\ pc' = "assign"
      /\ inlet' \in [Servers -> Temperatures]
      /\ UNCHANGED <<mode, counts>>
  BY DEF IInv, TypeOK, RunServers
<1>2. Ahead \in Nat \ {0}
  BY AheadPositive
<1>3. TypeOK'
  <2>1. predictions' \in [Servers -> Seq([temp : Predicted, due : Nat])]
    <3>1. predictions' = [s \in Servers |-> predictions'[s]]
      BY DEF RunServers, calculateRMSE
    <3> QED  BY <3>1, RunQueues DEF Entry
  <2>2. temperatureServer' \in [Servers -> Seq([temp : Temperatures, time : Nat])]
    <3>1. temperatureServer' = [s \in Servers |-> temperatureServer'[s]]
      BY DEF RunServers
    <3> QED  BY <3>1, RunWindows DEF Sample
  <2>3. numberElements' \in [Servers -> Nat]
    BY DEF IInv, TypeOK, RunServers, calculateRMSE
  <2>4. RMSE' \in [Servers -> Int]
    <3>1. ASSUME NEW s \in Servers, Due(s)
          PROVE  Head(predictions[s]).temp - inlet[s] \in Int
      <4>1. predictions[s] \in Seq(Entry) /\ predictions[s] # <<>>
        BY <3>1, DueMeans DEF IInv, TypeOK, Entry
      <4>2. Head(predictions[s]) \in Entry
        BY <4>1, HeadTailProperties
      <4>3. Head(predictions[s]).temp \in Int /\ inlet[s] \in Int
        BY <4>2, PredictionAssumption DEF IInv, TypeOK, Entry
      <4> QED  BY <4>3
    <3>2. \A diff \in Int : diff * diff \in Int
      OBVIOUS
    <3>3. ASSUME NEW s \in Servers
          PROVE  RMSE'[s] \in Int
      <4> DEFINE diff == Head(predictions[s]).temp - inlet[s]
      <4>1. RMSE'[s] = RMSE[s] + IF Due(s) THEN diff * diff ELSE 0
        BY DEF RunServers, calculateRMSE
      <4>2. Due(s) => diff * diff \in Int
        BY <3>1, <3>2
      <4>3. RMSE[s] \in Int
        BY DEF IInv, TypeOK
      <4> HIDE DEF diff
      <4> QED  BY <4>1, <4>2, <4>3
    <3>4. RMSE' = [s \in Servers |-> RMSE'[s]]
      BY DEF RunServers, calculateRMSE
    <3> QED  BY <3>3, <3>4
  <2>5. missed' \in [Servers -> SUBSET Nat]
    BY DEF IInv, TypeOK, RunServers
  <2>6. ASSUME NEW s \in Servers
        PROVE  errorMean'[s] \in Nat /\ varianceErrorMean'[s] \in Seq(Nat)
    <3>1. errorMean[s] \in Nat /\ varianceErrorMean[s] \in Seq(Nat)
      BY DEF IInv, TypeOK
    <3>2. Due(s) => Error(s) \in Nat
      BY ErrorTyped
    <3>3. /\ errorMean'[s] = errorMean[s] + IF Due(s) THEN Error(s) ELSE 0
          /\ varianceErrorMean'[s] = IF Due(s) THEN Append(varianceErrorMean[s], Error(s))
                                     ELSE varianceErrorMean[s]
      BY DEF RunServers, calculateRMSE
    <3>4. \A e \in Nat : Append(varianceErrorMean[s], e) \in Seq(Nat)
      BY <3>1, AppendProperties
    <3> QED  BY <3>1, <3>2, <3>3, <3>4
  <2>7. errorMean' \in [Servers -> Nat] /\ varianceErrorMean' \in [Servers -> Seq(Nat)]
    <3>1. /\ errorMean' = [s \in Servers |-> errorMean'[s]]
          /\ varianceErrorMean' = [s \in Servers |-> varianceErrorMean'[s]]
      BY DEF RunServers, calculateRMSE
    <3> QED  BY <3>1, <2>6
  <2> QED  BY <2>1, <2>2, <2>3, <2>4, <2>5, <2>7, <1>1 DEF IInv, TypeOK, counts
<1>4. ASSUME NEW s \in Servers
      PROVE  /\ DueInOrder(predictions'[s], clock', clock' + Ahead)
             /\ \A n \in DOMAIN predictions'[s] : predictions'[s][n].due < clock' + Ahead
  <2>1. DueInOrder(predictions'[s], clock + 1, clock + Ahead)
    BY RunQueues
  <2>2. \A due : due \in (clock + 1)..(clock + Ahead) =>
          due \in clock'..(clock' + Ahead) /\ due < clock' + Ahead
    BY <1>1, <1>2
  <2> QED  BY <2>1, <2>2 DEF DueInOrder
<1>5. NoPredictionMissed'
  BY <1>4 DEF NoPredictionMissed, DueInOrder, Ahead
<1>6. DueBefore'
  BY <1>4 DEF DueBefore, Ahead
<1>7. HitsAreCompared'
  <2>1. ASSUME NEW s \in Servers
        PROVE  hitPrediction'[s] = numberElements'[s] + Len(predictions'[s])
    <3> DEFINE one == IF Due(s) THEN 1 ELSE 0
    <3>1. hitPrediction[s] = numberElements[s] + Len(predictions[s])
      BY DEF IInv, HitsAreCompared
    <3>2. hitPrediction'[s] = hitPrediction[s] /\ numberElements[s] \in Nat
      BY <1>1, QueuesTyped DEF counts
    <3>3. numberElements'[s] = numberElements[s] + one
      BY DEF RunServers, calculateRMSE
    <3>4. Len(predictions'[s]) \in Nat
      <4>1. predictions'[s] \in Seq(Entry)
        BY RunQueues
      <4> QED  BY <4>1, LenProperties
    <3>5. Len(predictions[s]) = Len(predictions'[s]) + one
      BY RunQueues
    <3>6. one \in Int
      OBVIOUS
    <3> HIDE DEF one
    <3> QED  BY <3>1, <3>2, <3>3, <3>4, <3>5, <3>6
  <2> QED  BY <2>1 DEF HitsAreCompared
<1>8. WindowHasNoGap'
  <2>1. \A s \in Servers :
          /\ Len(temperatureServer'[s]) <= SIZEWINDOWNPREDICTION
          /\ NoGap(temperatureServer'[s], clock', missed'[s])
    BY RunWindows, <1>1
  <2> QED  BY <2>1 DEF WindowHasNoGap, NoGap, NextTime, IsDue
<1> QED  BY <1>3, <1>5, <1>6, <1>7, <1>8 DEF IInv

LEMMA NextInv == IInv /\ [Next]_vars => IInv'
<1> SUFFICES ASSUME IInv, [Next]_vars
             PROVE  IInv'
  OBVIOUS
<1> USE DEF IInv, TypeOK, counts, evaluation
<1>1. ASSUME NEW first \in [Servers -> Predicted], NEW last \in [Servers -> Predicted],
             AssignVMs(first, last)
      PROVE  IInv'
  BY <1>1, AssignInv
<1>2. CASE Exit
  BY <1>2, QuietStep DEF Exit
<1>3. CASE NoVMsWait
  BY <1>3, QuietStep DEF NoVMsWait
<1>4. ASSUME NEW s \in Servers, NEW m \in {"active", "migrating", "away"}, ChangeMode(s, m)
      PROVE  IInv'
  BY <1>4, QuietStep DEF ChangeMode
<1>5. CASE KeepModes
  BY <1>5, QuietStep DEF KeepModes
<1>6. CASE RunServers
  BY <1>6, RunInv
<1>7. CASE UNCHANGED vars
  BY <1>7 DEF vars, NoPredictionMissed, DueBefore, HitsAreCompared, WindowHasNoGap, Ahead
<1> QED  BY <1>1, <1>2, <1>3, <1>4, <1>5, <1>6, <1>7 DEF Next

LEMMA SpecInv == Spec => []IInv
BY InitInv, NextInv, PTL DEF Spec

-----------------------------------------------------------------------------
(* The buffers of samples and predictions keep their types.                *)
THEOREM TypeCorrect == Spec => []TypeOK
BY SpecInv, PTL DEF IInv

(* The equality test of DataCenter.cpp:236 finds every prediction in its   *)
(* second, and each hit that is counted is compared once.                  *)
THEOREM PredictionsAreCompared == Spec => []PredictionsCompared
<1>1. IInv => PredictionsCompared
  BY DEF IInv, PredictionsCompared
<1> QED  BY <1>1, SpecInv, PTL

(* The window is a run of samples without a gap but for the seconds away.  *)
THEOREM WindowIsARun == Spec => []WindowHasNoGap
BY SpecInv, PTL DEF IInv

-----------------------------------------------------------------------------
(* The statistics of the errors.                                           *)

(* What is added up agrees with what is recorded, and no square is lost.   *)
ErrorsBooked ==
  \A s \in Servers :
    /\ numberElements[s] = Len(varianceErrorMean[s])
    /\ errorMean[s] = SumFunction(varianceErrorMean[s])
    /\ RMSE[s] \in Nat
    /\ (RMSE[s] = 0 <=> errorMean[s] = 0)

LEMMA SquareIsNat ==
  ASSUME NEW x \in Int
  PROVE  x * x \in Nat /\ (x * x = 0 <=> x = 0)
OBVIOUS

LEMMA ProductPositive ==
  ASSUME NEW a \in Nat, a > 0, NEW b \in Nat, b > 0
  PROVE  \E p \in Nat \ {0} : p = a * b
OBVIOUS

(* Numbers add up to 0 only when all are 0. *)
LEMMA ProductIsZero ==
  ASSUME NEW a \in Int, NEW b \in Int, a # 0
  PROVE  a * b * b = 0 <=> b = 0
<1>1. ASSUME b # 0 PROVE a * b # 0
  BY <1>1
<1>2. ASSUME b # 0 PROVE a * b * b # 0
  <2>1. PICK c \in Int : c = a * b /\ c # 0
    BY <1>1, <1>2
  <2>2. c * b # 0
    BY ONLY <1>2, <2>1, b \in Int
  <2> QED  BY <2>1, <2>2
<1>3. a * 0 * 0 = 0
  OBVIOUS
<1> QED  BY <1>2, <1>3

LEMMA SumIsZero ==
  ASSUME NEW e \in Seq(Nat)
  PROVE  /\ SumFunction(e) \in Nat
         /\ (SumFunction(e) = 0 <=> \A k \in 1..Len(e) : e[k] = 0)
<1>1. /\ SumFunction(e) = SumFunctionOnSet(e, 1..Len(e)) /\ IsFiniteSet(1..Len(e))
      /\ \A k \in 1..Len(e) : e[k] \in Nat
  <2>1. e \in Seq(Int)
    OBVIOUS
  <2> QED  BY <2>1, SumOfSequence
<1>2. PICK D : D = 1..Len(e)
  OBVIOUS
<1>3. IsFiniteSet(D) /\ \A k \in D : e[k] \in Nat /\ e[k] \in Int
  BY <1>1, <1>2
<1>4. SumFunctionOnSet(e, D) \in Nat
  BY ONLY <1>3, SumIsNat
<1>5. ASSUME NEW k \in D
      PROVE  e[k] <= SumFunctionOnSet(e, D)
  <2>1. IsFiniteSet(D \ {k}) /\ \A x \in D \ {k} : e[x] \in Nat
    BY <1>3, FS_RemoveElement
  <2>2. SumFunctionOnSet(e, D \ {k}) \in Nat
    BY ONLY <2>1, SumIsNat
  <2>3. SumFunctionOnSet(e, D) = e[k] + SumFunctionOnSet(e, D \ {k})
    BY ONLY <1>3, k \in D, SumTakesAny
  <2>4. e[k] \in Nat
    BY <1>3
  <2> QED  BY ONLY <2>2, <2>3, <2>4
<1>6. ASSUME \A k \in D : e[k] = 0
      PROVE  SumFunctionOnSet(e, D) = 0
  <2>1. \A k \in D : e[k] = 0 * 1 /\ e[k] \in Int
    BY <1>6
  <2>2. \A k \in D : e[k] \in Int /\ e[k] = 0 * e[k]
    BY ONLY <2>1
  <2>3. SumFunctionOnSet(e, D) = 0 * SumFunctionOnSet(e, D)
    BY ONLY <1>3, <2>2, SumOfMultiples
  <2> QED  BY ONLY <1>4, <2>3
<1>7. ASSUME SumFunctionOnSet(e, D) = 0, NEW k \in D
      PROVE  e[k] = 0
  BY ONLY <1>3, <1>5, <1>7
<1> QED  BY ONLY <1>1, <1>2, <1>4, <1>6, <1>7

(* The square of a difference, with its products named. *)
LEMMA SquareOfDifference ==
  ASSUME NEW c \in Int, NEW b \in Int, NEW x \in Int
  PROVE  (c * x - b) * (c * x - b) = (c * c) * (x * x) + ((-2 * (c * b)) * x + b * b)
OBVIOUS

(* The squared deviations, added up. *)
LEMMA SumOfDeviations ==
  ASSUME NEW e \in Seq(Int), NEW c \in Int, NEW b \in Int
  PROVE  SumFunction([k \in 1..Len(e) |-> (c * e[k] - b) * (c * e[k] - b)])
           = (c * c) * SumFunction([k \in 1..Len(e) |-> e[k] * e[k]])
               + ((-2 * (c * b)) * SumFunction(e) + (b * b) * Len(e))
<1>1. PICK D : D = 1..Len(e)
  OBVIOUS
<1>2. IsFiniteSet(D) /\ Cardinality(D) = Len(e) /\ Len(e) \in Nat
  BY <1>1, SumOfSequence
<1>3. \A k \in D : e[k] \in Int
  BY <1>1
<1> DEFINE dev == [k \in D |-> (c * e[k] - b) * (c * e[k] - b)]
           sq == [k \in D |-> e[k] * e[k]]
           first == [k \in D |-> (c * c) * sq[k]]
           second == [k \in D |-> (-2 * (c * b)) * e[k]]
           third == [k \in D |-> b * b]
           rest == [k \in D |-> second[k] + third[k]]
<1>4. c * c \in Int /\ -2 * (c * b) \in Int /\ b * b \in Int
  OBVIOUS
<1>5. \A k \in D : sq[k] \in Int /\ first[k] = (c * c) * sq[k]
  BY <1>3
<1>6. \A k \in D : e[k] \in Int /\ second[k] = (-2 * (c * b)) * e[k]
  BY <1>3
<1>7. \A k \in D : first[k] \in Int /\ second[k] \in Int /\ third[k] \in Int /\ rest[k] \in Int
  <2> SUFFICES ASSUME NEW k \in D
               PROVE  first[k] \in Int /\ second[k] \in Int /\ third[k] \in Int /\ rest[k] \in Int
    OBVIOUS
  <2>1. sq[k] \in Int /\ e[k] \in Int
    BY <1>3
  <2>2. \A x, y \in Int : x * y \in Int
    OBVIOUS
  <2>3. first[k] \in Int /\ second[k] \in Int
    BY <1>4, <1>5, <1>6, <2>1, <2>2
  <2>4. third[k] = b * b /\ rest[k] = second[k] + third[k]
    OBVIOUS
  <2> HIDE DEF first, second, third, rest
  <2> QED  BY <1>4, <2>3, <2>4
<1>8. \A k \in D : dev[k] = first[k] + rest[k]
  <2> SUFFICES ASSUME NEW k \in D PROVE dev[k] = first[k] + rest[k]
    OBVIOUS
  <2>1. PICK x \in Int : x = e[k]
    BY <1>3
  <2>2. /\ dev[k] = (c * x - b) * (c * x - b)
        /\ first[k] = (c * c) * (x * x)
        /\ rest[k] = (-2 * (c * b)) * x + b * b
    BY <2>1
  <2>3. (c * x - b) * (c * x - b) = (c * c) * (x * x) + ((-2 * (c * b)) * x + b * b)
    BY SquareOfDifference
  <2> QED  BY ONLY <2>2, <2>3
<1>9. /\ \A k \in D : rest[k] = second[k] + third[k]
      /\ \A k \in D : third[k] = b * b
  OBVIOUS
<1> HIDE DEF dev, sq, first, second, third, rest
<1>10. SumFunctionOnSet(first, D) = (c * c) * SumFunctionOnSet(sq, D)
  <2>1. PICK m \in Int : m = c * c
    BY ONLY <1>4
  <2>2. \A k \in D : sq[k] \in Int /\ first[k] = m * sq[k]
    BY ONLY <1>5, <2>1
  <2>3. SumFunctionOnSet(first, D) = m * SumFunctionOnSet(sq, D)
    BY ONLY <1>2, <2>2, m \in Int, SumOfMultiples
  <2> QED  BY ONLY <2>1, <2>3
<1>11. SumFunctionOnSet(second, D) = (-2 * (c * b)) * SumFunctionOnSet(e, D)
  <2>1. PICK m \in Int : m = -2 * (c * b)
    BY ONLY <1>4
  <2>2. \A k \in D : e[k] \in Int /\ second[k] = m * e[k]
    BY ONLY <1>6, <2>1
  <2>3. SumFunctionOnSet(second, D) = m * SumFunctionOnSet(e, D)
    BY ONLY <1>2, <2>2, m \in Int, SumOfMultiples
  <2> QED  BY ONLY <2>1, <2>3
<1>12. SumFunctionOnSet(third, D) = (b * b) * Cardinality(D)
  BY ONLY <1>2, <1>4, <1>9, SumOfSame
<1>13. SumFunctionOnSet(rest, D) = SumFunctionOnSet(second, D) + SumFunctionOnSet(third, D)
  BY ONLY <1>2, <1>7, <1>9, SumOfSums
<1>14. SumFunctionOnSet(dev, D) = SumFunctionOnSet(first, D) + SumFunctionOnSet(rest, D)
  BY ONLY <1>2, <1>7, <1>8, SumOfSums
<1>15. /\ SumFunction(e) = SumFunctionOnSet(e, D)
       /\ SumFunction(dev) = SumFunctionOnSet(dev, D)
       /\ SumFunction(sq) = SumFunctionOnSet(sq, D)
  BY <1>1 DEF SumFunction, dev, sq
<1>16. SumFunction(dev) = (c * c) * SumFunction(sq)
                            + ((-2 * (c * b)) * SumFunction(e) + (b * b) * Len(e))
  BY ONLY <1>2, <1>10, <1>11, <1>12, <1>13, <1>14, <1>15
<1> QED  BY ONLY <1>1, <1>16 DEF dev, sq

(* The variance printed is that of the errors. *)
LEMMA VarianceOfErrors ==
  ASSUME NEW e \in Seq(Nat), NEW n, n = Len(e), NEW S, S = SumFunction(e)
  PROVE  /\ SumFunction([k \in 1..n |-> e[k] * e[k]]) \in Nat
         /\ SumFunction([k \in 1..n |-> (n * e[k] - S) * (n * e[k] - S)])
              = n * (n * SumFunction([k \in 1..n |-> e[k] * e[k]]) - S * S)
<1>1. e \in Seq(Int) /\ n \in Nat /\ S \in Nat
  BY SumIsZero
<1> DEFINE sq == [k \in 1..n |-> e[k] * e[k]]
           dev == [k \in 1..n |-> (n * e[k] - S) * (n * e[k] - S)]
<1>2. \A x \in Nat : x * x \in Nat
  OBVIOUS
<1>3. sq \in Seq(Nat)
  BY <1>1, <1>2
<1>4. SumFunction(sq) \in Nat
  <2> HIDE DEF sq
  <2> QED  BY <1>3, SumIsZero
<1>5. SumFunction(dev) = (n * n) * SumFunction(sq) + ((-2 * (n * S)) * SumFunction(e) + (S * S) * Len(e))
  <2>1. SumFunction([k \in 1..Len(e) |-> (n * e[k] - S) * (n * e[k] - S)])
          = (n * n) * SumFunction([k \in 1..Len(e) |-> e[k] * e[k]])
              + ((-2 * (n * S)) * SumFunction(e) + (S * S) * Len(e))
    <3>1. n \in Int /\ S \in Int
      BY <1>1
    <3> QED  BY ONLY <1>1, <3>1, SumOfDeviations
  <2>2. /\ dev = [k \in 1..Len(e) |-> (n * e[k] - S) * (n * e[k] - S)]
        /\ sq = [k \in 1..Len(e) |-> e[k] * e[k]]
    OBVIOUS
  <2> HIDE DEF dev, sq
  <2> QED  BY ONLY <2>1, <2>2
<1>6. PICK Q \in Nat : Q = SumFunction(sq)
  BY <1>4
<1>7. SumFunction(dev) = (n * n) * Q + ((-2 * (n * S)) * S + (S * S) * n)
  BY ONLY <1>5, <1>6, n = Len(e), S = SumFunction(e)
<1>8. (n * n) * Q + ((-2 * (n * S)) * S + (S * S) * n) = n * (n * Q - S * S)
  BY ONLY <1>1, Q \in Nat
<1> QED  BY ONLY <1>4, <1>6, <1>7, <1>8 DEF sq, dev

LEMMA SumOfZeros ==
  ASSUME NEW n \in Nat, NEW f, DOMAIN f = 1..n, \A k \in 1..n : f[k] = 0
  PROVE  SumFunction(f) = 0
<1>1. PICK D : D = 1..n
  OBVIOUS
<1>2. IsFiniteSet(D) /\ Cardinality(D) \in Nat
  BY <1>1, FS_Interval, FS_CardinalityType
<1>3. SumFunctionOnSet(f, D) = 0 * Cardinality(D)
  <2>1. \A k \in D : f[k] = 0
    BY <1>1
  <2> QED  BY ONLY <1>2, <2>1, 0 \in Int, SumOfSame
<1> QED  BY <1>1, <1>2, <1>3 DEF SumFunction

(* One error deviates from the average by nothing, and neither do zeros. *)
LEMMA NoDeviation ==
  ASSUME NEW e \in Seq(Nat), NEW n, n = Len(e), NEW S, S = SumFunction(e),
         n <= 1 \/ \A k \in 1..n : e[k] = 0
  PROVE  SumFunction([k \in 1..n |-> (n * e[k] - S) * (n * e[k] - S)]) = 0
<1> DEFINE dev == [k \in 1..n |-> (n * e[k] - S) * (n * e[k] - S)]
<1>1. n \in Nat /\ S \in Nat
  BY SumIsZero
<1>2. CASE \A k \in 1..n : e[k] = 0
  <2>1. S = 0
    BY <1>2, SumIsZero
  <2>2. \A k \in 1..n : n * e[k] - S = 0
    BY <1>1, <1>2, <2>1
  <2>3. DOMAIN dev = 1..n /\ \A k \in 1..n : dev[k] = 0
    BY <2>2
  <2> HIDE DEF dev
  <2>4. SumFunction(dev) = 0
    BY ONLY <1>1, <2>3, SumOfZeros
  <2> QED  BY <2>4 DEF dev
<1>3. CASE n = 1
  <2>1. e[1] \in Nat /\ e \in Seq(Int) /\ 1..Len(e) = {} \cup {1}
    <3>1. Len(e) = 1
      BY <1>3
    <3>2. e[1] \in Nat /\ e \in Seq(Int)
      BY <3>1
    <3>3. 1..1 = {} \cup {1}
      OBVIOUS
    <3> QED  BY <3>1, <3>2, <3>3
  <2>2. S = e[1]
    <3>1. IsFiniteSet({}) /\ 1 \notin {} /\ \A y \in {} \cup {1} : e[y] \in Int
      BY <2>1, FS_EmptySet
    <3>2. SumFunctionOnSet(e, {} \cup {1}) = SumFunctionOnSet(e, {}) + e[1]
      BY ONLY <3>1, SumOfOneMore
    <3>3. SumFunction(e) = SumFunctionOnSet(e, {} \cup {1})
      BY ONLY <2>1, SumOfSequence
    <3> QED  BY <2>1, <3>2, <3>3, SumOfNone
  <2>3. \A k \in 1..n : k = 1
    BY <1>3
  <2>4. \A k \in 1..n : n * e[k] - S = 0
    BY <1>3, <2>1, <2>2, <2>3
  <2>5. DOMAIN dev = 1..n /\ \A k \in 1..n : dev[k] = 0
    BY <2>4
  <2> HIDE DEF dev
  <2>6. SumFunction(dev) = 0
    BY ONLY <1>1, <2>5, SumOfZeros
  <2> QED  BY <2>6 DEF dev
<1>4. n = 0 => \A k \in 1..n : e[k] = 0
  BY <1>1
<1> QED  BY <1>1, <1>2, <1>3, <1>4

(* The lines that are printed of a server, from what is booked of it. *)
LEMMA LinesAgree ==
  ASSUME IInv, ErrorsBooked, NEW s \in Servers, NEW e, e = varianceErrorMean[s],
         NEW n, n = Len(e)
  PROVE  /\ (RMSELine(s)[1] = 0 <=> MeanLine(s)[1] = 0)
         /\ (MeanLine(s)[1] = 0 <=> \A k \in 1..n : e[k] = 0)
         /\ (CoefficientLine(s)[1] = 0 <=> SDLine(s)[1] = 0)
         /\ n > 1 => /\ MeanLine(s)[2] = n
                     /\ VarianceLine(s) =
                          <<n * (n * SumFunction([k \in 1..n |-> e[k] * e[k]])
                                   - MeanLine(s)[1] * MeanLine(s)[1]),
                            n * n * (n - 1)>>
         /\ n <= 1 => VarianceLine(s)[1] = 0
<1>1. /\ e \in Seq(Nat) /\ n \in Nat /\ numberElements[s] = n
      /\ errorMean[s] = SumFunction(e) /\ RMSE[s] \in Nat
      /\ (RMSE[s] = 0 <=> errorMean[s] = 0)
  BY DEF IInv, TypeOK, ErrorsBooked
<1>2. PICK S \in Nat : S = errorMean[s]
  BY <1>1, SumIsZero
<1>3. S = 0 <=> \A k \in 1..n : e[k] = 0
  BY <1>1, <1>2, SumIsZero
<1>4. PICK V : V = SumFunction([k \in 1..n |-> (n * e[k] - S) * (n * e[k] - S)])
  OBVIOUS
<1>5. returnVarianceErrorMean(s) = IF n = 0 THEN <<0, 1>> ELSE <<V, n * n * (n - 1)>>
  BY <1>1, <1>2, <1>4 DEF returnVarianceErrorMean
<1>6. RMSELine(s) = (IF n = 0 THEN <<0, 1>> ELSE <<RMSE[s], n>>)
  BY <1>1 DEF RMSELine, Printed
<1>7. MeanLine(s) = (IF n = 0 THEN <<0, 1>> ELSE <<S, n>>)
  BY <1>1, <1>2 DEF MeanLine, Printed
<1>8. PICK Q : /\ Q = SumFunction([k \in 1..n |-> e[k] * e[k]]) /\ Q \in Nat
               /\ V = n * (n * Q - S * S)
  <2>1. e \in Seq(Nat) /\ n = Len(e) /\ S = SumFunction(e)
    BY <1>1, <1>2
  <2>2. /\ SumFunction([k \in 1..n |-> e[k] * e[k]]) \in Nat
        /\ SumFunction([k \in 1..n |-> (n * e[k] - S) * (n * e[k] - S)])
             = n * (n * SumFunction([k \in 1..n |-> e[k] * e[k]]) - S * S)
    BY ONLY <2>1, VarianceOfErrors
  <2> QED  BY ONLY <1>4, <2>2
<1>9. (n <= 1 \/ S = 0) => V = 0
  <2>1. e \in Seq(Nat) /\ n = Len(e) /\ S = SumFunction(e)
    BY <1>1, <1>2
  <2>2. ASSUME n <= 1 \/ \A k \in 1..n : e[k] = 0
        PROVE  SumFunction([k \in 1..n |-> (n * e[k] - S) * (n * e[k] - S)]) = 0
    BY ONLY <2>1, <2>2, NoDeviation
  <2> QED  BY ONLY <1>3, <1>4, <2>2
<1>10. CASE n = 0
  <2>1. S = 0
    BY <1>3, <1>10
  <2>2. returnVarianceErrorMean(s) = <<0, 1>>
    BY <1>5, <1>10
  <2>3. SDLine(s) = <<0, 1>> /\ VarianceLine(s) = <<0, 1>>
    BY <2>2 DEF SDLine, VarianceLine, Printed
  <2>4. CoefficientLine(s)[1] = 0
    BY <1>1, <1>2, <1>10, <2>1, <2>2 DEF CoefficientLine, Printed
  <2> QED  BY <1>3, <1>6, <1>7, <1>10, <2>1, <2>3, <2>4
<1>11. CASE n = 1
  <2>1. V = 0 /\ n * n * (n - 1) = 0
    BY <1>9, <1>11
  <2>2. returnVarianceErrorMean(s) = <<0, 0>>
    BY <1>5, <1>11, <2>1
  <2>3. SDLine(s) = <<0, 1>> /\ VarianceLine(s) = <<0, 1>>
    BY <2>2 DEF SDLine, VarianceLine, Printed
  <2>4. CoefficientLine(s) = <<0, 1>>
    BY <1>1, <1>2, <1>11, <2>2 DEF CoefficientLine, Printed
  <2> QED  BY <1>1, <1>2, <1>3, <1>6, <1>7, <1>11, <2>3, <2>4
<1>12. CASE n > 1
  <2>1. PICK D \in Nat : D = n * n * (n - 1) /\ D # 0
    <3>0. n \in Nat /\ n > 1
      BY <1>1, <1>12
    <3>1. PICK d \in Nat \ {0} : d = n - 1
      <4>1. n - 1 \in Nat \ {0}
        BY ONLY <3>0
      <4> QED  BY ONLY <4>1
    <3>2. PICK q \in Nat \ {0} : q = n * n
      <4>1. n \in Nat /\ n > 0
        BY ONLY <3>0
      <4> QED  BY ONLY <4>1, ProductPositive
    <3>3. PICK p \in Nat \ {0} : p = q * d
      BY ONLY q \in Nat \ {0}, d \in Nat \ {0}, ProductPositive
    <3> QED  BY ONLY <3>1, <3>2, <3>3, p \in Nat \ {0}
  <2>2. returnVarianceErrorMean(s) = <<V, D>>
    BY <1>5, <1>12, <2>1
  <2>3. SDLine(s) = <<V, D>> /\ VarianceLine(s) = <<V, D>>
    BY <2>1, <2>2 DEF SDLine, VarianceLine, Printed
  <2>4. CoefficientLine(s)[1] = 0 <=> V = 0
    <3>1. CoefficientLine(s) = Printed(<<V * n * n, D * S * S>>)
      BY <1>1, <1>2, <2>2 DEF CoefficientLine
    <3>2. V \in Int
      BY <1>1, <1>2, <1>8
    <3>3. D * S * S = 0 <=> S = 0
      <4>1. D \in Int /\ S \in Int /\ D # 0
        BY <1>2, <2>1
      <4> QED  BY ONLY <4>1, ProductIsZero
    <3>4. V * n * n = 0 <=> V = 0
      BY <1>1, <1>12, <3>2
    <3> QED  BY <1>9, <3>1, <3>3, <3>4 DEF Printed
  <2>5. RMSELine(s) = <<RMSE[s], n>> /\ MeanLine(s) = <<S, n>>
    BY <1>6, <1>7, <1>12
  <2>6. /\ RMSELine(s)[1] = RMSE[s] /\ MeanLine(s)[1] = S /\ MeanLine(s)[2] = n
        /\ SDLine(s)[1] = V /\ VarianceLine(s) = <<n * (n * Q - S * S), n * n * (n - 1)>>
    BY <1>8, <2>1, <2>3, <2>5
  <2>7. RMSE[s] = 0 <=> S = 0
    BY <1>1, <1>2
  <2>8. ~ (n <= 1)
    BY <1>1, <1>12
  <2>9. MeanLine(s)[1] = 0 <=> \A k \in 1..n : e[k] = 0
    BY ONLY <1>3, <2>6
  <2>10. RMSELine(s)[1] = 0 <=> MeanLine(s)[1] = 0
    BY ONLY <2>6, <2>7
  <2>11. CoefficientLine(s)[1] = 0 <=> SDLine(s)[1] = 0
    BY ONLY <2>4, <2>6
  <2>12. VarianceLine(s) = <<n * (n * SumFunction([k \in 1..n |-> e[k] * e[k]])
                                  - MeanLine(s)[1] * MeanLine(s)[1]),
                            n * n * (n - 1)>>
    BY ONLY <1>8, <2>6
  <2>13. MeanLine(s)[2] = n
    BY ONLY <2>6
  <2> QED  BY ONLY <2>8, <2>9, <2>10, <2>11, <2>12, <2>13
<1>13. n = 0 \/ n = 1 \/ n > 1
  BY ONLY <1>1
<1> QED  BY ONLY <1>10, <1>11, <1>12, <1>13

(* There are as many errors as predictions that were compared, which are   *)
(* hits that wait no longer.                                               *)
LEMMA ErrorsAreHits ==
  ASSUME IInv, ErrorsBooked
  PROVE  TotalHits >= SumFunction([s \in Servers |-> Len(varianceErrorMean[s])])
<1> DEFINE errors == [s \in Servers |-> Len(varianceErrorMean[s])]
<1>1. IsFiniteSet(Servers)
  BY PredictionAssumption
<1>2. ASSUME NEW s \in Servers
      PROVE  errors[s] \in Int /\ hitPrediction[s] \in Int /\ errors[s] <= hitPrediction[s]
  <2>1. hitPrediction[s] \in Nat /\ numberElements[s] \in Nat
    BY DEF IInv, TypeOK
  <2>2. hitPrediction[s] = numberElements[s] + Len(predictions[s])
    BY DEF IInv, HitsAreCompared
  <2>3. errors[s] = numberElements[s]
    BY DEF ErrorsBooked
  <2>4. Len(predictions[s]) \in Nat
    BY DEF IInv, TypeOK
  <2> HIDE DEF errors
  <2> QED  BY ONLY <2>1, <2>2, <2>3, <2>4
<1>3. DOMAIN errors = Servers /\ DOMAIN hitPrediction = Servers
  BY DEF IInv, TypeOK
<1> HIDE DEF errors
<1>4. SumFunctionOnSet(errors, Servers) <= SumFunctionOnSet(hitPrediction, Servers)
  BY ONLY <1>1, <1>2, SumAtMost
<1>5. SumFunctionOnSet(errors, Servers) \in Int /\ SumFunctionOnSet(hitPrediction, Servers) \in Int
  BY ONLY <1>1, <1>2, SumIsInt
<1>6. TotalHits >= SumFunction(errors)
  BY ONLY <1>3, <1>4, <1>5 DEF TotalHits, SumFunction
<1> QED  BY <1>6 DEF errors

LEMMA BookedAgree == IInv /\ ErrorsBooked => StatisticsAgree
<1> SUFFICES ASSUME IInv, ErrorsBooked PROVE StatisticsAgree
  OBVIOUS
<1>1. TotalHits >= SumFunction([s \in Servers |-> Len(varianceErrorMean[s])])
  BY ErrorsAreHits
<1> QED  BY <1>1, LinesAgree DEF StatisticsAgree

LEMMA RunBooks ==
  ASSUME IInv, ErrorsBooked, RunServers
  PROVE  ErrorsBooked'
<1> SUFFICES ASSUME NEW s \in Servers
             PROVE  /\ numberElements'[s] = Len(varianceErrorMean'[s])
                    /\ errorMean'[s] = SumFunction(varianceErrorMean'[s])
                    /\ RMSE'[s] \in Nat
                    /\ (RMSE'[s] = 0 <=> errorMean'[s] = 0)
  BY DEF ErrorsBooked
<1> DEFINE diff == Head(predictions[s]).temp - inlet[s]
<1>1. /\ numberElements'[s] = numberElements[s] + (IF Due(s) THEN 1 ELSE 0)
      /\ RMSE'[s] = RMSE[s] + (IF Due(s) THEN diff * diff ELSE 0)
      /\ errorMean'[s] = errorMean[s] + (IF Due(s) THEN Error(s) ELSE 0)
      /\ varianceErrorMean'[s] = IF Due(s) THEN Append(varianceErrorMean[s], Error(s))
                                 ELSE varianceErrorMean[s]
  BY DEF RunServers, calculateRMSE
<1>2. /\ numberElements[s] = Len(varianceErrorMean[s])
      /\ errorMean[s] = SumFunction(varianceErrorMean[s])
      /\ RMSE[s] \in Nat /\ (RMSE[s] = 0 <=> errorMean[s] = 0)
      /\ errorMean[s] \in Nat /\ varianceErrorMean[s] \in Seq(Nat)
      /\ numberElements[s] \in Nat
  BY DEF ErrorsBooked, IInv, TypeOK
<1>3. CASE Due(s)
  <2>1. /\ Head(predictions[s]).temp \in Predicted /\ inlet[s] \in Temperatures
        /\ Predicted \subseteq Int /\ Temperatures \subseteq Int
    <3>1. predictions[s] \in Seq(Entry) /\ predictions[s] # <<>>
      BY <1>3, DueMeans DEF IInv, TypeOK, Entry
    <3>2. Head(predictions[s]) \in Entry
      BY <3>1, HeadTailProperties
    <3> QED  BY <3>2, PredictionAssumption DEF IInv, TypeOK, Entry
  <2>2. PICK x \in Nat : x = Error(s)
    BY <1>3, ErrorTyped
  <2>3. PICK p \in Predicted, t \in Temperatures : p = Head(predictions[s]).temp /\ t = inlet[s]
    BY <2>1
  <2>4. p \in Int /\ t \in Int
    BY <2>1
  <2>5. PICK d \in Int : d = p - t
    BY <2>4
  <2>6. d = diff /\ (x = 0 <=> d = 0)
    <3>1. RelativeError[p][t] = 0 <=> p = t
      BY PredictionAssumption
    <3>2. x = RelativeError[p][t]
      BY <2>2, <2>3 DEF Error
    <3>3. p - t = 0 <=> p = t
      BY ONLY <2>4
    <3>4. d = diff
      BY <2>3, <2>5
    <3> QED  BY ONLY <2>5, <3>1, <3>2, <3>3, <3>4
  <2>7. PICK q \in Nat : q = d * d /\ (q = 0 <=> d = 0)
    BY SquareIsNat
  <2>8. /\ SumFunction(Append(varianceErrorMean[s], x)) = SumFunction(varianceErrorMean[s]) + x
        /\ Len(Append(varianceErrorMean[s], x)) = Len(varianceErrorMean[s]) + 1
    <3>1. varianceErrorMean[s] \in Seq(Int) /\ x \in Int
      BY <1>2
    <3> QED  BY <3>1, SumOfAppend
  <2>9. /\ numberElements'[s] = numberElements[s] + 1 /\ RMSE'[s] = RMSE[s] + q
        /\ errorMean'[s] = errorMean[s] + x
        /\ varianceErrorMean'[s] = Append(varianceErrorMean[s], x)
    BY <1>1, <1>3, <2>2, <2>6, <2>7
  <2>10. RMSE'[s] \in Nat /\ (RMSE'[s] = 0 <=> errorMean'[s] = 0)
    <3>1. PICK r, m \in Nat : r = RMSE[s] /\ m = errorMean[s] /\ (r = 0 <=> m = 0)
      BY <1>2
    <3>2. RMSE'[s] = r + q /\ errorMean'[s] = m + x /\ (q = 0 <=> x = 0)
      BY <2>6, <2>7, <2>9, <3>1
    <3> QED  BY ONLY <3>1, <3>2, r \in Nat, m \in Nat, x \in Nat, q \in Nat
  <2> QED  BY <1>2, <2>8, <2>9, <2>10
<1>4. CASE ~ Due(s)
  BY <1>1, <1>2, <1>4
<1> QED  BY <1>3, <1>4

LEMMA BookedInv == IInv /\ ErrorsBooked /\ [Next]_vars => ErrorsBooked'
<1> SUFFICES ASSUME IInv, ErrorsBooked, [Next]_vars PROVE ErrorsBooked'
  OBVIOUS
<1>1. CASE RunServers
  BY <1>1, RunBooks
<1>2. CASE UNCHANGED evaluation
  BY <1>2 DEF evaluation, ErrorsBooked
<1>3. Next => RunServers \/ UNCHANGED evaluation
  BY DEF Next, AssignVMs, Exit, NoVMsWait, ChangeMode, KeepModes
<1> QED  BY <1>1, <1>2, <1>3 DEF vars

LEMMA BookedInit == Init => ErrorsBooked
<1> SUFFICES ASSUME Init, NEW s \in Servers
             PROVE  /\ numberElements[s] = Len(varianceErrorMean[s])
                    /\ errorMean[s] = SumFunction(varianceErrorMean[s])
                    /\ RMSE[s] \in Nat
                    /\ (RMSE[s] = 0 <=> errorMean[s] = 0)
  BY DEF ErrorsBooked
<1> QED  BY SumOfEmpty DEF Init

(* The five lines PrintResults prints of a server's predictions agree with *)
(* one another, for any number of errors of any size.                      *)
THEOREM LinesOfAServerAgree == Spec => []StatisticsAgree
<1>1. Spec => []ErrorsBooked
  BY SpecInv, BookedInit, BookedInv, PTL DEF Spec
<1> QED  BY <1>1, SpecInv, BookedAgree, PTL

-----------------------------------------------------------------------------
(* quickSort: arrays of every size and all rankings.                       *)

Values == Rankings \cup {Unordered}

Part == [begin : Int, end : Int]

(* A part of the array: not empty, within 0..m. *)
IsPart(b, e, m) == b \in Int /\ e \in Int /\ 0 <= b /\ b <= e /\ e <= m

(* Before the first exchange of a call the pivot stops both scans; later   *)
(* the servers exchanged last do, each the scan that comes its way.        *)
Fresh == i = begin /\ j = end /\ \E k \in begin..end : server[k] = half

Flanked ==
  /\ begin < i /\ j < end
  /\ ~ Less(server[j + 1], half)
  /\ ~ Less(half, server[i - 1])

Inside(m) ==
  /\ server \in [0..m -> Values]
  /\ calls \in Seq(Part)
  /\ \A n \in 1..Len(calls) : IsPart(calls[n].begin, calls[n].end, m)
  /\ at \in {"scan", "split"} => IsPart(begin, end, m) /\ i \in Int /\ j \in Int
  /\ at = "scan" => begin <= i /\ i <= j /\ j <= end /\ (Fresh \/ Flanked)
  /\ at = "split" => j < end /\ begin < i /\ j < i
  /\ at = "sorted" => calls = <<>>

(* The entries are those that were passed. *)
Kept(m) ==
  /\ given \in [0..m -> Values]
  /\ \E p \in [0..m -> 0..m] :
       /\ \A k, n \in 0..m : p[k] = p[n] => k = n
       /\ \A k \in 0..m : server[k] = given[p[k]]

(* The parts still to sort lie one after the other, the present one first. *)
PartsOrdered ==
  /\ \A a, b \in 1..Len(calls) : a < b => calls[a].end < calls[b].begin
  /\ at \in {"scan", "split"} => \A a \in 1..Len(calls) : end < calls[a].begin

(* Behind the scans are the entries of either side of the pivot. *)
Partitioned ==
  /\ half \in Rankings
  /\ \A k \in begin..(i - 1) : server[k] <= half
  /\ \A k \in (j + 1)..end : half <= server[k]

(* Two entries, k before n, of one part still to sort. *)
Together(k, n) ==
  \/ \E a \in 1..Len(calls) : calls[a].begin <= k /\ n <= calls[a].end
  \/ at \in {"scan", "split"} /\ begin <= k /\ n <= end

Ordered(m) ==
  /\ server \in [0..m -> Rankings]
  /\ PartsOrdered
  /\ at \in {"scan", "split"} => Partitioned
  /\ \A k, n \in 0..m : k < n => server[k] <= server[n] \/ Together(k, n)

SortIInv ==
  \E m \in Nat : /\ Inside(m)
                 /\ Kept(m)
                 /\ given \in [0..m -> Rankings] => Ordered(m)

-----------------------------------------------------------------------------
LEMMA LessIrreflexive ==
  ASSUME NEW a
  PROVE  ~ Less(a, a)
<1> SUFFICES ASSUME a \in Rankings, a < a PROVE FALSE
  BY DEF Less
<1>1. a \in Int
  BY QuickSortAssumption
<1> QED  BY <1>1

LEMMA MiddleInside ==
  ASSUME NEW b \in Int, NEW e \in Int, b <= e
  PROVE  (b + e) \div 2 \in b..e /\ \A m \in Int : 0 <= b /\ e <= m => (b + e) \div 2 \in 0..m
<1>1. PICK h \in Int : h = (b + e) \div 2 /\ 2 * h <= b + e /\ b + e < 2 * h + 2
  OBVIOUS
<1>2. b <= h /\ h <= e
  BY <1>1
<1> QED  BY <1>1, <1>2

(* What is before the first stop of a scan upwards from i, and that both   *)
(* stops lie in the part.                                                  *)
LEMMA StopsInside ==
  ASSUME NEW m \in Nat, Inside(m), at = "scan"
  PROVE  /\ \E k \in Up : k <= end
         /\ \E k \in Down : k >= begin
         /\ Fresh => \E k \in begin..end : k \in Up /\ k \in Down
<1>1. /\ IsPart(begin, end, m) /\ i \in Int /\ j \in Int
      /\ begin <= i /\ i <= j /\ j <= end
      /\ Fresh \/ Flanked
      /\ DOMAIN server = 0..m
  BY DEF Inside
<1>2. CASE Fresh
  <2>1. PICK k \in begin..end : server[k] = half
    BY <1>2 DEF Fresh
  <2>2. k \in Int /\ k \in 0..m /\ k >= i /\ k <= j /\ k <= end /\ k >= begin
    BY <2>1, <1>1, <1>2 DEF Fresh, IsPart
  <2>3. ~ Less(server[k], half) /\ ~ Less(half, server[k])
    BY <2>1, LessIrreflexive
  <2>4. k \in Up /\ k \in Down
    BY <2>2, <2>3, <1>1 DEF Up, Down
  <2> QED  BY <2>2, <2>4
<1>3. CASE Flanked
  <2>1. j + 1 \in 0..m /\ j + 1 >= i /\ j + 1 <= end
    BY <1>1, <1>3 DEF Flanked, IsPart
  <2>2. i - 1 \in 0..m /\ i - 1 <= j /\ i - 1 >= begin
    BY <1>1, <1>3 DEF Flanked, IsPart
  <2>3. j + 1 \in Up /\ i - 1 \in Down
    BY <2>1, <2>2, <1>1, <1>3 DEF Up, Down, Flanked
  <2>4. ~ Fresh
    BY <1>1, <1>3 DEF Flanked, Fresh, IsPart
  <2> QED  BY <2>1, <2>2, <2>3, <2>4
<1> QED  BY <1>1, <1>2, <1>3

LEMMA SortInitInv == SortInit => SortIInv
<1> SUFFICES ASSUME SortInit PROVE SortIInv
  OBVIOUS
<1>1. PICK n \in 1..MaxCandidates : server \in [0..(n - 1) -> Rankings \cup {Unordered}]
  BY DEF SortInit
<1>2. n - 1 \in Nat /\ DOMAIN server = 0..(n - 1)
  BY <1>1, QuickSortAssumption
<1>3. Cardinality(DOMAIN server) - 1 = n - 1
  <2>1. Cardinality(0..(n - 1)) = (n - 1) - 0 + 1
    BY <1>2, FS_Interval
  <2> QED  BY <2>1, <1>1, <1>2, QuickSortAssumption
<1>4. calls = <<[begin |-> 0, end |-> n - 1]>>
  BY <1>3 DEF SortInit
<1>5. calls \in Seq(Part) /\ Len(calls) = 1 /\ calls[1] = [begin |-> 0, end |-> n - 1]
  BY <1>2, <1>4 DEF Part
<1>6. \A k \in 1..Len(calls) : IsPart(calls[k].begin, calls[k].end, n - 1)
  BY <1>2, <1>5 DEF IsPart
<1>7. at = "call"
  BY DEF SortInit
<1>8. Inside(n - 1)
  BY <1>1, <1>5, <1>6, <1>7 DEF Inside, Values
<1>9. Kept(n - 1)
  <2> DEFINE p == [k \in 0..(n - 1) |-> k]
  <2>1. /\ p \in [0..(n - 1) -> 0..(n - 1)]
        /\ \A k, x \in 0..(n - 1) : p[k] = p[x] => k = x
        /\ \A k \in 0..(n - 1) : server[k] = server[p[k]]
    OBVIOUS
  <2>2. given = server
    BY DEF SortInit
  <2> QED  BY <1>1, <2>1, <2>2 DEF Kept, Values
<1>10. ASSUME given \in [0..(n - 1) -> Rankings]
       PROVE  Ordered(n - 1)
  <2>1. server \in [0..(n - 1) -> Rankings]
    BY <1>10 DEF SortInit
  <2>2. PartsOrdered
    BY <1>5, <1>7 DEF PartsOrdered
  <2>3. \A k, x \in 0..(n - 1) : Together(k, x)
    BY <1>5 DEF Together
  <2> QED  BY <1>7, <2>1, <2>2, <2>3 DEF Ordered
<1> QED  BY <1>2, <1>8, <1>9, <1>10 DEF SortIInv

-----------------------------------------------------------------------------
LEMMA CallInside ==
  ASSUME NEW m \in Nat, Inside(m), Call
  PROVE  Inside(m)'
<1>1. /\ calls \in Seq(Part) /\ calls # <<>>
      /\ \A n \in 1..Len(calls) : IsPart(calls[n].begin, calls[n].end, m)
      /\ server \in [0..m -> Values]
  BY DEF Inside, Call
<1>2. Len(calls) >= 1 /\ Head(calls) = calls[1] /\ 1 \in 1..Len(calls)
  BY <1>1, EmptySeq, HeadTailProperties
<1>3. IsPart(begin', end', m)
  BY <1>1, <1>2 DEF Call
<1>4. calls' \in Seq(Part) /\ \A n \in 1..Len(calls') : IsPart(calls'[n].begin, calls'[n].end, m)
  <2>1. /\ Tail(calls) \in Seq(Part) /\ Len(Tail(calls)) = Len(calls) - 1
        /\ \A n \in 1..Len(Tail(calls)) : Tail(calls)[n] = calls[n + 1]
    BY <1>1, HeadTailProperties
  <2>2. \A n \in 1..Len(Tail(calls)) : n + 1 \in 1..Len(calls)
    BY <2>1, <1>1
  <2> QED  BY <2>1, <2>2, <1>1 DEF Call
<1>5. at' = "scan" /\ server' = server /\ i' = begin' /\ j' = end'
      /\ half' = server[(begin' + end') \div 2]
  BY DEF Call
<1>6. (begin' + end') \div 2 \in begin'..end'
  BY <1>3, MiddleInside DEF IsPart
<1>7. Fresh'
  BY <1>5, <1>6 DEF Fresh
<1>8. begin' <= i' /\ i' <= j' /\ j' <= end' /\ i' \in Int /\ j' \in Int
  BY <1>3, <1>5 DEF IsPart
<1> QED  BY <1>1, <1>3, <1>4, <1>5, <1>7, <1>8 DEF Inside

(* What an exchange does: the stops of the two scans lie in the part. *)
LEMMA ExchangeStops ==
  ASSUME NEW m \in Nat, Inside(m), Exchange
  PROVE  /\ server \in [0..m -> Values] /\ IsPart(begin, end, m)
         /\ i \in Int /\ j \in Int /\ begin <= i /\ i <= j /\ j <= end
         /\ UNCHANGED <<given, calls, begin, end, half>>
         /\ \E u, d \in 0..m :
              /\ FirstUp(u) /\ FirstDown(d)
              /\ i <= u /\ u <= end /\ begin <= d /\ d <= j
              /\ server' = IF u <= d THEN Exchanged(u, d) ELSE server
              /\ i' = IF u <= d THEN u + 1 ELSE u
              /\ j' = IF u <= d THEN d - 1 ELSE d
              /\ at' = IF i' <= j' THEN "scan" ELSE "split"
<1>1. at = "scan" /\ server \in [0..m -> Values] /\ DOMAIN server = 0..m
  BY DEF Inside, Exchange
<1>2. /\ IsPart(begin, end, m) /\ i \in Int /\ j \in Int
      /\ begin <= i /\ i <= j /\ j <= end
  BY <1>1 DEF Inside
<1>3. PICK u \in DOMAIN server, d \in DOMAIN server :
        /\ FirstUp(u) /\ FirstDown(d)
        /\ server' = IF u <= d THEN Exchanged(u, d) ELSE server
        /\ i' = IF u <= d THEN u + 1 ELSE u
        /\ j' = IF u <= d THEN d - 1 ELSE d
        /\ at' = IF i' <= j' THEN "scan" ELSE "split"
  BY DEF Exchange
<1>4. UNCHANGED <<given, calls, begin, end, half>>
  BY DEF Exchange
<1>5. u \in Int /\ d \in Int /\ u >= i /\ d <= j
  BY <1>1, <1>3 DEF FirstUp, FirstDown, Up, Down
<1>6. u <= end /\ d >= begin
  <2>1. PICK k \in Up : k <= end
    BY <1>1, StopsInside
  <2>2. PICK l \in Down : l >= begin
    BY <1>1, StopsInside
  <2>3. u <= k /\ l <= d /\ k \in Int /\ l \in Int
    BY <1>1, <1>3, <2>1, <2>2 DEF FirstUp, FirstDown, Up, Down
  <2> QED  BY <2>1, <2>2, <2>3, <1>2, <1>5 DEF IsPart
<1>7. i <= u /\ u <= end /\ begin <= d /\ d <= j /\ u \in 0..m /\ d \in 0..m
  BY <1>1, <1>3, <1>5, <1>6
<1> QED  BY <1>1, <1>2, <1>3, <1>4, <1>7

LEMMA ExchangeInside ==
  ASSUME NEW m \in Nat, Inside(m), Exchange
  PROVE  Inside(m)'
<1>1. at = "scan" /\ server \in [0..m -> Values] /\ DOMAIN server = 0..m
  BY DEF Inside, Exchange
<1>2. /\ IsPart(begin, end, m) /\ i \in Int /\ j \in Int
      /\ begin <= i /\ i <= j /\ j <= end /\ (Fresh \/ Flanked)
  BY <1>1 DEF Inside
<1>3. PICK u \in 0..m, d \in 0..m :
        /\ FirstUp(u) /\ FirstDown(d)
        /\ i <= u /\ u <= end /\ begin <= d /\ d <= j
        /\ server' = IF u <= d THEN Exchanged(u, d) ELSE server
        /\ i' = IF u <= d THEN u + 1 ELSE u
        /\ j' = IF u <= d THEN d - 1 ELSE d
        /\ at' = IF i' <= j' THEN "scan" ELSE "split"
  BY ExchangeStops
<1>4. UNCHANGED <<calls, begin, end, half>>
  BY ExchangeStops
<1>5. u \in Int /\ d \in Int /\ u >= i /\ d <= j
  BY <1>3
<1>6. u <= end /\ d >= begin
  BY <1>3
<1>7. CASE u <= d
  <2>1. server' = Exchanged(u, d) /\ i' = u + 1 /\ j' = d - 1
    BY <1>3, <1>7
  <2>2. server' \in [0..m -> Values]
    BY <2>1, <1>1, <1>3 DEF Exchanged
  <2>3. begin < i' /\ j' < end /\ i' \in Int /\ j' \in Int /\ begin <= i' /\ j' <= end
    BY <2>1, <1>2, <1>5, <1>6 DEF IsPart
  <2>9. ~ i' <= j' => j' < i'
    BY <2>3
  <2>4. server'[u] = server[d] /\ server'[d] = server[u]
    BY <2>1, <1>1, <1>3 DEF Exchanged
  <2>5. ~ Less(server[u], half) /\ ~ Less(half, server[d])
    BY <1>3 DEF FirstUp, FirstDown, Up, Down
  <2>6. j' + 1 = d /\ i' - 1 = u
    BY <2>1, <1>5
  <2>7. Flanked'
    BY <2>3, <2>4, <2>5, <2>6, <1>4 DEF Flanked, Less
  <2>8. IsPart(begin', end', m)
    BY <1>2, <1>4
  <2> QED  BY <2>2, <2>3, <2>7, <2>8, <2>9, <1>1, <1>3, <1>4 DEF Inside
<1>8. CASE ~ u <= d
  <2>1. server' = server /\ i' = u /\ j' = d
    BY <1>3, <1>8
  <2>2. ~ Fresh
    <3>1. SUFFICES ASSUME Fresh PROVE FALSE
      OBVIOUS
    <3>2. PICK k \in begin..end : k \in Up /\ k \in Down
      BY <3>1, <1>1, StopsInside
    <3>3. u <= k /\ k <= d /\ k \in Int
      BY <3>2, <1>1, <1>3 DEF FirstUp, FirstDown, Up
    <3> QED  BY <3>3, <1>5, <1>8
  <2>3. begin < i' /\ j' < end
    BY <2>1, <2>2, <1>2, <1>5 DEF Flanked, IsPart
  <2>4. at' = "split" /\ i' \in Int /\ j' \in Int /\ j' < i'
    BY <2>1, <1>3, <1>5, <1>8
  <2> QED  BY <2>1, <2>3, <2>4, <1>1, <1>2, <1>4 DEF Inside
<1> QED  BY <1>7, <1>8

(* Parts put one after the other. *)
PartsIn(s, m) ==
  /\ s \in Seq(Part)
  /\ \A n \in 1..Len(s) : IsPart(s[n].begin, s[n].end, m)

InOrder(s) == \A a, b \in 1..Len(s) : a < b => s[a].end < s[b].begin

LEMMA ConcatParts ==
  ASSUME NEW s \in Seq(Part), NEW t \in Seq(Part)
  PROVE  /\ s \o t \in Seq(Part)
         /\ \A a \in 1..Len(s \o t) :
              \/ a <= Len(s) /\ a \in 1..Len(s) /\ (s \o t)[a] = s[a]
              \/ a > Len(s) /\ a - Len(s) \in 1..Len(t) /\ (s \o t)[a] = t[a - Len(s)]
         /\ \A a \in 1..Len(s) : a \in 1..Len(s \o t) /\ (s \o t)[a] = s[a]
         /\ \A a \in 1..Len(t) :
              a + Len(s) \in 1..Len(s \o t) /\ (s \o t)[a + Len(s)] = t[a]
<1>1. s \o t \in Seq(Part) /\ Len(s \o t) = Len(s) + Len(t)
      /\ Len(s) \in Nat /\ Len(t) \in Nat
  BY ConcatProperties
<1>2. \A a \in 1..(Len(s) + Len(t)) :
        (s \o t)[a] = IF a <= Len(s) THEN s[a] ELSE t[a - Len(s)]
  BY ConcatProperties
<1>3. ASSUME NEW a \in 1..Len(s \o t)
      PROVE  \/ a <= Len(s) /\ a \in 1..Len(s) /\ (s \o t)[a] = s[a]
             \/ a > Len(s) /\ a - Len(s) \in 1..Len(t) /\ (s \o t)[a] = t[a - Len(s)]
  <2>1. CASE a <= Len(s)
    BY <2>1, <1>1, <1>2
  <2>2. CASE ~ a <= Len(s)
    <3>1. a > Len(s) /\ a - Len(s) \in 1..Len(t)
      BY <2>2, <1>1
    <3> QED  BY <2>2, <3>1, <1>1, <1>2
  <2> QED  BY <2>1, <2>2
<1>4. ASSUME NEW a \in 1..Len(s)
      PROVE  a \in 1..Len(s \o t) /\ (s \o t)[a] = s[a]
  BY <1>1, <1>2
<1>5. ASSUME NEW a \in 1..Len(t)
      PROVE  a + Len(s) \in 1..Len(s \o t) /\ (s \o t)[a + Len(s)] = t[a]
  <2>1. a + Len(s) \in 1..(Len(s) + Len(t)) /\ ~ a + Len(s) <= Len(s)
        /\ (a + Len(s)) - Len(s) = a
    BY <1>1
  <2>2. (s \o t)[a + Len(s)] = t[(a + Len(s)) - Len(s)]
    BY <2>1, <1>2
  <2> QED  BY <2>1, <2>2, <1>1
<1> QED  BY <1>1, <1>3, <1>4, <1>5

LEMMA ConcatPartsIn ==
  ASSUME NEW m \in Nat, NEW s, NEW t, PartsIn(s, m), PartsIn(t, m)
  PROVE  PartsIn(s \o t, m)
<1>1. s \in Seq(Part) /\ t \in Seq(Part)
  BY DEF PartsIn
<1>2. ASSUME NEW n \in 1..Len(s \o t)
      PROVE  IsPart((s \o t)[n].begin, (s \o t)[n].end, m)
  <2>1. CASE n \in 1..Len(s) /\ (s \o t)[n] = s[n]
    BY <2>1 DEF PartsIn
  <2>2. CASE n - Len(s) \in 1..Len(t) /\ (s \o t)[n] = t[n - Len(s)]
    BY <2>2 DEF PartsIn
  <2> QED  BY <2>1, <2>2, <1>1, ConcatParts
<1> QED  BY <1>1, <1>2, ConcatParts DEF PartsIn

LEMMA ConcatInOrder ==
  ASSUME NEW s \in Seq(Part), NEW t \in Seq(Part), InOrder(s), InOrder(t),
         \A a \in 1..Len(s), b \in 1..Len(t) : s[a].end < t[b].begin
  PROVE  InOrder(s \o t)
<1> SUFFICES ASSUME NEW a \in 1..Len(s \o t), NEW b \in 1..Len(s \o t), a < b
             PROVE  (s \o t)[a].end < (s \o t)[b].begin
  BY DEF InOrder
<1>1. Len(s) \in Nat /\ Len(t) \in Nat /\ Len(s \o t) \in Nat
  BY ConcatParts, LenProperties
<1>2. \/ a <= Len(s) /\ a \in 1..Len(s) /\ (s \o t)[a] = s[a]
      \/ a > Len(s) /\ a - Len(s) \in 1..Len(t) /\ (s \o t)[a] = t[a - Len(s)]
  BY ConcatParts
<1>3. \/ b <= Len(s) /\ b \in 1..Len(s) /\ (s \o t)[b] = s[b]
      \/ b > Len(s) /\ b - Len(s) \in 1..Len(t) /\ (s \o t)[b] = t[b - Len(s)]
  BY ConcatParts
<1>4. CASE b <= Len(s)
  <2>1. a <= Len(s)
    BY <1>1, <1>4
  <2>2. a \in 1..Len(s) /\ b \in 1..Len(s) /\ (s \o t)[a] = s[a] /\ (s \o t)[b] = s[b]
    BY <1>1, <1>2, <1>3, <1>4, <2>1
  <2> QED  BY <2>2 DEF InOrder
<1>5. CASE ~ b <= Len(s) /\ a <= Len(s)
  BY <1>1, <1>2, <1>3, <1>5
<1>6. CASE ~ b <= Len(s) /\ ~ a <= Len(s)
  <2>1. /\ a - Len(s) \in 1..Len(t) /\ (s \o t)[a] = t[a - Len(s)]
        /\ b - Len(s) \in 1..Len(t) /\ (s \o t)[b] = t[b - Len(s)]
        /\ a - Len(s) < b - Len(s)
    BY <1>1, <1>2, <1>3, <1>6
  <2> QED  BY <2>1 DEF InOrder
<1> QED  BY <1>4, <1>5, <1>6

Low == IF begin < j THEN <<[begin |-> begin, end |-> j]>> ELSE <<>>

High == IF i < end THEN <<[begin |-> i, end |-> end]>> ELSE <<>>

LEMMA SplitParts ==
  ASSUME NEW m \in Nat, Inside(m), Split
  PROVE  /\ IsPart(begin, end, m) /\ i \in Int /\ j \in Int
         /\ j < end /\ begin < i /\ j < i
         /\ PartsIn(Low, m) /\ PartsIn(High, m) /\ PartsIn(calls, m)
         /\ begin < j => Len(Low) = 1 /\ Low[1] = [begin |-> begin, end |-> j]
         /\ ~ begin < j => Low = <<>> /\ Len(Low) = 0
         /\ i < end => Len(High) = 1 /\ High[1] = [begin |-> i, end |-> end]
         /\ ~ i < end => High = <<>> /\ Len(High) = 0
         /\ calls' = Low \o High \o calls
<1>1. /\ at = "split" /\ IsPart(begin, end, m) /\ i \in Int /\ j \in Int
      /\ j < end /\ begin < i /\ j < i /\ PartsIn(calls, m)
  BY DEF Inside, Split, PartsIn
<1>2. ASSUME begin < j
      PROVE  PartsIn(Low, m) /\ Len(Low) = 1 /\ Low[1] = [begin |-> begin, end |-> j]
  <2>1. [begin |-> begin, end |-> j] \in Part /\ IsPart(begin, j, m)
    BY <1>1, <1>2 DEF Part, IsPart
  <2>2. Low = <<[begin |-> begin, end |-> j]>>
    BY <1>2 DEF Low
  <2> QED  BY <2>1, <2>2 DEF PartsIn
<1>3. ASSUME ~ begin < j
      PROVE  PartsIn(Low, m) /\ Low = <<>> /\ Len(Low) = 0
  BY <1>3 DEF Low, PartsIn
<1>4. ASSUME i < end
      PROVE  PartsIn(High, m) /\ Len(High) = 1 /\ High[1] = [begin |-> i, end |-> end]
  <2>1. [begin |-> i, end |-> end] \in Part /\ IsPart(i, end, m)
    BY <1>1, <1>4 DEF Part, IsPart
  <2>2. High = <<[begin |-> i, end |-> end]>>
    BY <1>4 DEF High
  <2> QED  BY <2>1, <2>2 DEF PartsIn
<1>5. ASSUME ~ i < end
      PROVE  PartsIn(High, m) /\ High = <<>> /\ Len(High) = 0
  BY <1>5 DEF High, PartsIn
<1>6. calls' = Low \o High \o calls
  BY DEF Split, Low, High
<1> QED  BY <1>1, <1>2, <1>3, <1>4, <1>5, <1>6

LEMMA SplitInside ==
  ASSUME NEW m \in Nat, Inside(m), Split
  PROVE  Inside(m)'
<1>1. PartsIn(calls, m)'
  <2>1. PartsIn(Low \o High, m)
    BY SplitParts, ConcatPartsIn
  <2>2. PartsIn(Low \o High \o calls, m)
    BY <2>1, SplitParts, ConcatPartsIn
  <2> QED  BY <2>2, SplitParts DEF PartsIn
<1>2. server' \in [0..m -> Values] /\ at' \in {"call", "sorted"}
      /\ (at' = "sorted" => calls' = <<>>)
  BY DEF Split, Inside
<1> QED  BY <1>1, <1>2 DEF Inside, PartsIn

-----------------------------------------------------------------------------
(* An exchange rearranges, once more. *)
LEMMA ExchangeKept ==
  ASSUME NEW m \in Nat, Inside(m), Kept(m), Exchange
  PROVE  Kept(m)'
<1>1. PICK u \in 0..m, d \in 0..m :
        server' = IF u <= d THEN Exchanged(u, d) ELSE server
  BY ExchangeStops
<1>2. server \in [0..m -> Values] /\ given' = given /\ given \in [0..m -> Values]
  BY ExchangeStops DEF Kept
<1>3. PICK p \in [0..m -> 0..m] :
        /\ \A k, n \in 0..m : p[k] = p[n] => k = n
        /\ \A k \in 0..m : server[k] = given[p[k]]
  BY DEF Kept
<1>4. CASE server' = server
  BY <1>2, <1>3, <1>4 DEF Kept
<1>5. CASE server' = Exchanged(u, d)
  <2> DEFINE q == [p EXCEPT ![u] = p[d], ![d] = p[u]]
  <2>1. q \in [0..m -> 0..m]
    OBVIOUS
  <2>2. \A k \in 0..m : q[k] = IF k = d THEN p[u] ELSE IF k = u THEN p[d] ELSE p[k]
    OBVIOUS
  <2>3. \A k, n \in 0..m : q[k] = q[n] => k = n
    BY <1>3, <2>2, ZenonT(60)
  <2>4. \A k \in 0..m : server'[k] =
          IF k = d THEN server[u] ELSE IF k = u THEN server[d] ELSE server[k]
    BY <1>2, <1>5 DEF Exchanged
  <2>5. \A k \in 0..m : server'[k] = given[q[k]]
    BY <1>3, <2>2, <2>4, ZenonT(60)
  <2> QED  BY <1>2, <2>1, <2>3, <2>5 DEF Kept
<1> QED  BY <1>1, <1>4, <1>5

-----------------------------------------------------------------------------
LEMMA CallOrdered ==
  ASSUME NEW m \in Nat, Inside(m), Ordered(m), Call
  PROVE  Ordered(m)'
<1>1. /\ calls \in Seq(Part) /\ calls # <<>> /\ at = "call" /\ at' = "scan"
      /\ \A n \in 1..Len(calls) : IsPart(calls[n].begin, calls[n].end, m)
      /\ server \in [0..m -> Rankings] /\ server' = server
      /\ i' = begin' /\ j' = end' /\ half' = server[(begin' + end') \div 2]
      /\ begin' = Head(calls).begin /\ end' = Head(calls).end /\ calls' = Tail(calls)
  BY DEF Inside, Ordered, Call
<1>2. Len(calls) \in Nat \ {0} /\ Head(calls) = calls[1] /\ 1 \in 1..Len(calls)
  BY <1>1, EmptySeq
<1>3. /\ Tail(calls) \in Seq(Part) /\ Len(Tail(calls)) = Len(calls) - 1
      /\ \A n \in 1..Len(Tail(calls)) : Tail(calls)[n] = calls[n + 1]
  BY <1>1, HeadTailProperties
<1>4. \A a \in 1..Len(calls') : a + 1 \in 1..Len(calls) /\ calls'[a] = calls[a + 1]
  BY <1>1, <1>2, <1>3
<1>5. IsPart(begin', end', m)
  BY <1>1, <1>2
<1>6. PartsOrdered'
  <2>0. \A a, b \in 1..Len(calls) : a < b => calls[a].end < calls[b].begin
    BY DEF Ordered, PartsOrdered
  <2>1. \A a, b \in 1..Len(calls') : a < b => calls'[a].end < calls'[b].begin
    <3>1. \A a \in 1..Len(calls') : a \in Int
      BY <1>1, <1>3
    <3>2. SUFFICES ASSUME NEW a \in 1..Len(calls'), NEW b \in 1..Len(calls'), a < b
                   PROVE  calls'[a].end < calls'[b].begin
      OBVIOUS
    <3>3. a + 1 < b + 1
      BY <3>1, <3>2
    <3> QED  BY <1>4, <2>0, <3>3
  <2>2. \A a \in 1..Len(calls') : end' < calls'[a].begin
    BY <1>1, <1>2, <1>4, <2>0
  <2> QED  BY <2>1, <2>2 DEF PartsOrdered
<1>7. Partitioned'
  <2>1. (begin' + end') \div 2 \in begin'..end'
    BY <1>5, MiddleInside DEF IsPart
  <2>2. (begin' + end') \div 2 \in 0..m
    <3> DEFINE b == begin'
               e == end'
    <3>1. b \in Int /\ e \in Int /\ b <= e /\ 0 <= b /\ e <= m
      BY <1>5 DEF IsPart
    <3> HIDE DEF b, e
    <3>2. (b + e) \div 2 \in 0..m
      BY <3>1, MiddleInside
    <3> QED  BY <3>2 DEF b, e
  <2>3. half' \in Rankings
    BY <1>1, <2>2
  <2>4. begin'..(i' - 1) = {} /\ (j' + 1)..end' = {}
    <3>1. PICK b, e \in Int : i' = b /\ begin' = b /\ j' = e /\ end' = e
      BY <1>1, <1>5 DEF IsPart
    <3>2. b..(b - 1) = {} /\ (e + 1)..e = {}
      OBVIOUS
    <3> QED  BY <3>1, <3>2
  <2> QED  BY <2>3, <2>4 DEF Partitioned
<1>8. ASSUME NEW k \in 0..m, NEW n \in 0..m, Together(k, n)
      PROVE  Together(k, n)'
  <2>1. PICK a \in 1..Len(calls) : calls[a].begin <= k /\ n <= calls[a].end
    BY <1>1, <1>8 DEF Together
  <2>2. CASE a = 1
    BY <2>1, <2>2, <1>1, <1>2 DEF Together
  <2>3. CASE a # 1
    <3>1. a - 1 \in 1..Len(calls') /\ (a - 1) + 1 = a
      BY <2>3, <1>1, <1>2, <1>3
    <3>2. calls'[a - 1] = calls[a]
      BY <3>1, <1>4
    <3> QED  BY <2>1, <3>1, <3>2 DEF Together
  <2> QED  BY <2>2, <2>3
<1> QED  BY <1>1, <1>6, <1>7, <1>8 DEF Ordered

LEMMA ExchangeOrdered ==
  ASSUME NEW m \in Nat, Inside(m), Ordered(m), Exchange
  PROVE  Ordered(m)'
<1>1. /\ IsPart(begin, end, m)
      /\ i \in Int /\ j \in Int /\ begin <= i /\ i <= j /\ j <= end
      /\ UNCHANGED <<given, calls, begin, end, half>>
  BY ExchangeStops
<1>2. PICK u \in 0..m, d \in 0..m :
        /\ FirstUp(u) /\ FirstDown(d)
        /\ i <= u /\ u <= end /\ begin <= d /\ d <= j
        /\ server' = IF u <= d THEN Exchanged(u, d) ELSE server
        /\ i' = IF u <= d THEN u + 1 ELSE u
        /\ j' = IF u <= d THEN d - 1 ELSE d
        /\ at' = IF i' <= j' THEN "scan" ELSE "split"
  BY ExchangeStops
<1>3. at = "scan" /\ at' \in {"scan", "split"} /\ server \in [0..m -> Rankings]
      /\ DOMAIN server = 0..m /\ Partitioned
  BY <1>2 DEF Exchange, Ordered
<1>4. server' \in [0..m -> Rankings]
  BY <1>2, <1>3 DEF Exchanged
<1>5. half \in Int /\ \A k \in 0..m : server[k] \in Int
  BY <1>3, QuickSortAssumption DEF Partitioned
(* Up to the stops the entries are smaller or greater than the pivot. *)
<1>6. \A k \in 0..m : begin <= k /\ k < u => server[k] <= half
  <2> SUFFICES ASSUME NEW k \in 0..m, begin <= k, k < u
               PROVE  server[k] <= half
    OBVIOUS
  <2>1. CASE k < i
    <3>1. k \in begin..(i - 1)
      BY <2>1, <1>1 DEF IsPart
    <3> QED  BY <3>1, <1>3 DEF Partitioned
  <2>2. CASE ~ k < i
    <3>1. k \notin Up
      BY <1>2 DEF FirstUp
    <3>2. Less(server[k], half)
      BY <2>2, <3>1, <1>1, <1>3 DEF Up
    <3> QED  BY <3>2, <1>5 DEF Less
  <2> QED  BY <2>1, <2>2
<1>7. \A k \in 0..m : d < k /\ k <= end => half <= server[k]
  <2> SUFFICES ASSUME NEW k \in 0..m, d < k, k <= end
               PROVE  half <= server[k]
    OBVIOUS
  <2>1. CASE k > j
    <3>1. k \in (j + 1)..end
      BY <2>1, <1>1 DEF IsPart
    <3> QED  BY <3>1, <1>3 DEF Partitioned
  <2>2. CASE ~ k > j
    <3>1. k \notin Down
      BY <1>2 DEF FirstDown
    <3>2. Less(half, server[k])
      BY <2>2, <3>1, <1>1, <1>3 DEF Down
    <3> QED  BY <3>2, <1>5 DEF Less
  <2> QED  BY <2>1, <2>2
<1>8. half <= server[u] /\ server[d] <= half
  <2>1. ~ Less(server[u], half) /\ ~ Less(half, server[d])
    BY <1>2 DEF FirstUp, FirstDown, Up, Down
  <2>2. server[u] \in Rankings /\ server[d] \in Rankings /\ half \in Rankings
    BY <1>3 DEF Partitioned
  <2> QED  BY <2>1, <2>2, <1>5 DEF Less
<1>9. u <= d => \A k \in 0..m : server'[k] =
        IF k = d THEN server[u] ELSE IF k = u THEN server[d] ELSE server[k]
  BY <1>2, <1>3 DEF Exchanged
<1>10. ~ u <= d => server' = server
  BY <1>2
<1>11. Partitioned'
  <2>1. half' \in Rankings /\ half' = half /\ begin' = begin /\ end' = end
    BY <1>1, <1>3 DEF Partitioned
  <2>2. ASSUME NEW k \in begin'..(i' - 1)
        PROVE  server'[k] <= half'
    <3>1. k \in 0..m /\ begin <= k
      BY <2>1, <1>1, <1>2 DEF IsPart
    <3>2. CASE u <= d
      <4>1. i' = u + 1 /\ k <= u
        BY <3>2, <1>2
      <4>2. CASE k = u
        BY <4>2, <3>1, <3>2, <1>8, <1>9, <2>1
      <4>3. CASE k # u
        <5>1. k < u /\ k # d
          BY <4>1, <4>3, <3>1, <3>2
        <5> QED  BY <5>1, <4>3, <3>1, <3>2, <1>6, <1>9, <2>1
      <4> QED  BY <4>2, <4>3
    <3>3. CASE ~ u <= d
      <4>1. k < u
        BY <3>3, <1>2
      <4> QED  BY <4>1, <3>1, <3>3, <1>6, <1>10, <2>1
    <3> QED  BY <3>2, <3>3
  <2>3. ASSUME NEW k \in (j' + 1)..end'
        PROVE  half' <= server'[k]
    <3>1. k \in 0..m /\ k <= end
      BY <2>1, <1>1, <1>2 DEF IsPart
    <3>2. CASE u <= d
      <4>1. j' = d - 1 /\ d <= k
        BY <3>2, <1>2
      <4>2. CASE k = d
        BY <4>2, <3>1, <3>2, <1>8, <1>9, <2>1
      <4>3. CASE k # d
        <5>1. d < k /\ k # u
          BY <4>1, <4>3, <3>1, <3>2
        <5> QED  BY <5>1, <4>3, <3>1, <3>2, <1>7, <1>9, <2>1
      <4> QED  BY <4>2, <4>3
    <3>3. CASE ~ u <= d
      <4>1. d < k
        BY <3>3, <1>2
      <4> QED  BY <4>1, <3>1, <3>3, <1>7, <1>10, <2>1
    <3> QED  BY <3>2, <3>3
  <2> QED  BY <2>1, <2>2, <2>3 DEF Partitioned
<1>12. PartsOrdered'
  BY <1>1, <1>3 DEF Ordered, PartsOrdered
<1>13. \A k, n \in 0..m : Together(k, n)' <=> Together(k, n)
  BY <1>1, <1>3 DEF Together
(* An entry comes from its own place or from another of the part. *)
<1>14. \A k \in 0..m : \E h \in 0..m :
         /\ server'[k] = server[h]
         /\ h = k \/ (begin <= k /\ k <= end /\ begin <= h /\ h <= end)
  <2>1. begin <= u /\ d <= end
    BY <1>1, <1>2 DEF IsPart
  <2> SUFFICES ASSUME NEW k \in 0..m
               PROVE  \E h \in 0..m :
                        /\ server'[k] = server[h]
                        /\ h = k \/ (begin <= k /\ k <= end /\ begin <= h /\ h <= end)
    OBVIOUS
  <2>2. CASE u <= d /\ k = d
    BY <2>1, <2>2, <1>2, <1>9
  <2>3. CASE u <= d /\ k # d /\ k = u
    BY <2>1, <2>3, <1>2, <1>9
  <2>4. CASE u <= d /\ k # d /\ k # u
    BY <2>4, <1>9
  <2>5. CASE ~ u <= d
    BY <2>5, <1>10
  <2> QED  BY <2>2, <2>3, <2>4, <2>5
<1>15. ASSUME NEW k \in 0..m, NEW n \in 0..m, k < n, ~ Together(k, n)
       PROVE  server'[k] <= server'[n]
  <2>1. PICK h \in 0..m :
          /\ server'[k] = server[h]
          /\ h = k \/ (begin <= k /\ k <= end /\ begin <= h /\ h <= end)
    BY <1>14
  <2>2. PICK x \in 0..m :
          /\ server'[n] = server[x]
          /\ x = n \/ (begin <= n /\ n <= end /\ begin <= x /\ x <= end)
    BY <1>14
  <2>3. ~ (begin <= k /\ n <= end)
    BY <1>3, <1>15 DEF Together
  <2>4. h < x
    BY <2>1, <2>2, <2>3, <1>1, <1>15 DEF IsPart
  <2>5. ~ Together(h, x)
    <3>1. ~ (begin <= h /\ x <= end)
      BY <2>1, <2>2, <2>3, <1>1, <1>15 DEF IsPart
    <3>2. ASSUME NEW a \in 1..Len(calls), calls[a].begin <= h, x <= calls[a].end
          PROVE  FALSE
      <4>1. end < calls[a].begin /\ calls[a].begin \in Int /\ calls[a].end \in Int
        BY <1>3 DEF Ordered, PartsOrdered, Inside, IsPart
      <4>2. h = k
        BY <4>1, <3>2, <2>1, <1>1, SMTT(60) DEF IsPart
      <4>3. x = n
        BY <4>1, <4>2, <3>2, <2>2, <1>1, <1>15 DEF IsPart
      <4> QED  BY <4>2, <4>3, <3>2, <1>15 DEF Together
    <3> QED  BY <3>1, <3>2 DEF Together
  <2>6. server[h] <= server[x]
    BY <2>4, <2>5 DEF Ordered
  <2> QED  BY <2>1, <2>2, <2>6
<1> QED  BY <1>3, <1>4, <1>11, <1>12, <1>13, <1>15 DEF Ordered

LEMMA SplitOrdered ==
  ASSUME NEW m \in Nat, Inside(m), Ordered(m), Split
  PROVE  Ordered(m)'
<1>1. /\ IsPart(begin, end, m) /\ i \in Int /\ j \in Int
      /\ j < end /\ begin < i /\ j < i
      /\ PartsIn(Low, m) /\ PartsIn(High, m) /\ PartsIn(calls, m)
      /\ begin < j => Len(Low) = 1 /\ Low[1] = [begin |-> begin, end |-> j]
      /\ ~ begin < j => Low = <<>> /\ Len(Low) = 0
      /\ i < end => Len(High) = 1 /\ High[1] = [begin |-> i, end |-> end]
      /\ ~ i < end => High = <<>> /\ Len(High) = 0
      /\ calls' = Low \o High \o calls
  BY SplitParts
<1>2. at = "split" /\ at' \in {"call", "sorted"} /\ server' = server
      /\ server \in [0..m -> Rankings] /\ Partitioned
  BY DEF Split, Ordered
<1>3. Low \in Seq(Part) /\ High \in Seq(Part) /\ calls \in Seq(Part)
      /\ Low \o High \in Seq(Part)
  BY <1>1, ConcatParts DEF PartsIn
<1>4. InOrder(Low) /\ InOrder(High) /\ InOrder(calls)
  <2>1. InOrder(Low)
    BY <1>1 DEF InOrder
  <2>2. InOrder(High)
    BY <1>1 DEF InOrder
  <2>3. InOrder(calls)
    BY DEF Ordered, PartsOrdered, InOrder
  <2> QED  BY <2>1, <2>2, <2>3
<1>5. \A a \in 1..Len(Low) : begin < j /\ Low[a] = [begin |-> begin, end |-> j]
  BY <1>1
<1>6. \A a \in 1..Len(High) : i < end /\ High[a] = [begin |-> i, end |-> end]
  BY <1>1
<1>7. InOrder(Low \o High)
  <2>1. \A a \in 1..Len(Low), b \in 1..Len(High) : Low[a].end < High[b].begin
    BY <1>1, <1>5, <1>6
  <2> QED  BY <2>1, <1>3, <1>4, ConcatInOrder
<1>8. \A a \in 1..Len(Low \o High), b \in 1..Len(calls) :
        (Low \o High)[a].end < calls[b].begin
  <2> SUFFICES ASSUME NEW a \in 1..Len(Low \o High), NEW b \in 1..Len(calls)
               PROVE  (Low \o High)[a].end < calls[b].begin
    OBVIOUS
  <2>1. end < calls[b].begin /\ calls[b].begin \in Int
    BY <1>1, <1>2 DEF Ordered, PartsOrdered, PartsIn, IsPart
  <2>2. (Low \o High)[a].end = j \/ (Low \o High)[a].end = end
    <3>1. CASE a \in 1..Len(Low) /\ (Low \o High)[a] = Low[a]
      BY <3>1, <1>5
    <3>2. CASE a - Len(Low) \in 1..Len(High) /\ (Low \o High)[a] = High[a - Len(Low)]
      BY <3>2, <1>6
    <3> QED  BY <3>1, <3>2, <1>3, ConcatParts
  <2>3. end \in Int /\ j \in Int /\ j < end
    BY <1>1 DEF IsPart
  <2> QED  BY <2>1, <2>2, <2>3, SMTT(60)
<1>9. PartsOrdered'
  <2>1. InOrder(Low \o High \o calls)
    BY <1>3, <1>4, <1>7, <1>8, ConcatInOrder
  <2> QED  BY <2>1, <1>1, <1>2 DEF InOrder, PartsOrdered
<1>10. ASSUME NEW k \in 0..m, NEW n \in 0..m, k < n, ~ Together(k, n)'
       PROVE  server[k] <= server[n]
  <2>1. half \in Int /\ server[k] \in Int /\ server[n] \in Int
    BY <1>2, QuickSortAssumption DEF Partitioned
  <2>2. ~ (begin < j /\ begin <= k /\ n <= j)
    <3> SUFFICES ASSUME begin < j, begin <= k, n <= j PROVE FALSE
      OBVIOUS
    <3>0. Len(Low) = 1 /\ Low[1] = [begin |-> begin, end |-> j]
      BY <1>1, Zenon
    <3>1. 1 \in 1..Len(Low) /\ Low[1] = [begin |-> begin, end |-> j]
      BY <3>0
    <3>2. 1 \in 1..Len(Low \o High) /\ (Low \o High)[1] = Low[1]
      BY <3>1, <1>3, ConcatParts
    <3>3. 1 \in 1..Len(calls') /\ calls'[1] = Low[1]
      BY <3>2, <1>1, <1>3, ConcatParts
    <3> QED  BY <3>1, <3>3, <1>10 DEF Together
  <2>3. ~ (i < end /\ i <= k /\ n <= end)
    <3> SUFFICES ASSUME i < end, i <= k, n <= end PROVE FALSE
      OBVIOUS
    <3>0. Len(High) = 1 /\ High[1] = [begin |-> i, end |-> end]
      BY <1>1, Zenon
    <3>1. 1 \in 1..Len(High) /\ High[1] = [begin |-> i, end |-> end]
      BY <3>0
    <3>2. 1 + Len(Low) \in 1..Len(Low \o High) /\ (Low \o High)[1 + Len(Low)] = High[1]
      BY <3>1, <1>3, ConcatParts
    <3>3. 1 + Len(Low) \in 1..Len(calls') /\ calls'[1 + Len(Low)] = High[1]
      BY <3>2, <1>1, <1>3, ConcatParts
    <3> QED  BY <3>1, <3>3, <1>10 DEF Together
  <2>4. ~ \E a \in 1..Len(calls) : calls[a].begin <= k /\ n <= calls[a].end
    <3> SUFFICES ASSUME NEW a \in 1..Len(calls), calls[a].begin <= k, n <= calls[a].end
                 PROVE  FALSE
      OBVIOUS
    <3>1. /\ a + Len(Low \o High) \in 1..Len(calls')
          /\ calls'[a + Len(Low \o High)] = calls[a]
      BY <1>1, <1>3, ConcatParts, SMTT(60)
    <3> QED  BY <3>1, <1>10 DEF Together
  <2>5. CASE ~ (begin <= k /\ n <= end)
    <3>1. ~ Together(k, n)
      BY <2>4, <2>5 DEF Together
    <3> QED  BY <3>1, <1>10 DEF Ordered
  <2>6. CASE begin <= k /\ n <= end
    <3>1. k < i /\ j < n
      BY <2>2, <2>3, <2>6, <1>1, <1>10 DEF IsPart
    <3>2. k \in begin..(i - 1) /\ n \in (j + 1)..end
      BY <3>1, <2>6, <1>1 DEF IsPart
    <3>3. server[k] <= half /\ half <= server[n]
      BY <3>2, <1>2 DEF Partitioned
    <3> QED  BY <3>3, <2>1
  <2> QED  BY <2>5, <2>6
<1> QED  BY <1>2, <1>9, <1>10 DEF Ordered

-----------------------------------------------------------------------------
LEMMA SortNextInv == SortIInv /\ [SortNext]_sortVars => SortIInv'
<1> SUFFICES ASSUME NEW m \in Nat, Inside(m), Kept(m),
                    given \in [0..m -> Rankings] => Ordered(m),
                    [SortNext]_sortVars
             PROVE  /\ Inside(m)'
                    /\ Kept(m)'
                    /\ (given \in [0..m -> Rankings] => Ordered(m))'
  BY DEF SortIInv
<1>1. CASE Call
  <2>1. given' = given /\ Kept(m)'
    BY <1>1 DEF Call, Kept
  <2> QED  BY <1>1, <2>1, CallInside, CallOrdered
<1>2. CASE Exchange
  <2>1. given' = given
    BY <1>2 DEF Exchange
  <2> QED  BY <1>2, <2>1, ExchangeInside, ExchangeKept, ExchangeOrdered
<1>3. CASE Split
  <2>1. given' = given /\ Kept(m)'
    BY <1>3 DEF Split, Kept
  <2> QED  BY <1>3, <2>1, SplitInside, SplitOrdered
<1>4. CASE UNCHANGED sortVars
  <2>1. Inside(m)'
    BY <1>4 DEF sortVars, Inside, Fresh, Flanked, Less
  <2>2. Kept(m)'
    BY <1>4 DEF sortVars, Kept
  <2>3. (given \in [0..m -> Rankings] => Ordered(m))'
    BY <1>4 DEF sortVars, Ordered, PartsOrdered, Partitioned, Together
  <2> QED  BY <2>1, <2>2, <2>3
<1> QED  BY <1>1, <1>2, <1>3, <1>4 DEF SortNext

LEMMA InsideIsInside == SortIInv => ScansStayInside
<1> SUFFICES ASSUME NEW m \in Nat, Inside(m)
             PROVE  ScansStayInside
  BY DEF SortIInv
<1>1. at = "scan" => /\ \E k \in Up : k <= end
                     /\ \E k \in Down : k >= begin
  BY StopsInside
<1>2. at = "split" => j < end /\ begin < i
  BY DEF Inside
<1>3. ASSUME NEW n \in DOMAIN calls
      PROVE  calls[n].begin \in DOMAIN server /\ calls[n].end \in DOMAIN server
  <2>1. DOMAIN server = 0..m /\ n \in 1..Len(calls)
    BY <1>3 DEF Inside
  <2>2. IsPart(calls[n].begin, calls[n].end, m)
    BY <2>1 DEF Inside
  <2> QED  BY <2>1, <2>2 DEF IsPart
<1> QED  BY <1>1, <1>2, <1>3 DEF ScansStayInside

LEMMA OrderedIsSorted == SortIInv => SortedAtEnd
<1> SUFFICES ASSUME NEW m \in Nat, Inside(m), Kept(m),
                    given \in [0..m -> Rankings] => Ordered(m),
                    at = "sorted"
             PROVE  SortedAtEnd
  BY DEF SortIInv, SortedAtEnd
<1>1. calls = <<>> /\ DOMAIN server = 0..m /\ DOMAIN given = 0..m
      /\ server \in [0..m -> Values] /\ given \in [0..m -> Values]
  BY DEF Inside, Kept
<1>3. Rearranged(server, given)
  <2>1. PICK p \in [0..m -> 0..m] :
          /\ \A k, n \in 0..m : p[k] = p[n] => k = n
          /\ \A k \in 0..m : server[k] = given[p[k]]
    BY DEF Kept
  <2>2. server = [k \in 0..m |-> given[p[k]]]
    BY <2>1, <1>1
  <2> QED  BY <2>1, <2>2, <1>1 DEF Rearranged
<1>2. ASSUME \A k \in DOMAIN given : given[k] \in Rankings,
             NEW k \in 0..m, NEW n \in 0..m, k < n
      PROVE  server[k] <= server[n]
  <2>1. given \in [0..m -> Rankings]
    BY <1>1, <1>2
  <2>2. ~ Together(k, n)
    BY <1>1 DEF Together
  <2> QED  BY <2>1, <2>2, <1>2 DEF Ordered
<1> QED  BY <1>1, <1>2, <1>3 DEF SortedAtEnd

-----------------------------------------------------------------------------
(* No entry outside the part that is sorted stops a scan of quickSort, so  *)
(* none outside the array is read although the loop tests no bounds; and   *)
(* when quickSort returns the array holds what it held before, in order if *)
(* all rankings are numbers.                                               *)
THEOREM SortCorrect == SortSpec => []SortIsRight
<1>1. SortSpec => []SortIInv
  BY SortInitInv, SortNextInv, PTL DEF SortSpec
<1>2. SortIInv => SortIsRight
  BY InsideIsInside, OrderedIsSorted DEF SortIsRight
<1> QED  BY <1>1, <1>2, PTL

-----------------------------------------------------------------------------
(* The arguments.                                                           *)

(* Every setting keeps its kind: a flag is 0 or 1, and no switch is lost.   *)
Kinds ==
  /\ setting = [s \in DOMAIN setting |-> setting[s]]
  /\ Flags \cup DOMAIN Numbers \subseteq DOMAIN setting
  /\ \A s \in Flags : setting[s] \in {0, 1}

(* A number is left as it was, or has passed its test.                     *)
WithinLimits ==
  \A s \in DOMAIN Numbers : setting[s] \in Numbers[s].limits \cup {Numbers[s].default}

(* A flag is never taken back, so the test of the order holds for good.    *)
CappingFirst == setting[Aggressiveness] # 0 => setting[Capping] = 1

(* The value that makes the parser refuse is stored all the same: what is  *)
(* promised holds as long as the program goes on.                          *)
OptionsInv ==
  outcome \notin {"refused", "crashed"} => Kinds /\ WithinLimits /\ CappingFirst

-----------------------------------------------------------------------------
LEMMA NumberNames ==
  /\ DOMAIN Numbers = {n.name : n \in NumberSwitches}
  /\ Flags \cap {n.name : n \in NumberSwitches} = {}
<1>1. DOMAIN Numbers = {n.name : n \in NumberSwitches}
  BY DEF Numbers
<1>2. ASSUME NEW n \in NumberSwitches PROVE n.name \notin Flags
  BY DEF NumberSwitches, Number, Flags, Aggressiveness, ServersInChassis, Chassis
<1> QED
  BY <1>1, <1>2

(* Every switch is in the table once: what CHOOSE finds is its row.         *)
LEMMA OnlyRow ==
  ASSUME NEW n \in NumberSwitches,
         \A m \in NumberSwitches : m.name = n.name => m = n
  PROVE  n.name \in DOMAIN Numbers /\ Numbers[n.name] = n
<1>1. n.name \in DOMAIN Numbers
  BY DEF Numbers
<1>2. Numbers[n.name] = CHOOSE m \in NumberSwitches : m.name = n.name
  BY <1>1 DEF Numbers
<1>3. (CHOOSE m \in NumberSwitches : m.name = n.name) = n
  OBVIOUS
<1> QED
  BY <1>1, <1>2, <1>3

LEMMA SizeLimits ==
  /\ Numbers[ServersInChassis] = Number(ServersInChassis, 10, 1..60)
  /\ Numbers[Chassis] = Number(Chassis, 50, 1..50)
  /\ Numbers[Aggressiveness] = Number(Aggressiveness, 0, 0..20)
  /\ {Aggressiveness, ServersInChassis, Chassis} \subseteq DOMAIN Numbers
<1> DEFINE OnlyOne(n) ==
      n \in NumberSwitches /\ \A m \in NumberSwitches : m.name = n.name => m = n
<1>1. OnlyOne(Number(ServersInChassis, 10, 1..60))
  BY DEF NumberSwitches, Number, Aggressiveness, ServersInChassis, Chassis
<1>2. OnlyOne(Number(Chassis, 50, 1..50))
  BY DEF NumberSwitches, Number, Aggressiveness, ServersInChassis, Chassis
<1>3. OnlyOne(Number(Aggressiveness, 0, 0..20))
  BY DEF NumberSwitches, Number, Aggressiveness, ServersInChassis, Chassis
<1>4. \A s, d, l : Number(s, d, l).name = s
  BY DEF Number
<1> QED
  BY <1>1, <1>2, <1>3, <1>4, OnlyRow

(* No switch is both a flag and a number. *)
LEMMA SwitchKinds ==
  /\ Flags \cap DOMAIN Numbers = {}
  /\ Capping \in Flags
  /\ {Aggressiveness, ServersInChassis, Chassis} \subseteq DOMAIN Numbers
BY NumberNames, SizeLimits DEF Flags, Capping

LEMMA OptionsStart == OptionsInit => OptionsInv
<1> SUFFICES ASSUME OptionsInit PROVE OptionsInv
  OBVIOUS
<1> DEFINE D == Flags \cup DOMAIN Numbers \cup DOMAIN PredictionSettings
<1>1. DOMAIN setting = D /\ setting = [s \in DOMAIN setting |-> setting[s]]
  BY DEF OptionsInit
<1>2. \A s \in Flags : setting[s] = 0
  BY DEF OptionsInit
<1>3. \A s \in DOMAIN Numbers : setting[s] = Numbers[s].default
  BY SwitchKinds DEF OptionsInit
<1>4. setting[Aggressiveness] = 0
  BY <1>3, SwitchKinds, SizeLimits DEF Number
<1> QED
  BY <1>1, <1>2, <1>3, <1>4 DEF OptionsInv, Kinds, WithinLimits, CappingFirst

LEMMA OptionsStep == OptionsInv /\ [OptionsNext]_optionVars => OptionsInv'
<1> SUFFICES ASSUME OptionsInv, [OptionsNext]_optionVars,
                    outcome' \notin {"refused", "crashed"}
             PROVE  Kinds' /\ WithinLimits' /\ CappingFirst'
  BY DEF OptionsInv
<1>1. CASE SetFlag
  <2>1. Kinds /\ WithinLimits /\ CappingFirst /\ sw \in Flags /\ sw \notin DOMAIN Numbers
    BY <1>1, SwitchKinds DEF OptionsInv, SetFlag, Reading
  <2>2. setting' = [setting EXCEPT ![sw] = 1] /\ DOMAIN setting' = DOMAIN setting
    BY <1>1 DEF SetFlag
  <2>3. \A s \in DOMAIN Numbers : setting'[s] = setting[s]
    BY <2>1, <2>2 DEF Kinds
  <2>4. \A s \in Flags : setting'[s] \in {0, 1} /\ (setting[s] = 1 => setting'[s] = 1)
    BY <2>1, <2>2 DEF Kinds
  <2> QED
    BY <2>1, <2>2, <2>3, <2>4, SwitchKinds DEF Kinds, WithinLimits, CappingFirst
<1>2. CASE SetNumber
  <2> DEFINE value == atoi(argv[optind + 1])
  <2>1. /\ Kinds /\ WithinLimits /\ CappingFirst /\ sw \in DOMAIN Numbers /\ sw \notin Flags
        /\ ~ Refused(sw, value)
    BY <1>2, SwitchKinds DEF OptionsInv, SetNumber, Reading
  <2>2. setting' = [setting EXCEPT ![sw] = value] /\ DOMAIN setting' = DOMAIN setting
    BY <1>2 DEF SetNumber
  <2>3. \A s \in Flags : setting'[s] = setting[s]
    BY <2>1, <2>2 DEF Kinds
  <2>4. value \in Numbers[sw].limits /\ (sw = Aggressiveness => setting[Capping] = 1)
    BY <2>1, SwitchKinds DEF Refused, Kinds
  <2>5. \A s \in DOMAIN Numbers : setting'[s] = IF s = sw THEN value ELSE setting[s]
    BY <2>1, <2>2 DEF Kinds
  <2>6. Kinds'
    BY <2>1, <2>2, <2>3 DEF Kinds
  <2>7. WithinLimits'
    BY <2>1, <2>4, <2>5 DEF WithinLimits
  <2>8. CappingFirst'
    BY <2>1, <2>3, <2>4, <2>5, SwitchKinds DEF CappingFirst
  <2> QED
    BY ONLY <2>6, <2>7, <2>8
<1>3. CASE SetText \/ Parsed \/ Run \/ UNCHANGED optionVars
  BY <1>3 DEF SetText, Parsed, Run, optionVars, Reading, OptionsInv,
              Kinds, WithinLimits, CappingFirst
<1>4. CASE Crash \/ UnknownSwitch
  BY <1>4 DEF Crash, UnknownSwitch
<1> QED
  BY <1>1, <1>2, <1>3, <1>4 DEF OptionsNext

(* With the 10 servers in a chassis that the usage text allows there are    *)
(* never more than 500 candidates: 50 chassis is the limit.                 *)
LEMMA CandidatesFit ==
  ASSUME WithinLimits, setting[ServersInChassis] <= 10
  PROVE  setting[ServersInChassis] * setting[Chassis] <= CHASSIxSERVER
<1> DEFINE n == setting[ServersInChassis]
           c == setting[Chassis]
<1>1. n \in 1..60 /\ c \in 1..50
  BY SwitchKinds, SizeLimits DEF WithinLimits, Number
<1> HIDE DEF n, c
<1>2. n \in 1..10 => n * c <= 500
  BY <1>1
<1> QED
  BY <1>1, <1>2 DEF CHASSIxSERVER, n, c

-----------------------------------------------------------------------------
(* When ParsingArguments lets the program run, every number is a default or *)
(* within its limits, the aggressiveness comes with capping, and the        *)
(* candidates of the schedulers fit their array, whatever the arguments.    *)
THEOREM SettingsStayTogether == OptionsSpec => []SettingsFitTogether
<1>1. OptionsInv => SettingsFitTogether
  <2> SUFFICES ASSUME OptionsInv, outcome = "run" PROVE SettingsFitTogether
    BY DEF SettingsFitTogether
  <2>1. WithinLimits /\ CappingFirst
    BY DEF OptionsInv
  <2> QED
    BY <2>1, CandidatesFit DEF SettingsFitTogether, WithinLimits, CappingFirst
<1> QED
  BY OptionsStart, OptionsStep, <1>1, PTL DEF OptionsSpec

-----------------------------------------------------------------------------
-----------------------------------------------------------------------------
(* The regressions.  Sums, products and quotients of the model are taken    *)
(* modulo P; the lemmas reason about integers that are the same up to a     *)
(* multiple of P, and find a quotient for every number that is not 0.       *)

Multiples == {P * k : k \in Int}

Same(a, b) == a - b \in Multiples

LEMMA ModulusType == P \in Nat /\ P > 1
BY ForecastAssumption

LEMMA MultiplesClosed ==
  /\ 0 \in Multiples
  /\ \A a, b \in Multiples : a \in Int /\ a + b \in Multiples /\ a - b \in Multiples
  /\ \A a \in Multiples, c \in Int : a * c \in Multiples
<1>1. P * 0 = 0 /\ 0 \in Int
  BY ModulusType
<1>2. ASSUME NEW a \in Multiples, NEW b \in Multiples
      PROVE  a \in Int /\ a + b \in Multiples /\ a - b \in Multiples
  <2>1. PICK k \in Int, l \in Int : a = P * k /\ b = P * l
    BY DEF Multiples
  <2>2. a + b = P * (k + l) /\ a - b = P * (k - l) /\ a \in Int
    BY <2>1, ModulusType
  <2> QED  BY <2>1, <2>2 DEF Multiples
<1>3. ASSUME NEW a \in Multiples, NEW c \in Int PROVE a * c \in Multiples
  <2>1. PICK k \in Int : a = P * k
    BY DEF Multiples
  <2>2. a * c = P * (k * c) /\ k * c \in Int
    BY <2>1, ModulusType
  <2> QED  BY <2>2 DEF Multiples
<1> QED  BY <1>1, <1>2, <1>3 DEF Multiples

LEMMA SameItself == ASSUME NEW a \in Int PROVE Same(a, a)
BY MultiplesClosed DEF Same

LEMMA SameBack == ASSUME NEW a \in Int, NEW b \in Int, Same(a, b) PROVE Same(b, a)
<1>1. 0 - (a - b) \in Multiples
  BY MultiplesClosed DEF Same
<1> QED  BY <1>1 DEF Same

LEMMA SameThrough ==
  ASSUME NEW a \in Int, NEW b \in Int, NEW c \in Int, Same(a, b), Same(b, c)
  PROVE  Same(a, c)
<1>1. (a - b) + (b - c) \in Multiples
  BY MultiplesClosed DEF Same
<1> QED  BY <1>1 DEF Same

LEMMA SamePlus ==
  ASSUME NEW a \in Int, NEW b \in Int, NEW c \in Int, NEW d \in Int, Same(a, b), Same(c, d)
  PROVE  Same(a + c, b + d)
<1>1. (a - b) + (c - d) \in Multiples
  BY MultiplesClosed DEF Same
<1> QED  BY <1>1 DEF Same

LEMMA SameMinus ==
  ASSUME NEW a \in Int, NEW b \in Int, NEW c \in Int, NEW d \in Int, Same(a, b), Same(c, d)
  PROVE  Same(a - c, b - d)
<1>1. (a - b) - (c - d) \in Multiples
  BY MultiplesClosed DEF Same
<1> QED  BY <1>1 DEF Same

LEMMA SameTimes ==
  ASSUME NEW a \in Int, NEW b \in Int, NEW c \in Int, NEW d \in Int, Same(a, b), Same(c, d)
  PROVE  Same(a * c, b * d)
<1>1. (a - b) * c \in Multiples /\ (c - d) * b \in Multiples
  BY MultiplesClosed DEF Same
<1>2. (a - b) * c + (c - d) * b \in Multiples
  BY <1>1, MultiplesClosed
<1>3. (a - b) * c + (c - d) * b = a * c - b * d
  OBVIOUS
<1> QED  BY <1>2, <1>3 DEF Same

LEMMA RemainderSame ==
  ASSUME NEW a \in Int
  PROVE  a % P \in Field /\ a % P \in Int /\ Same(a % P, a)
<1>1. a % P \in 0..(P - 1) /\ a = P * (a \div P) + (a % P) /\ a \div P \in Int
  BY ModulusType, Z3
<1>2. (a % P) - a = P * (0 - (a \div P)) /\ 0 - (a \div P) \in Int
  BY <1>1, ModulusType
<1> QED  BY <1>1, <1>2 DEF Multiples, Same, Field

LEMMA FieldSame ==
  ASSUME NEW a \in Field, NEW b \in Field, Same(a, b)
  PROVE  a = b
<1>1. PICK k \in Int : a - b = P * k
  BY DEF Same, Multiples
<1>2. a \in 0..(P - 1) /\ b \in 0..(P - 1)
  BY DEF Field
<1>3. CASE k = 0
  BY <1>1, <1>2, <1>3, ModulusType
<1>4. CASE k >= 1
  <2>1. P * k = P + P * (k - 1) /\ P * (k - 1) >= 0
    BY <1>4, ModulusType
  <2> QED  BY <1>1, <1>2, <2>1, ModulusType
<1>5. CASE k <= -1
  <2>1. P * k = P * (k + 1) - P /\ P * (k + 1) <= 0
    BY <1>5, ModulusType
  <2> QED  BY <1>1, <1>2, <2>1, ModulusType
<1> QED  BY <1>3, <1>4, <1>5

LEMMA FieldType == \A a \in Field : a \in Int /\ a % P = a
<1> TAKE a \in Field
<1>1. a \in Int
  BY ModulusType DEF Field
<1> QED  BY <1>1, RemainderSame, FieldSame

LEMMA RemaindersEqual ==
  ASSUME NEW a \in Int, NEW b \in Int
  PROVE  Same(a, b) <=> a % P = b % P
<1>1. /\ a % P \in Field /\ Same(a % P, a) /\ a % P \in Int
      /\ b % P \in Field /\ Same(b % P, b) /\ b % P \in Int
  BY RemainderSame
<1>2. ASSUME Same(a, b) PROVE a % P = b % P
  <2>1. Same(a % P, b) /\ Same(b, b % P)
    BY <1>1, <1>2, SameThrough, SameBack
  <2> QED  BY <1>1, <2>1, SameThrough, FieldSame
<1>3. ASSUME a % P = b % P PROVE Same(a, b)
  BY <1>1, <1>3, SameThrough, SameBack
<1> QED  BY <1>2, <1>3

-----------------------------------------------------------------------------
(* Quotients of the field.                                                 *)

NonZero == 1..(P - 1)

LEMMA UnitType == \A b \in NonZero : b \in Field /\ b \in Int /\ b # 0 /\ 1 \in NonZero
BY ModulusType DEF NonZero, Field

LEMMA FieldUnit == \A b \in Field : b # 0 => b \in NonZero
BY ModulusType DEF NonZero, Field

LEMMA UnitTimes ==
  ASSUME NEW a \in NonZero, NEW b \in NonZero
  PROVE  (a * b) % P \in NonZero
<1>1. (a * b) % P # 0 /\ a * b \in Int
  BY ForecastAssumption, UnitType DEF NonZero
<1> QED  BY <1>1, RemainderSame, FieldUnit

LEMMA InverseExists ==
  ASSUME NEW b \in NonZero
  PROVE  \E c \in Field : (b * c) % P = 1
<1> DEFINE f == [c \in NonZero |-> (b * c) % P]
<1>1. f \in [NonZero -> NonZero]
  BY UnitTimes
<1>2. ASSUME NEW c \in NonZero, NEW d \in NonZero, c < d PROVE f[c] # f[d]
  <2>1. b \in Int /\ c \in Int /\ d \in Int /\ d - c \in NonZero
    BY <1>2, UnitType, ModulusType DEF NonZero
  <2>2. (b * (d - c)) % P # 0
    BY <2>1, ForecastAssumption DEF NonZero
  <2> SUFFICES ASSUME (b * c) % P = (b * d) % P PROVE FALSE
    OBVIOUS
  <2>3. Same(b * d, b * c)
    BY <2>1, RemaindersEqual
  <2>4. b * d - b * c = b * (d - c) - 0 /\ b * (d - c) \in Int
    BY <2>1
  <2>5. Same(b * (d - c), 0)
    BY <2>3, <2>4 DEF Same
  <2>6. 0 % P = 0
    BY FieldType, ModulusType DEF Field
  <2> QED  BY <2>2, <2>4, <2>5, <2>6, RemaindersEqual
<1>3. f \in Injection(NonZero, NonZero)
  <2>1. \A c, d \in NonZero : c \in Int /\ d \in Int
    BY UnitType
  <2>2. \A c, d \in NonZero : f[c] = f[d] => c = d
    BY <1>2, <2>1
  <2> HIDE DEF f
  <2>3. DOMAIN f = NonZero
    BY <1>1
  <2> QED  BY <1>1, <2>2, <2>3 DEF Injection, IsInjective
<1>4. IsFiniteSet(NonZero)
  BY FS_Interval, ModulusType DEF NonZero
<1>5. f \in Surjection(NonZero, NonZero)
  <2> HIDE DEF f
  <2> QED  BY <1>3, <1>4, FS_Injection
<1>6. PICK c \in NonZero : f[c] = 1
  <2> HIDE DEF f
  <2> QED  BY <1>5, UnitType DEF Surjection
<1> QED  BY <1>6, UnitType

LEMMA OverMeans ==
  ASSUME NEW a \in Int, NEW b \in NonZero
  PROVE  /\ Over(a, b) \in Field /\ Over(a, b) \in Int
         /\ Same(Over(a, b) * b, a)
<1> DEFINE inv == Inverted[b]
<1>1. inv \in Field /\ (b * inv) % P = 1
  <2>1. inv = CHOOSE c \in Field : (b * c) % P = 1
    BY DEF Inverted, NonZero
  <2> QED  BY <2>1, InverseExists
<1>2. Over(a, b) = (a * inv) % P
  BY DEF Over
<1>3. inv \in Int /\ b \in Int
  BY <1>1, FieldType, UnitType
<1> HIDE DEF inv
<1>4. Over(a, b) \in Field /\ Over(a, b) \in Int /\ Same(Over(a, b), a * inv)
  BY <1>2, <1>3, RemainderSame
<1>5. Same(b * inv, 1)
  <2>1. 1 % P = 1
    BY FieldType, UnitType, FieldUnit DEF NonZero
  <2> QED  BY <1>1, <1>3, <2>1, RemaindersEqual
<1>6. Same(Over(a, b) * b, (a * inv) * b)
  BY <1>3, <1>4, SameTimes, SameItself
<1>7. Same(a * (b * inv), a * 1) /\ a * (b * inv) = (a * inv) * b /\ a * 1 = a
      /\ (a * inv) * b \in Int /\ Over(a, b) * b \in Int
  BY <1>3, <1>4, <1>5, SameTimes, SameItself
<1>8. Same(Over(a, b) * b, a)
  BY <1>6, <1>7, SameThrough
<1> QED  BY <1>4, <1>8

LEMMA SameCancels ==
  ASSUME NEW a \in Int, NEW c \in Int, NEW b \in NonZero, Same(a * b, c * b)
  PROVE  Same(a, c)
<1> DEFINE inv == Over(1, b)
<1>1. inv \in Int /\ Same(inv * b, 1) /\ b \in Int
  BY OverMeans, UnitType
<1> HIDE DEF inv
<1>2. Same((a * b) * inv, (c * b) * inv)
  <2>1. a * b \in Int /\ c * b \in Int /\ Same(a * b, c * b) /\ Same(inv, inv) /\ inv \in Int
    BY <1>1, SameItself
  <2> QED  BY ONLY <2>1, SameTimes
<1>3. Same(a * (inv * b), a * 1) /\ Same(c * (inv * b), c * 1)
  <2>1. inv * b \in Int /\ 1 \in Int /\ Same(inv * b, 1) /\ a \in Int /\ c \in Int
        /\ Same(a, a) /\ Same(c, c)
    BY <1>1, SameItself
  <2> DEFINE m == inv * b
  <2> HIDE DEF m
  <2> QED  BY ONLY <2>1, SameTimes
<1>4. /\ (a * b) * inv = a * (inv * b) /\ (c * b) * inv = c * (inv * b)
      /\ a * 1 = a /\ c * 1 = c /\ a * (inv * b) \in Int /\ c * (inv * b) \in Int
  BY <1>1
<1> HIDE DEF Same
<1>5. Same(a * (inv * b), c * (inv * b)) /\ Same(a, a * (inv * b)) /\ Same(c * (inv * b), c)
  BY <1>2, <1>3, <1>4, SameBack
<1> QED  BY <1>4, <1>5, SameThrough

LEMMA OverIs ==
  ASSUME NEW a \in Int, NEW b \in NonZero, NEW c \in Field, Same(c * b, a)
  PROVE  c = Over(a, b)
<1>1. c \in Int /\ b \in Int /\ Over(a, b) \in Int /\ Over(a, b) \in Field
      /\ Same(Over(a, b) * b, a)
  BY OverMeans, FieldType, UnitType
<1>2. Same(c * b, Over(a, b) * b)
  BY <1>1, SameBack, SameThrough
<1> QED  BY <1>1, <1>2, SameCancels, FieldSame

-----------------------------------------------------------------------------
(* Sums that differ by a multiple of P.                                     *)

LEMMA SameSums ==
  ASSUME NEW S, IsFiniteSet(S), NEW f, NEW g,
         \A x \in S : f[x] \in Int /\ g[x] \in Int /\ Same(f[x], g[x])
  PROVE  Same(SumFunctionOnSet(f, S), SumFunctionOnSet(g, S))
<1> DEFINE A == {s \in SUBSET S : Same(SumFunctionOnSet(f, s), SumFunctionOnSet(g, s))}
<1>1. {} \in A
  BY SumOfNone, SameItself
<1>2. ASSUME NEW s \in SUBSET S, NEW x \in S, s \in A, x \notin s PROVE s \cup {x} \in A
  <2>1. \A y \in S : f[y] \in Int
    OBVIOUS
  <2>2. \A y \in S : g[y] \in Int
    OBVIOUS
  <2>3. SumFunctionOnSet(f, s \cup {x}) = SumFunctionOnSet(f, s) + f[x]
        /\ SumFunctionOnSet(f, s) \in Int /\ f[x] \in Int
    BY <1>2, <2>1, SumGrows
  <2>4. SumFunctionOnSet(g, s \cup {x}) = SumFunctionOnSet(g, s) + g[x]
        /\ SumFunctionOnSet(g, s) \in Int /\ g[x] \in Int
    BY <1>2, <2>2, SumGrows
  <2>5. Same(SumFunctionOnSet(f, s) + f[x], SumFunctionOnSet(g, s) + g[x])
    <3>1. Same(SumFunctionOnSet(f, s), SumFunctionOnSet(g, s)) /\ Same(f[x], g[x])
      BY <1>2
    <3> QED  BY <2>3, <2>4, <3>1, SamePlus
  <2> QED  BY <2>3, <2>4, <2>5
<1>3. S \in A
  <2> HIDE DEF A
  <2> QED  BY <1>1, <1>2, SubsetInduction
<1> QED  BY <1>3

LEMMA TotalSame ==
  ASSUME NEW f, NEW S, DOMAIN f = S, IsFiniteSet(S), \A x \in S : f[x] \in Int
  PROVE  /\ Total(f) \in Field /\ Total(f) \in Int
         /\ SumFunctionOnSet(f, S) \in Int
         /\ Same(Total(f), SumFunctionOnSet(f, S))
BY SumIsInt, RemainderSame DEF Total, SumFunction

LEMMA TotalsAgree ==
  ASSUME NEW f, NEW g, NEW S, DOMAIN f = S, DOMAIN g = S, IsFiniteSet(S),
         \A x \in S : f[x] \in Int /\ g[x] \in Int /\ Same(f[x], g[x])
  PROVE  Total(f) = Total(g)
<1>1. /\ SumFunctionOnSet(f, S) \in Int /\ SumFunctionOnSet(g, S) \in Int
      /\ Same(SumFunctionOnSet(f, S), SumFunctionOnSet(g, S))
  BY SumIsInt, SameSums
<1> QED  BY <1>1, RemaindersEqual DEF Total, SumFunction

LEMMA SumOfNothing ==
  ASSUME NEW S, IsFiniteSet(S), NEW f, \A x \in S : f[x] \in Int /\ Same(f[x], 0)
  PROVE  SumFunctionOnSet(f, S) \in Int /\ Same(SumFunctionOnSet(f, S), 0)
<1> DEFINE g == [x \in S |-> 0]
<1>1. \A x \in S : g[x] = 0 /\ g[x] \in Int
  OBVIOUS
<1> HIDE DEF g
<1>2. SumFunctionOnSet(g, S) = 0 * Cardinality(S)
  BY <1>1, SumOfSame
<1>3. 0 * Cardinality(S) = 0
  BY FS_CardinalityType
<1>4. \A x \in S : f[x] \in Int /\ g[x] \in Int /\ Same(f[x], g[x])
  BY <1>1
<1>5. Same(SumFunctionOnSet(f, S), SumFunctionOnSet(g, S))
  BY <1>4, SameSums
<1> QED  BY <1>2, <1>3, <1>5, SumIsInt

(* Sums of rows and of columns. *)
LEMMA SumExchanged ==
  ASSUME NEW A, IsFiniteSet(A), NEW B, IsFiniteSet(B),
         NEW f, \A a \in A : \A b \in B : f[a][b] \in Int
  PROVE  SumFunctionOnSet([a \in A |-> SumFunctionOnSet(f[a], B)], A) =
           SumFunctionOnSet([b \in B |-> SumFunctionOnSet([a \in A |-> f[a][b]], A)], B)
<1> DEFINE row == [a \in A |-> SumFunctionOnSet(f[a], B)]
           col(b) == [a \in A |-> f[a][b]]
           part(s) == [b \in B |-> SumFunctionOnSet(col(b), s)]
           Q == {s \in SUBSET A : SumFunctionOnSet(row, s) = SumFunctionOnSet(part(s), B)}
<1>1. {} \in Q
  <2>1. \A b \in B : part({})[b] = 0
    BY SumOfNone
  <2> HIDE DEF part
  <2>2. SumFunctionOnSet(part({}), B) = 0 * Cardinality(B)
    BY <2>1, SumOfSame
  <2>3. 0 * Cardinality(B) = 0
    BY FS_CardinalityType
  <2> QED  BY <2>2, <2>3, SumOfNone
<1>2. ASSUME NEW s \in SUBSET A, NEW x \in A, s \in Q, x \notin s PROVE s \cup {x} \in Q
  <2>1. \A a \in A : row[a] \in Int
    BY SumIsInt
  <2>2. SumFunctionOnSet(row, s \cup {x}) = SumFunctionOnSet(row, s) + row[x]
    <3> HIDE DEF row
    <3> QED  BY <1>2, <2>1, SumGrows
  <2>3. \A b \in B : /\ part(s)[b] \in Int /\ f[x][b] \in Int
                     /\ part(s \cup {x})[b] = part(s)[b] + f[x][b]
    <3> SUFFICES ASSUME NEW b \in B
                 PROVE  /\ part(s)[b] \in Int /\ f[x][b] \in Int
                        /\ part(s \cup {x})[b] = part(s)[b] + f[x][b]
      OBVIOUS
    <3>1. \A a \in A : col(b)[a] \in Int /\ col(b)[a] = f[a][b]
      OBVIOUS
    <3> HIDE DEF col
    <3>2. /\ SumFunctionOnSet(col(b), s \cup {x}) = SumFunctionOnSet(col(b), s) + col(b)[x]
          /\ SumFunctionOnSet(col(b), s) \in Int
      BY <1>2, <3>1, SumGrows
    <3> QED  BY <3>1, <3>2
  <2>4. SumFunctionOnSet(part(s \cup {x}), B) =
          SumFunctionOnSet(part(s), B) + SumFunctionOnSet(f[x], B)
    <3> HIDE DEF part
    <3> QED  BY <2>3, SumOfSums
  <2> HIDE DEF part
  <2>5. row[x] = SumFunctionOnSet(f[x], B)
    OBVIOUS
  <2>6. SumFunctionOnSet(row, s) = SumFunctionOnSet(part(s), B)
    BY <1>2
  <2> QED  BY <2>2, <2>4, <2>5, <2>6
<1>3. A \in Q
  <2> HIDE DEF Q
  <2> QED  BY <1>1, <1>2, SubsetInduction
<1> QED  BY <1>3

(* A sum does not depend on how its terms are named. *)
LEMMA SumRenamed ==
  ASSUME NEW A, IsFiniteSet(A), NEW B, NEW h \in [A -> B],
         \A a, b \in A : h[a] = h[b] => a = b, \A b \in B : \E a \in A : h[a] = b,
         NEW f, NEW g, \A a \in A : f[a] \in Int /\ f[a] = g[h[a]]
  PROVE  SumFunctionOnSet(f, A) = SumFunctionOnSet(g, B)
<1> DEFINE Image(s) == {b \in B : \E a \in s : h[a] = b}
           Q == {s \in SUBSET A : /\ IsFiniteSet(Image(s))
                                  /\ SumFunctionOnSet(f, s) = SumFunctionOnSet(g, Image(s))}
<1>1. {} \in Q
  <2>1. Image({}) = {}
    OBVIOUS
  <2> QED  BY <2>1, SumOfNone, FS_EmptySet
<1>2. ASSUME NEW s \in SUBSET A, NEW x \in A, s \in Q, x \notin s PROVE s \cup {x} \in Q
  <2>1. Image(s \cup {x}) = Image(s) \cup {h[x]} /\ h[x] \notin Image(s)
    BY <1>2
  <2>2. \A b \in Image(s) \cup {h[x]} : g[b] \in Int
    BY <1>2
  <2> HIDE DEF Image
  <2>3. IsFiniteSet(Image(s)) /\ SumFunctionOnSet(f, s) = SumFunctionOnSet(g, Image(s))
    BY <1>2
  <2>4. SumFunctionOnSet(g, Image(s) \cup {h[x]}) = SumFunctionOnSet(g, Image(s)) + g[h[x]]
    <3> DEFINE I == Image(s)
               y == h[x]
    <3>1. IsFiniteSet(I) /\ y \notin I /\ \A b \in I \cup {y} : g[b] \in Int
      BY <2>1, <2>2, <2>3
    <3> HIDE DEF I, y
    <3>2. SumFunctionOnSet(g, I \cup {y}) = SumFunctionOnSet(g, I) + g[y]
      BY <3>1, SumOfOneMore, SMTT(60)
    <3> QED  BY <3>2 DEF I, y
  <2>5. \A a \in A : f[a] \in Int
    OBVIOUS
  <2>6. SumFunctionOnSet(f, s \cup {x}) = SumFunctionOnSet(f, s) + f[x]
    BY <1>2, <2>5, SumGrows
  <2>7. f[x] = g[h[x]]
    OBVIOUS
  <2>8. IsFiniteSet(Image(s) \cup {h[x]})
    BY <2>3, FS_AddElement
  <2> QED  BY <2>1, <2>3, <2>4, <2>6, <2>7, <2>8
<1>3. A \in Q
  <2> HIDE DEF Q
  <2> QED  BY <1>1, <1>2, SubsetInduction
<1>4. Image(A) = B
  OBVIOUS
<1> QED  BY <1>3, <1>4

-----------------------------------------------------------------------------
(* Functions that are defined by recursion on the numbers.                  *)

(* What is made of a number and the value before. *)
Steps(V) == [Nat \X V -> V]

LEMMA RecursionExists ==
  ASSUME NEW V, NEW base \in V, NEW next \in Steps(V)
  PROVE  \E f \in [Nat -> V] : f[0] = base /\ \A n \in Nat : f[n + 1] = next[<<n, f[n]>>]
<1> DEFINE UpTo(g, n) == /\ g \in [Nat -> V] /\ g[0] = base
                         /\ \A k \in Nat : k < n => g[k + 1] = next[<<k, g[k]>>]
           E == {n \in Nat : \E g : UpTo(g, n)}
           f == [n \in Nat |-> (CHOOSE g : UpTo(g, n))[n]]
<1>1. 0 \in E
  <2>1. UpTo([k \in Nat |-> base], 0)
    OBVIOUS
  <2> QED  BY <2>1
<1>2. ASSUME NEW n \in Nat, n \in E PROVE n + 1 \in E
  <2>1. PICK g : UpTo(g, n)
    BY <1>2
  <2> DEFINE h == [g EXCEPT ![n + 1] = next[<<n, g[n]>>]]
  <2>2. next[<<n, g[n]>>] \in V
    BY <2>1 DEF Steps
  <2>3. h \in [Nat -> V] /\ h[0] = base /\ h[n + 1] = next[<<n, g[n]>>]
        /\ \A k \in Nat : k <= n => h[k] = g[k]
    BY <2>1, <2>2
  <2> HIDE DEF h
  <2>4. \A k \in Nat : k < n + 1 => h[k + 1] = next[<<k, h[k]>>]
    <3> SUFFICES ASSUME NEW k \in Nat, k < n + 1 PROVE h[k + 1] = next[<<k, h[k]>>]
      OBVIOUS
    <3>1. CASE k = n
      BY <2>3, <3>1
    <3>2. CASE k < n
      BY <2>1, <2>3, <3>2
    <3> QED  BY <3>1, <3>2
  <2>5. UpTo(h, n + 1)
    BY <2>3, <2>4
  <2> QED  BY <2>5
<1>3. Nat \subseteq E
  <2> HIDE DEF E
  <2> QED  BY <1>1, <1>2, NumberInduction
<1>4. ASSUME NEW m \in Nat, NEW n \in Nat, m <= n, NEW g, NEW h, UpTo(g, m), UpTo(h, n)
      PROVE  g[m] = h[m]
  <2> DEFINE F == {k \in Nat : k <= m => g[k] = h[k]}
  <2>1. 0 \in F
    BY <1>4
  <2>2. ASSUME NEW k \in Nat, k \in F PROVE k + 1 \in F
    <3> SUFFICES ASSUME k + 1 <= m PROVE g[k + 1] = h[k + 1]
      OBVIOUS
    <3>1. g[k] = h[k] /\ k < m /\ k < n
      BY <1>4, <2>2
    <3>2. g[k + 1] = next[<<k, g[k]>>]
      BY <1>4, <3>1
    <3>3. h[k + 1] = next[<<k, h[k]>>]
      BY <1>4, <3>1
    <3> QED  BY <3>1, <3>2, <3>3
  <2>3. Nat \subseteq F
    <3> HIDE DEF F
    <3> QED  BY <2>1, <2>2, NumberInduction
  <2> QED  BY <2>3
<1>5. ASSUME NEW n \in Nat
      PROVE  UpTo(CHOOSE g : UpTo(g, n), n) /\ f[n] = (CHOOSE g : UpTo(g, n))[n]
  <2>1. \E g : UpTo(g, n)
    BY <1>3
  <2> HIDE DEF UpTo
  <2> QED  BY <2>1
<1>6. f \in [Nat -> V] /\ f[0] = base
  <2>1. \A n \in Nat : f[n] \in V
    <3> TAKE n \in Nat
    <3> DEFINE g == CHOOSE g : UpTo(g, n)
    <3>1. UpTo(g, n) /\ f[n] = g[n]
      <4> HIDE DEF UpTo, f
      <4> QED  BY <1>5
    <3> HIDE DEF g, f
    <3> QED  BY <3>1
  <2>2. f[0] = base
    <3> DEFINE g == CHOOSE g : UpTo(g, 0)
    <3>1. UpTo(g, 0) /\ f[0] = g[0]
      <4> HIDE DEF UpTo, f
      <4> QED  BY <1>5
    <3> HIDE DEF g, f
    <3> QED  BY <3>1
  <2> QED  BY <2>1, <2>2
<1>7. ASSUME NEW n \in Nat PROVE f[n + 1] = next[<<n, f[n]>>]
  <2> DEFINE g == CHOOSE g : UpTo(g, n)
             h == CHOOSE x : UpTo(x, n + 1)
  <2>1. UpTo(g, n) /\ f[n] = g[n]
    <3> HIDE DEF UpTo, f
    <3> QED  BY <1>5
  <2>0. UpTo(h, n + 1) /\ f[n + 1] = h[n + 1]
    <3>1. n + 1 \in Nat
      OBVIOUS
    <3> HIDE DEF UpTo, f
    <3> QED  BY <1>5, <3>1
  <2> HIDE DEF g, h, f
  <2>2. g[n] = h[n]
    <3>1. n <= n + 1 /\ n + 1 \in Nat
      OBVIOUS
    <3> HIDE DEF UpTo
    <3> QED  BY <1>4, <2>1, <2>0, <3>1
  <2>3. h[n + 1] = next[<<n, h[n]>>]
    BY <2>0
  <2> QED  BY <2>1, <2>0, <2>2, <2>3
<1> HIDE DEF f
<1> QED  BY <1>6, <1>7

Recursions(V, base, next) ==
  {f \in [Nat -> V] : f[0] = base /\ \A n \in Nat : f[n + 1] = next[<<n, f[n]>>]}

LEMMA RecursionsExist ==
  ASSUME NEW V, NEW base \in V, NEW next \in Steps(V)
  PROVE  \E f : f \in Recursions(V, base, next)
BY RecursionExists DEF Recursions

-----------------------------------------------------------------------------
(* Powers.                                                                  *)

LEMMA PowerRules ==
  ASSUME NEW a \in Int
  PROVE  /\ Power(a, 0) = 1
         /\ \A n \in Nat : /\ Power(a, n) \in Field /\ Power(a, n) \in Int
                           /\ Power(a, n + 1) = (Power(a, n) * a) % P
<1> DEFINE Rule(p) == p = [k \in Nat |-> IF k = 0 THEN 1 ELSE (p[k - 1] * a) % P]
           q == CHOOSE p : Rule(p)
           next == [c \in Nat \X Field |-> (c[2] * a) % P]
<1>1. next \in [Nat \X Field -> Field]
  <2>1. \A c \in Nat \X Field : (c[2] * a) % P \in Field
    <3> TAKE c \in Nat \X Field
    <3>1. c[2] * a \in Int
      BY FieldType
    <3> QED  BY <3>1, RemainderSame
  <2> QED  BY <2>1
<1>2. 1 \in Field
  BY ModulusType DEF Field
<1>3. PICK f \in [Nat -> Field] : f[0] = 1 /\ \A n \in Nat : f[n + 1] = next[<<n, f[n]>>]
  <2> DEFINE one == 1
  <2>1. one \in Field /\ next \in Steps(Field)
    BY <1>1, <1>2 DEF Steps
  <2> HIDE DEF next, one
  <2>2. \E f \in [Nat -> Field] : f[0] = one /\ \A n \in Nat : f[n + 1] = next[<<n, f[n]>>]
    BY ONLY <2>1, RecursionExists
  <2>3. one = 1
    BY DEF one
  <2> QED  BY ONLY <2>2, <2>3
<1>4. \A k \in Nat : k # 0 => f[k] = (f[k - 1] * a) % P
  <2> TAKE k \in Nat
  <2> HAVE k # 0
  <2>1. k - 1 \in Nat /\ (k - 1) + 1 = k
    OBVIOUS
  <2>2. f[k] = next[<<k - 1, f[k - 1]>>] /\ f[k - 1] \in Field
    BY <1>3, <2>1
  <2> QED  BY <2>1, <2>2
<1>5. Rule(f)
  BY <1>3, <1>4
<1>6. Rule(q)
  <2> HIDE DEF Rule
  <2> QED  BY <1>5
<1>7. \A n \in Nat : Power(a, n) = q[n]
  BY DEF Power
<1> HIDE DEF q
<1>8. q[0] = 1 /\ \A n \in Nat : q[n + 1] = (q[n] * a) % P
  <2>1. q[0] = 1
    BY <1>6
  <2>2. ASSUME NEW n \in Nat PROVE q[n + 1] = (q[n] * a) % P
    <3>1. n + 1 \in Nat /\ n + 1 # 0 /\ (n + 1) - 1 = n
      OBVIOUS
    <3>2. q[n + 1] = (q[(n + 1) - 1] * a) % P
      BY <1>6, <3>1
    <3> QED  BY <3>1, <3>2
  <2> QED  BY <2>1, <2>2
<1>9. \A n \in Nat : q[n] \in Field
  <2> DEFINE A == {n \in Nat : q[n] \in Field}
  <2>1. 0 \in A
    BY <1>2, <1>8
  <2>2. ASSUME NEW n \in Nat, n \in A PROVE n + 1 \in A
    <3>1. q[n] \in Int
      BY <2>2, FieldType
    <3>2. q[n] * a \in Int
      BY <3>1
    <3> QED  BY <1>8, <3>2, RemainderSame
  <2>3. Nat \subseteq A
    <3> HIDE DEF A
    <3> QED  BY <2>1, <2>2, NumberInduction
  <2> QED  BY <2>3
<1> QED  BY <1>7, <1>8, <1>9, FieldType

LEMMA PowerSame ==
  ASSUME NEW a \in Int, NEW n \in Nat
  PROVE  Same(Power(a, n + 1), Power(a, n) * a)
<1>1. Power(a, n + 1) = (Power(a, n) * a) % P /\ Power(a, n) * a \in Int
  BY PowerRules
<1> QED  BY <1>1, RemainderSame

(* Products in which the factors may be moved. *)
LEMMA FactorsMoved ==
  ASSUME NEW a \in Int, NEW b \in Int, NEW c \in Int, NEW d \in Int
  PROVE  (a * b) * (c * d) = (a * c) * (b * d)
OBVIOUS

LEMMA SameMoved ==
  ASSUME NEW a \in Int, NEW b \in Int, NEW c \in Int, NEW d \in Int,
         NEW u \in Int, NEW v \in Int,
         Same(u, a * b), Same(v, c * d)
  PROVE  Same(u * v, (a * c) * (b * d))
<1>1. a * b \in Int /\ c * d \in Int
  OBVIOUS
<1>2. Same(u * v, (a * b) * (c * d))
  <2> DEFINE m == a * b
             n == c * d
  <2>1. m \in Int /\ n \in Int /\ Same(u, m) /\ Same(v, n) /\ u \in Int /\ v \in Int
    BY <1>1
  <2> HIDE DEF m, n
  <2>2. Same(u * v, m * n)
    BY ONLY <2>1, SameTimes
  <2> QED  BY <2>2 DEF m, n
<1>3. (a * b) * (c * d) = (a * c) * (b * d)
  OBVIOUS
<1> QED  BY <1>2, <1>3

LEMMA PowerOfProduct ==
  ASSUME NEW a \in Int, NEW b \in Int, NEW c \in Int, Same(c, a * b), NEW n \in Nat
  PROVE  Same(Power(c, n), Power(a, n) * Power(b, n))
<1> DEFINE A == {k \in Nat : Same(Power(c, k), Power(a, k) * Power(b, k))}
<1>1. 0 \in A
  <2>1. Power(c, 0) = 1 /\ Power(a, 0) = 1 /\ Power(b, 0) = 1
    BY PowerRules
  <2> QED  BY <2>1, SameItself
<1>2. ASSUME NEW k \in Nat, k \in A PROVE k + 1 \in A
  <2> DEFINE xa == Power(a, k)
             xb == Power(b, k)
             xc == Power(c, k)
             qa == Power(a, k + 1)
             qb == Power(b, k + 1)
             qc == Power(c, k + 1)
  <2>0. k + 1 \in Nat
    OBVIOUS
  <2>1. xa \in Int /\ xb \in Int /\ xc \in Int /\ qa \in Int /\ qb \in Int /\ qc \in Int
    BY <2>0, PowerRules
  <2>2. Same(qa, xa * a) /\ Same(qb, xb * b) /\ Same(qc, xc * c) /\ Same(xc, xa * xb)
    BY <1>2, PowerSame
  <2> HIDE DEF xa, xb, xc, qa, qb, qc
  <2>3. Same(xc * c, (xa * a) * (xb * b)) /\ Same(qa * qb, (xa * xb) * (a * b))
    BY ONLY <2>1, <2>2, SameMoved, a \in Int, b \in Int, c \in Int, Same(c, a * b)
  <2>4. (xa * a) * (xb * b) = (xa * xb) * (a * b)
    BY <2>1
  <2>5. qa * qb \in Int /\ xc * c \in Int /\ (xa * xb) * (a * b) \in Int
    BY <2>1
  <2>6. Same(qc, (xa * xb) * (a * b))
    BY ONLY <2>1, <2>2, <2>3, <2>4, <2>5, SameThrough
  <2>7. Same(qc, qa * qb)
    BY ONLY <2>1, <2>3, <2>5, <2>6, SameThrough, SameBack
  <2> QED  BY <2>7 DEF qa, qb, qc
<1>3. Nat \subseteq A
  <2> HIDE DEF A
  <2> QED  BY <1>1, <1>2, NumberInduction
<1> QED  BY <1>3

LEMMA PowerOfSum ==
  ASSUME NEW a \in Int, NEW m \in Nat, NEW n \in Nat
  PROVE  Same(Power(a, m + n), Power(a, m) * Power(a, n))
<1> DEFINE A == {k \in Nat : Same(Power(a, m + k), Power(a, m) * Power(a, k))}
<1>1. 0 \in A
  <2>1. Power(a, 0) = 1 /\ Power(a, m) \in Int /\ m + 0 = m
    BY PowerRules
  <2> QED  BY <2>1, SameItself
<1>2. ASSUME NEW k \in Nat, k \in A PROVE k + 1 \in A
  <2> DEFINE p == Power(a, m)
             q == Power(a, k)
             r == Power(a, m + k)
             s == Power(a, k + 1)
             t == Power(a, (m + k) + 1)
  <2>0. k + 1 \in Nat /\ m + k \in Nat /\ (m + k) + 1 \in Nat
    OBVIOUS
  <2>1. p \in Int /\ q \in Int /\ r \in Int /\ s \in Int /\ t \in Int /\ a \in Int
    BY <2>0, PowerRules
  <2>2. Same(r, p * q) /\ Same(s, q * a) /\ Same(t, r * a) /\ Same(a, a) /\ Same(p, p)
    BY <1>2, PowerSame, SameItself, <2>1
  <2> HIDE DEF p, q, r, s, t
  <2>3. p * q \in Int /\ q * a \in Int /\ r * a \in Int /\ p * s \in Int
        /\ (p * q) * a \in Int /\ p * (q * a) = (p * q) * a
    BY <2>1
  <2>4. Same(r * a, (p * q) * a)
    <3> DEFINE n1 == p * q
    <3>1. n1 \in Int /\ Same(r, n1)
      BY <2>2, <2>3
    <3> HIDE DEF n1
    <3>2. Same(r * a, n1 * a)
      BY ONLY <2>1, <2>2, <3>1, SameTimes
    <3> QED  BY <3>2 DEF n1
  <2>5. Same(p * s, p * (q * a))
    <3> DEFINE n1 == q * a
    <3>1. n1 \in Int /\ Same(s, n1)
      BY <2>2, <2>3
    <3> HIDE DEF n1
    <3>2. Same(p * s, p * n1)
      BY ONLY <2>1, <2>2, <3>1, SameTimes
    <3> QED  BY <3>2 DEF n1
  <2>6. Same(t, p * s)
    <3>1. Same(t, (p * q) * a)
      BY ONLY <2>1, <2>2, <2>3, <2>4, SameThrough
    <3>2. Same((p * q) * a, p * s)
      BY ONLY <2>3, <2>5, SameBack
    <3> QED  BY ONLY <2>1, <2>3, <3>1, <3>2, SameThrough
  <2>7. m + (k + 1) = (m + k) + 1
    OBVIOUS
  <2> QED  BY <2>6, <2>7 DEF p, s, t
<1>3. Nat \subseteq A
  <2> HIDE DEF A
  <2> QED  BY <1>1, <1>2, NumberInduction
<1> QED  BY <1>3

LEMMA PowerOfUnit ==
  ASSUME NEW a \in NonZero, NEW n \in Nat
  PROVE  Power(a, n) \in NonZero
<1> DEFINE A == {k \in Nat : Power(a, k) \in NonZero}
<1>1. a \in Int
  BY UnitType
<1>2. 0 \in A
  BY <1>1, PowerRules, UnitType
<1>3. ASSUME NEW k \in Nat, k \in A PROVE k + 1 \in A
  BY <1>1, <1>3, PowerRules, UnitTimes
<1>4. Nat \subseteq A
  <2> HIDE DEF A
  <2> QED  BY <1>2, <1>3, NumberInduction
<1> QED  BY <1>4

-----------------------------------------------------------------------------
(* Products of powers.                                                      *)

Factor(x, act, m, d) == Power(x[act - d * DELAY], m[d])

(* The values before act are numbers, and m has an exponent for each.       *)
Factors(x, act, m) == \A d \in 0..(DIM - 1) : x[act - d * DELAY] \in Int /\ m[d] \in Nat

IsProduct(p, x, act, m) ==
  /\ p \in [0..DIM -> Field] /\ p[0] = 1
  /\ \A d \in 0..(DIM - 1) : p[d + 1] = (p[d] * Factor(x, act, m, d)) % P

LEMMA FactorType ==
  ASSUME NEW x, NEW act, NEW m, Factors(x, act, m), NEW d \in 0..(DIM - 1)
  PROVE  Factor(x, act, m, d) \in Field /\ Factor(x, act, m, d) \in Int
BY PowerRules DEF Factors, Factor

LEMMA ProductRules ==
  ASSUME NEW x, NEW act, NEW m, Factors(x, act, m)
  PROVE  \E p : IsProduct(p, x, act, m) /\ Product(x, act, m) = p[DIM]
<1> DEFINE Rule(p) == p = [dim \in 0..DIM |->
                             IF dim = 0 THEN 1
                             ELSE (p[dim - 1] * Power(x[act - (dim - 1) * DELAY], m[dim - 1])) % P]
           q == CHOOSE p : Rule(p)
           next == [c \in Nat \X Field |-> IF c[1] < DIM THEN (c[2] * Factor(x, act, m, c[1])) % P
                                           ELSE c[2]]
<1>0. DIM \in Nat /\ DIM # 0
  BY ForecastAssumption
<1>1. next \in Steps(Field)
  <2>1. ASSUME NEW c \in Nat \X Field, c[1] < DIM
        PROVE  (c[2] * Factor(x, act, m, c[1])) % P \in Field
    <3>1. c[1] \in 0..(DIM - 1) /\ c[2] \in Int
      BY <1>0, <2>1, FieldType
    <3>2. Factor(x, act, m, c[1]) \in Int
      BY <3>1, FactorType
    <3>3. c[2] * Factor(x, act, m, c[1]) \in Int
      BY <3>1, <3>2
    <3> QED  BY <3>3, RemainderSame
  <2>2. \A c \in Nat \X Field : c[2] \in Field
    OBVIOUS
  <2> QED  BY <2>1, <2>2 DEF Steps
<1>2. PICK f \in [Nat -> Field] : f[0] = 1 /\ \A n \in Nat : f[n + 1] = next[<<n, f[n]>>]
  <2> DEFINE one == 1
  <2>1. one \in Field
    BY ModulusType DEF Field
  <2> HIDE DEF next, one
  <2>2. \E f \in [Nat -> Field] : f[0] = one /\ \A n \in Nat : f[n + 1] = next[<<n, f[n]>>]
    BY ONLY <1>1, <2>1, RecursionExists
  <2>3. one = 1
    BY DEF one
  <2> QED  BY ONLY <2>2, <2>3
<1> DEFINE p == [dim \in 0..DIM |-> f[dim]]
<1>3. \A d \in 0..(DIM - 1) : p[d + 1] = (p[d] * Factor(x, act, m, d)) % P
  <2> TAKE d \in 0..(DIM - 1)
  <2>1. d \in Nat /\ d + 1 \in 0..DIM /\ d \in 0..DIM /\ d < DIM
    BY <1>0
  <2>2. f[d + 1] = next[<<d, f[d]>>] /\ f[d] \in Field
    BY <1>2, <2>1
  <2>3. next[<<d, f[d]>>] = (f[d] * Factor(x, act, m, d)) % P
    BY <2>1, <2>2
  <2> QED  BY <2>1, <2>2, <2>3
<1>4. p \in [0..DIM -> Field] /\ p[0] = 1
  BY <1>0, <1>2
<1> HIDE DEF p, next
<1>5. Rule(p)
  <2>1. \A dim \in 0..DIM : dim # 0 =>
          p[dim] = (p[dim - 1] * Power(x[act - (dim - 1) * DELAY], m[dim - 1])) % P
    <3> TAKE dim \in 0..DIM
    <3> HAVE dim # 0
    <3>1. dim - 1 \in 0..(DIM - 1) /\ (dim - 1) + 1 = dim
      BY <1>0
    <3> QED  BY <1>3, <3>1 DEF Factor
  <2> QED  BY <1>4, <2>1
<1>6. Rule(q)
  <2> HIDE DEF Rule
  <2> QED  BY <1>5
<1>7. Product(x, act, m) = q[DIM]
  BY DEF Product
<1> HIDE DEF q
<1>8. q[0] = 1 /\ \A d \in 0..(DIM - 1) : q[d + 1] = (q[d] * Factor(x, act, m, d)) % P
  <2>1. q[0] = 1
    BY <1>0, <1>6
  <2>2. ASSUME NEW d \in 0..(DIM - 1) PROVE q[d + 1] = (q[d] * Factor(x, act, m, d)) % P
    <3>1. d + 1 \in 0..DIM /\ d + 1 # 0 /\ (d + 1) - 1 = d
      BY <1>0
    <3>2. q[d + 1] = (q[(d + 1) - 1]
                        * Power(x[act - ((d + 1) - 1) * DELAY], m[(d + 1) - 1])) % P
      BY <1>6, <3>1
    <3> QED  BY <3>1, <3>2 DEF Factor
  <2> QED  BY <2>1, <2>2
<1>9. \A d \in 0..DIM : q[d] = p[d]
  <2> DEFINE A == {d \in Nat : d <= DIM => q[d] = p[d]}
  <2>1. 0 \in A
    BY <1>4, <1>8
  <2>2. ASSUME NEW d \in Nat, d \in A PROVE d + 1 \in A
    <3> SUFFICES ASSUME d + 1 <= DIM PROVE q[d + 1] = p[d + 1]
      OBVIOUS
    <3>1. d \in 0..(DIM - 1) /\ q[d] = p[d]
      BY <1>0, <2>2
    <3> QED  BY <1>3, <1>8, <3>1
  <2>3. Nat \subseteq A
    <3> HIDE DEF A
    <3> QED  BY <2>1, <2>2, NumberInduction
  <2> QED  BY <1>0, <2>3
<1>10. IsProduct(p, x, act, m)
  BY <1>3, <1>4 DEF IsProduct
<1> QED  BY <1>0, <1>7, <1>9, <1>10

LEMMA ProductType ==
  ASSUME NEW x, NEW act, NEW m, Factors(x, act, m)
  PROVE  Product(x, act, m) \in Field /\ Product(x, act, m) \in Int
<1>1. PICK p : IsProduct(p, x, act, m) /\ Product(x, act, m) = p[DIM]
  BY ProductRules
<1>2. DIM \in 0..DIM
  BY ForecastAssumption
<1> QED  BY <1>1, <1>2, FieldType DEF IsProduct

(* The values before act are s times the values before bct.                 *)
LEMMA ProductScaled ==
  ASSUME NEW s \in Int, NEW x, NEW act, NEW y, NEW bct, NEW m \in [0..(DIM - 1) -> Nat],
         Factors(x, act, m), Factors(y, bct, m),
         \A d \in 0..(DIM - 1) : Same(x[act - d * DELAY], s * y[bct - d * DELAY])
  PROVE  /\ SumFunction(m) \in Nat
         /\ Same(Product(x, act, m), Power(s, SumFunction(m)) * Product(y, bct, m))
<1>0. DIM \in Nat /\ DIM # 0
  BY ForecastAssumption
<1>1. PICK p : IsProduct(p, x, act, m) /\ Product(x, act, m) = p[DIM]
  BY ProductRules
<1>2. PICK q : IsProduct(q, y, bct, m) /\ Product(y, bct, m) = q[DIM]
  BY ProductRules
<1> DEFINE sum(d) == SumFunctionOnSet(m, 0..(d - 1))
           A == {d \in Nat : d <= DIM => Same(p[d], Power(s, sum(d)) * q[d])}
<1>3. ASSUME NEW d \in 0..DIM
      PROVE  /\ sum(d) \in Nat /\ p[d] \in Int /\ q[d] \in Int /\ Power(s, sum(d)) \in Int
             /\ IsFiniteSet(0..(d - 1))
  <2>1. IsFiniteSet(0..(d - 1))
    BY <1>0, FS_Interval
  <2>2. \A k \in 0..(d - 1) : m[k] \in Nat
    BY <1>0
  <2>3. sum(d) \in Nat
    BY <2>1, <2>2, SumIsNat
  <2> HIDE DEF sum
  <2> QED  BY <1>1, <1>2, <2>1, <2>3, PowerRules, FieldType DEF IsProduct
<1>4. 0 \in A
  <2>1. 0..(0 - 1) = {}
    OBVIOUS
  <2>2. Power(s, sum(0)) = 1
    BY <2>1, SumOfNone, PowerRules
  <2>3. p[0] = 1 /\ q[0] = 1
    BY <1>1, <1>2 DEF IsProduct
  <2> QED  BY <2>2, <2>3, SameItself
<1>5. ASSUME NEW d \in Nat, d \in A PROVE d + 1 \in A
  <2> SUFFICES ASSUME d + 1 <= DIM PROVE Same(p[d + 1], Power(s, sum(d + 1)) * q[d + 1])
    OBVIOUS
  <2>1. d \in 0..(DIM - 1) /\ d \in 0..DIM /\ d + 1 \in 0..DIM /\ Same(p[d], Power(s, sum(d)) * q[d])
    BY <1>0, <1>5
  <2> DEFINE pd == p[d]
             qd == q[d]
             pn == p[d + 1]
             qn == q[d + 1]
             S == Power(s, sum(d))
             Sn == Power(s, sum(d + 1))
             fx == Factor(x, act, m, d)
             fy == Factor(y, bct, m, d)
             fs == Power(s, m[d])
  <2>2. /\ pd \in Int /\ qd \in Int /\ pn \in Int /\ qn \in Int /\ S \in Int /\ Sn \in Int
    <3> HIDE DEF sum
    <3> QED  BY <1>3, <2>1
  <2>3. fx \in Int /\ fy \in Int /\ fs \in Int /\ m[d] \in Nat
    <3>1. fx \in Int /\ fy \in Int
      BY <2>1, FactorType
    <3>2. m[d] \in Nat
      BY <2>1
    <3> QED  BY <3>1, <3>2, PowerRules
  <2>4. Same(pn, pd * fx) /\ Same(qn, qd * fy)
    <3>1. pn = (pd * fx) % P /\ qn = (qd * fy) % P
      BY <1>1, <1>2, <2>1 DEF IsProduct
    <3> HIDE DEF pd, qd, pn, qn, fx, fy
    <3>2. pd * fx \in Int /\ qd * fy \in Int
      BY <2>2, <2>3
    <3> QED  BY <3>1, <3>2, RemainderSame
  <2>5. Same(fx, fs * fy)
    <3>1. x[act - d * DELAY] \in Int /\ y[bct - d * DELAY] \in Int
          /\ Same(x[act - d * DELAY], s * y[bct - d * DELAY])
      BY <2>1 DEF Factors
    <3>2. fx = Power(x[act - d * DELAY], m[d]) /\ fy = Power(y[bct - d * DELAY], m[d])
      BY DEF Factor
    <3> QED  BY <2>3, <3>1, <3>2, PowerOfProduct
  <2>6. Same(Sn, S * fs)
    <3>1. (0..(d - 1)) \cup {d} = 0..((d + 1) - 1) /\ d \notin 0..(d - 1)
      OBVIOUS
    <3>2. \A k \in (0..(d - 1)) \cup {d} : m[k] \in Int
      BY <2>1, <1>0
    <3>3. IsFiniteSet(0..(d - 1))
      BY FS_Interval
    <3>4. sum(d + 1) = sum(d) + m[d]
      <4> DEFINE I == 0..(d - 1)
      <4>1. IsFiniteSet(I) /\ d \notin I /\ \A k \in I \cup {d} : m[k] \in Int
        BY <3>1, <3>2, <3>3
      <4> HIDE DEF I
      <4>2. SumFunctionOnSet(m, I \cup {d}) = SumFunctionOnSet(m, I) + m[d]
        BY <4>1, SumOfOneMore
      <4> QED  BY <3>1, <4>2 DEF I
    <3>5. sum(d) \in Nat
      BY <1>3, <2>1
    <3> HIDE DEF sum
    <3> QED  BY <2>3, <3>4, <3>5, PowerOfSum
  <2>7. Same(pd, S * qd)
    BY <2>1
  <2> HIDE DEF pd, qd, pn, qn, S, Sn, fx, fy, fs
  <2>8. Same(pd * fx, (S * fs) * (qd * fy))
    BY ONLY <2>2, <2>3, <2>5, <2>7, SameMoved
  <2>9. Same(Sn * qn, (S * qd) * (fs * fy)) /\ (S * qd) * (fs * fy) = (S * fs) * (qd * fy)
    <3>1. Same(Sn * qn, (S * qd) * (fs * fy))
      BY ONLY <2>2, <2>3, <2>4, <2>6, SameMoved
    <3>2. (S * qd) * (fs * fy) = (S * fs) * (qd * fy)
      BY ONLY <2>2, <2>3, FactorsMoved
    <3> QED  BY <3>1, <3>2
  <2>10. pd * fx \in Int /\ Sn * qn \in Int /\ (S * fs) * (qd * fy) \in Int
    BY <2>2, <2>3
  <2>11. Same(pn, (S * fs) * (qd * fy))
    BY ONLY <2>2, <2>4, <2>8, <2>10, SameThrough
  <2>12. Same((S * fs) * (qd * fy), Sn * qn)
    BY ONLY <2>9, <2>10, SameBack
  <2>13. Same(pn, Sn * qn)
    BY ONLY <2>2, <2>10, <2>11, <2>12, SameThrough
  <2> QED  BY <2>13 DEF pn, Sn, qn
<1>6. Nat \subseteq A
  <2> HIDE DEF A
  <2> QED  BY <1>4, <1>5, NumberInduction
<1>7. sum(DIM) = SumFunction(m) /\ DIM \in 0..DIM
  BY <1>0 DEF SumFunction
<1> HIDE DEF sum
<1> QED  BY <1>0, <1>1, <1>2, <1>3, <1>6, <1>7

(* A product depends on the values and the exponents only. *)
LEMMA ProductLocal ==
  ASSUME NEW x, NEW act, NEW y, NEW bct, NEW m, Factors(x, act, m),
         \A d \in 0..(DIM - 1) : x[act - d * DELAY] = y[bct - d * DELAY]
  PROVE  Product(x, act, m) = Product(y, bct, m)
<1>0. DIM \in Nat /\ DIM # 0
  BY ForecastAssumption
<1>1. PICK p : IsProduct(p, x, act, m) /\ Product(x, act, m) = p[DIM]
  BY ProductRules
<1>2. Factors(y, bct, m)
  BY DEF Factors
<1>3. PICK q : IsProduct(q, y, bct, m) /\ Product(y, bct, m) = q[DIM]
  BY <1>2, ProductRules
<1> DEFINE A == {d \in Nat : d <= DIM => p[d] = q[d]}
<1>4. 0 \in A
  BY <1>1, <1>3 DEF IsProduct
<1>5. ASSUME NEW d \in Nat, d \in A PROVE d + 1 \in A
  <2> SUFFICES ASSUME d + 1 <= DIM PROVE p[d + 1] = q[d + 1]
    OBVIOUS
  <2>1. d \in 0..(DIM - 1) /\ p[d] = q[d]
    BY <1>0, <1>5
  <2>2. Factor(x, act, m, d) = Factor(y, bct, m, d)
    BY <2>1 DEF Factor
  <2> QED  BY <1>1, <1>3, <2>1, <2>2 DEF IsProduct
<1>6. Nat \subseteq A
  <2> HIDE DEF A
  <2> QED  BY <1>4, <1>5, NumberInduction
<1> QED  BY <1>0, <1>1, <1>3, <1>6

-----------------------------------------------------------------------------
(* Codes and their digits.                                                  *)

IsRest(r, cur) ==
  r \in [Nat -> Nat] /\ r[0] = cur /\ \A d \in Nat : r[d + 1] = r[d] \div (N + 1)

Rest(cur) == CHOOSE r : IsRest(r, cur)

Digit(cur, d) == Rest(cur)[d] % (N + 1)

LEMMA OrderType == N \in Nat /\ N > 0 /\ N + 1 \in Nat \ {0} /\ DIM \in Nat /\ DIM > 0
BY ForecastAssumption

LEMMA RestExists ==
  ASSUME NEW cur \in Nat
  PROVE  IsRest(Rest(cur), cur)
<1> DEFINE next == [c \in Nat \X Nat |-> c[2] \div (N + 1)]
<1>1. next \in Steps(Nat)
  <2>1. \A c \in Nat \X Nat : c[2] \div (N + 1) \in Nat
    <3> TAKE c \in Nat \X Nat
    <3>1. c[2] \in Nat
      OBVIOUS
    <3> QED  BY <3>1, OrderType, QuotientRounds
  <2> QED  BY <2>1 DEF Steps
<1>2. PICK f \in [Nat -> Nat] : f[0] = cur /\ \A n \in Nat : f[n + 1] = next[<<n, f[n]>>]
  <2> DEFINE V == Nat
  <2>1. cur \in V /\ next \in Steps(V)
    BY <1>1
  <2> HIDE DEF next, V
  <2>2. \E f \in [Nat -> V] : f[0] = cur /\ \A n \in Nat : f[n + 1] = next[<<n, f[n]>>]
    BY ONLY <2>1, RecursionExists
  <2> QED  BY <2>2 DEF V
<1>3. \A d \in Nat : f[d + 1] = f[d] \div (N + 1)
  BY <1>2
<1>4. IsRest(f, cur)
  BY <1>2, <1>3 DEF IsRest
<1> QED  BY <1>4 DEF Rest

LEMMA RestOfRest ==
  ASSUME NEW r, NEW q, NEW cur, NEW low, IsRest(r, low), IsRest(q, cur), r[1] = cur
  PROVE  \A d \in Nat : r[d + 1] = q[d]
<1> DEFINE A == {d \in Nat : r[d + 1] = q[d]}
<1>1. 0 \in A
  BY DEF IsRest
<1>2. ASSUME NEW d \in Nat, d \in A PROVE d + 1 \in A
  <2>1. r[(d + 1) + 1] = r[d + 1] \div (N + 1) /\ q[d + 1] = q[d] \div (N + 1) /\ r[d + 1] = q[d]
    BY <1>2 DEF IsRest
  <2>2. r[(d + 1) + 1] = q[d + 1]
    BY <2>1
  <2> QED  BY <2>2
<1>3. Nat \subseteq A
  <2> HIDE DEF A
  <2> QED  BY <1>1, <1>2, NumberInduction
<1> QED  BY <1>3

LEMMA DigitType ==
  ASSUME NEW cur \in Nat, NEW d \in Nat
  PROVE  Digit(cur, d) \in 0..N
<1>1. Rest(cur)[d] \in Nat
  BY RestExists DEF IsRest
<1> QED  BY <1>1, OrderType DEF Digit

LEMMA DecodedDigits ==
  ASSUME NEW cur \in Nat
  PROVE  decodePOLYNOM(cur) = [d \in 0..(DIM - 1) |-> Digit(cur, d)]
<1> DEFINE Rule(r) == r = [d \in Nat |-> IF d = 0 THEN cur ELSE r[d - 1] \div (N + 1)]
           q == CHOOSE r : Rule(r)
           r == Rest(cur)
<1>1. IsRest(r, cur)
  BY RestExists
<1> HIDE DEF r
<1>2. Rule(r)
  <2>1. \A d \in Nat : d # 0 => r[d] = r[d - 1] \div (N + 1)
    <3> TAKE d \in Nat
    <3> HAVE d # 0
    <3>1. d - 1 \in Nat /\ (d - 1) + 1 = d
      OBVIOUS
    <3> QED  BY <1>1, <3>1 DEF IsRest
  <2> QED  BY <1>1, <2>1 DEF IsRest
<1>3. Rule(q)
  <2> HIDE DEF Rule
  <2> QED  BY <1>2
<1>4. decodePOLYNOM(cur) = [d \in 0..(DIM - 1) |-> q[d] % (N + 1)]
  BY DEF decodePOLYNOM
<1> HIDE DEF q
<1>5. q[0] = cur /\ \A d \in Nat : q[d + 1] = q[d] \div (N + 1)
  <2>1. q[0] = cur
    BY <1>3
  <2>2. ASSUME NEW d \in Nat PROVE q[d + 1] = q[d] \div (N + 1)
    <3>1. d + 1 \in Nat /\ d + 1 # 0 /\ (d + 1) - 1 = d
      OBVIOUS
    <3>2. q[d + 1] = q[(d + 1) - 1] \div (N + 1)
      BY <1>3, <3>1
    <3> QED  BY <3>1, <3>2
  <2> QED  BY <2>1, <2>2
<1>6. \A d \in Nat : q[d] = r[d]
  <2> DEFINE A == {d \in Nat : q[d] = r[d]}
  <2>1. 0 \in A
    BY <1>1, <1>5 DEF IsRest
  <2>2. ASSUME NEW d \in Nat, d \in A PROVE d + 1 \in A
    BY <1>1, <1>5, <2>2 DEF IsRest
  <2>3. Nat \subseteq A
    <3> HIDE DEF A
    <3> QED  BY <2>1, <2>2, NumberInduction
  <2> QED  BY <2>3
<1>7. \A d \in 0..(DIM - 1) : q[d] % (N + 1) = Digit(cur, d)
  <2>1. \A d \in 0..(DIM - 1) : d \in Nat
    BY OrderType
  <2> QED  BY <1>6, <2>1 DEF Digit, r
<1> QED  BY <1>4, <1>7

(* The lowest digit of a code, and the others. *)
LEMMA QuotientOfDigits ==
  ASSUME NEW b \in Nat \ {0}, NEW low \in Nat, low < b, NEW q \in Nat
  PROVE  (low + b * q) % b = low /\ (low + b * q) \div b = q
<1> DEFINE c == low + b * q
           d == c \div b
<1>1. c \in Nat /\ d \in Nat /\ b * d <= c /\ c < b * d + b
  <2>1. c \in Nat
    OBVIOUS
  <2> HIDE DEF c
  <2> QED  BY <2>1, QuotientRounds
<1>2. c % b \in Int /\ c = b * d + (c % b)
  <2> HIDE DEF c
  <2> QED  BY <1>1, Z3
<1> HIDE DEF d
<1>3. d = q
  <2>1. CASE d < q
    <3>1. b * d + b <= b * q
      BY <1>1, <2>1, TimesMonotone
    <3> QED  BY <1>1, <3>1
  <2>2. CASE q < d
    <3>1. b * q + b <= b * d
      BY <1>1, <2>2, TimesMonotone
    <3> QED  BY <1>1, <3>1
  <2> QED  BY <1>1, <2>1, <2>2
<1>4. c % b = low
  BY <1>1, <1>2, <1>3
<1> QED  BY <1>3, <1>4 DEF d

LEMMA DigitRules ==
  ASSUME NEW low \in 0..N, NEW q \in Nat
  PROVE  /\ low + (N + 1) * q \in Nat
         /\ Digit(low + (N + 1) * q, 0) = low
         /\ \A d \in Nat : Digit(low + (N + 1) * q, d + 1) = Digit(q, d)
<1> DEFINE c == low + (N + 1) * q
<1>1. low \in Nat /\ low < N + 1 /\ c \in Nat
  BY OrderType
<1>2. c % (N + 1) = low /\ c \div (N + 1) = q
  BY <1>1, OrderType, QuotientOfDigits
<1> HIDE DEF c
<1> DEFINE r == Rest(c)
           s == Rest(q)
<1>3. IsRest(r, c) /\ IsRest(s, q)
  BY <1>1, RestExists
<1> HIDE DEF r, s
<1>4. r[1] = q
  <2>1. r[0 + 1] = r[0] \div (N + 1) /\ r[0] = c
    BY <1>3 DEF IsRest
  <2> QED  BY <1>2, <2>1
<1>5. \A d \in Nat : r[d + 1] = s[d]
  BY <1>3, <1>4, RestOfRest
<1>6. Digit(c, 0) = low
  BY <1>2, <1>3 DEF Digit, r, IsRest
<1>7. ASSUME NEW d \in Nat PROVE Digit(c, d + 1) = Digit(q, d)
  <2>1. r[d + 1] = s[d]
    BY <1>5
  <2> QED  BY <2>1 DEF Digit, r, s
<1> QED  BY <1>1, <1>6, <1>7 DEF c

LEMMA DigitsOfZero == \A d \in Nat : Digit(0, d) = 0
<1> DEFINE A == {d \in Nat : Digit(0, d) = 0}
<1>1. 0 \in 0..N /\ 0 + (N + 1) * 0 = 0 /\ 0 \in Nat
  BY OrderType
<1>2. Digit(0, 0) = 0 /\ \A d \in Nat : Digit(0, d + 1) = Digit(0, d)
  <2>1. Digit(0 + (N + 1) * 0, 0) = 0 /\ \A d \in Nat : Digit(0 + (N + 1) * 0, d + 1) = Digit(0, d)
    BY <1>1, DigitRules
  <2> QED  BY <1>1, <2>1
<1>3. 0 \in A
  BY <1>2
<1>4. ASSUME NEW d \in Nat, d \in A PROVE d + 1 \in A
  BY <1>2, <1>4
<1>5. Nat \subseteq A
  <2> HIDE DEF A
  <2> QED  BY <1>3, <1>4, NumberInduction
<1> QED  BY <1>5

-----------------------------------------------------------------------------
(* Sequences that list exponents, each once.                                *)

DigitsOf(c, n) == [d \in 0..(n - 1) |-> Digit(c, d)]

(* The exponents of n values, of order at most ord. *)
Exponents(n, ord) == {m \in [0..(n - 1) -> 0..N] : SumFunction(m) <= ord}

Lists(s, n, A) ==
  /\ s \in Seq(Nat)
  /\ \A k \in 1..Len(s) : DigitsOf(s[k], n) \in A
  /\ \A k, l \in 1..Len(s) : DigitsOf(s[k], n) = DigitsOf(s[l], n) => k = l
  /\ \A m \in A : \E k \in 1..Len(s) : DigitsOf(s[k], n) = m

LEMMA ListsOne == \A ord \in Nat : Lists(<<0>>, 0, Exponents(0, ord))
<1> TAKE ord \in Nat
<1> DEFINE e == DigitsOf(0, 0)
<1>1. 0..(0 - 1) = {}
  OBVIOUS
<1>2. e \in [0..(0 - 1) -> 0..N] /\ \A m \in [0..(0 - 1) -> 0..N] : m = e
  BY <1>1 DEF DigitsOf
<1>3. SumFunction(e) = 0
  <2>1. DOMAIN e = {}
    BY <1>1, <1>2
  <2> HIDE DEF e
  <2> QED  BY <2>1, SumOfNone DEF SumFunction
<1>4. e \in Exponents(0, ord) /\ \A m \in Exponents(0, ord) : m = e
  BY <1>2, <1>3 DEF Exponents
<1>5. <<0>> \in Seq(Nat) /\ Len(<<0>>) = 1 /\ <<0>>[1] = 0
  OBVIOUS
<1>6. 1..Len(<<0>>) = {1}
  BY <1>5
<1> HIDE DEF e
<1> QED  BY <1>4, <1>5, <1>6 DEF Lists, e

LEMMA ListsTogether ==
  ASSUME NEW s, NEW t, NEW n, NEW A, NEW B, Lists(s, n, A), Lists(t, n, B), A \cap B = {}
  PROVE  /\ Lists(s \o t, n, A \cup B)
         /\ Len(s \o t) = Len(s) + Len(t)
<1> DEFINE u == s \o t
           a == Len(s)
           b == Len(t)
<1>1. s \in Seq(Nat) /\ t \in Seq(Nat) /\ a \in Nat /\ b \in Nat
  BY DEF Lists
<1>2. /\ u \in Seq(Nat) /\ Len(u) = a + b
      /\ \A k \in 1..a : u[k] = s[k]
      /\ \A k \in (a + 1)..(a + b) : u[k] = t[k - a]
  <2>1. u \in Seq(Nat) /\ Len(u) = a + b
    BY <1>1
  <2>2. \A k \in 1..(a + b) : u[k] = IF k <= a THEN s[k] ELSE t[k - a]
    BY <1>1, ConcatProperties
  <2>3. \A k \in 1..a : k \in 1..(a + b) /\ k <= a
    BY <1>1
  <2>4. \A k \in (a + 1)..(a + b) : k \in 1..(a + b) /\ ~ (k <= a)
    BY <1>1
  <2> HIDE DEF u, a, b
  <2> QED  BY <2>1, <2>2, <2>3, <2>4
<1> HIDE DEF u, a, b
<1>3. \A k \in 1..Len(u) : (k \in 1..a /\ u[k] = s[k]) \/ (k - a \in 1..b /\ k > a /\ u[k] = t[k - a])
  <2> TAKE k \in 1..Len(u)
  <2>1. k \in 1..(a + b)
    BY <1>2
  <2>2. CASE k <= a
    <3>1. k \in 1..a
      BY <1>1, <2>1, <2>2
    <3> QED  BY <1>2, <3>1
  <2>3. CASE k > a
    <3>1. k \in (a + 1)..(a + b) /\ k - a \in 1..b
      BY <1>1, <2>1, <2>3
    <3>2. u[k] = t[k - a]
      BY <1>2, <3>1
    <3> QED  BY <2>3, <3>1, <3>2
  <2> QED  BY <1>1, <2>1, <2>2, <2>3
<1>4. \A k \in 1..b : k + a \in 1..Len(u) /\ u[k + a] = t[k]
  <2> TAKE k \in 1..b
  <2>1. k + a \in (a + 1)..(a + b) /\ (k + a) - a = k /\ k + a \in 1..(a + b)
    BY <1>1
  <2> QED  BY <1>2, <2>1
<1>5. \A k \in 1..a : k \in 1..Len(u) /\ u[k] = s[k]
  BY <1>1, <1>2
<1> DEFINE D(c) == DigitsOf(c, n)
<1>6. /\ \A k \in 1..a : D(s[k]) \in A
      /\ \A k, l \in 1..a : D(s[k]) = D(s[l]) => k = l
      /\ \A m \in A : \E k \in 1..a : D(s[k]) = m
  BY DEF Lists, a
<1>7. /\ \A k \in 1..b : D(t[k]) \in B
      /\ \A k, l \in 1..b : D(t[k]) = D(t[l]) => k = l
      /\ \A m \in B : \E k \in 1..b : D(t[k]) = m
  BY DEF Lists, b
<1> HIDE DEF D
<1>8. \A k \in 1..Len(u) : D(u[k]) \in A \cup B
  BY <1>3, <1>6, <1>7
<1>9. ASSUME NEW k \in 1..Len(u), NEW l \in 1..Len(u), D(u[k]) = D(u[l]) PROVE k = l
  <2>1. CASE k \in 1..a /\ u[k] = s[k] /\ l \in 1..a /\ u[l] = s[l]
    BY <1>6, <1>9, <2>1
  <2>2. CASE k \in 1..a /\ u[k] = s[k] /\ l - a \in 1..b /\ u[l] = t[l - a]
    BY <1>6, <1>7, <1>9, <2>2
  <2>3. CASE k - a \in 1..b /\ u[k] = t[k - a] /\ l \in 1..a /\ u[l] = s[l]
    BY <1>6, <1>7, <1>9, <2>3
  <2>4. CASE k - a \in 1..b /\ u[k] = t[k - a] /\ l - a \in 1..b /\ u[l] = t[l - a]
    <3>1. k - a = l - a
      BY <1>7, <1>9, <2>4
    <3> QED  BY <1>1, <1>2, <3>1
  <2> QED  BY <1>3, <2>1, <2>2, <2>3, <2>4
<1>10. \A m \in A \cup B : \E k \in 1..Len(u) : D(u[k]) = m
  <2>1. ASSUME NEW m \in A PROVE \E k \in 1..Len(u) : D(u[k]) = m
    <3>1. PICK k \in 1..a : D(s[k]) = m
      BY <1>6
    <3> QED  BY <1>5, <3>1
  <2>2. ASSUME NEW m \in B PROVE \E k \in 1..Len(u) : D(u[k]) = m
    <3>1. PICK k \in 1..b : D(t[k]) = m
      BY <1>7
    <3> QED  BY <1>4, <3>1
  <2> QED  BY <2>1, <2>2
<1>11. Lists(u, n, A \cup B)
  BY <1>2, <1>8, <1>9, <1>10 DEF Lists, D
<1> QED  BY <1>2, <1>11 DEF u, a, b

(* The exponents of the values but the newest. *)
Tailed(m, n) == [d \in 0..(n - 1) |-> m[d + 1]]

LEMMA FirstExponent ==
  ASSUME NEW n \in Nat, NEW m \in [0..n -> 0..N]
  PROVE  /\ Tailed(m, n) \in [0..(n - 1) -> 0..N]
         /\ SumFunction(Tailed(m, n)) \in Nat
         /\ SumFunction(m) = m[0] + SumFunction(Tailed(m, n))
<1> DEFINE t == Tailed(m, n)
           h == [d \in 0..(n - 1) |-> d + 1]
<1>1. t \in [0..(n - 1) -> 0..N]
  BY DEF Tailed
<1>2. IsFiniteSet(0..(n - 1)) /\ IsFiniteSet(0..n)
  BY FS_Interval
<1>3. /\ h \in [0..(n - 1) -> 1..n]
      /\ \A a, b \in 0..(n - 1) : h[a] = h[b] => a = b
      /\ \A b \in 1..n : \E a \in 0..(n - 1) : h[a] = b
  <2>1. h \in [0..(n - 1) -> 1..n]
    OBVIOUS
  <2>2. \A a, b \in 0..(n - 1) : h[a] = h[b] => a = b
    OBVIOUS
  <2>3. ASSUME NEW b \in 1..n PROVE \E a \in 0..(n - 1) : h[a] = b
    <3>1. b - 1 \in 0..(n - 1) /\ h[b - 1] = b
      OBVIOUS
    <3> QED  BY <3>1
  <2> QED  BY <2>1, <2>2, <2>3
<1>4. \A a \in 0..(n - 1) : t[a] \in Int /\ t[a] = m[h[a]]
  BY <1>1, OrderType DEF Tailed
<1>5. SumFunctionOnSet(t, 0..(n - 1)) = SumFunctionOnSet(m, 1..n)
  <2> DEFINE A == 0..(n - 1)
             B == 1..n
  <2>1. /\ IsFiniteSet(A) /\ h \in [A -> B]
        /\ \A a, b \in A : h[a] = h[b] => a = b
        /\ \A b \in B : \E a \in A : h[a] = b
        /\ \A a \in A : t[a] \in Int /\ t[a] = m[h[a]]
    BY <1>2, <1>3, <1>4
  <2> HIDE DEF A, B, h, t
  <2>2. SumFunctionOnSet(t, A) = SumFunctionOnSet(m, B)
    BY ONLY <2>1, SumRenamed, SMTT(60)
  <2> QED  BY <2>2 DEF A, B
<1>6. SumFunctionOnSet(m, 0..n) = m[0] + SumFunctionOnSet(m, 1..n)
  <2>1. 0 \in 0..n /\ (0..n) \ {0} = 1..n /\ \A y \in 0..n : m[y] \in Int
    BY OrderType
  <2>2. SumFunctionOnSet(m, 0..n) = m[0] + SumFunctionOnSet(m, (0..n) \ {0})
    BY <1>2, <2>1, SumTakesAny
  <2> QED  BY <2>1, <2>2
<1>7. SumFunctionOnSet(t, 0..(n - 1)) \in Nat
  <2>1. \A a \in 0..(n - 1) : t[a] \in Nat
    BY <1>1, OrderType
  <2> HIDE DEF t
  <2> QED  BY <1>2, <2>1, SumIsNat
<1>8. DOMAIN t = 0..(n - 1) /\ DOMAIN m = 0..n
  BY <1>1
<1> HIDE DEF t
<1>9. SumFunction(t) \in Nat /\ SumFunction(m) = m[0] + SumFunction(t)
  BY <1>5, <1>6, <1>7, <1>8 DEF SumFunction
<1> QED  BY <1>1, <1>9 DEF t

(* Exponents whose first is low. *)
Begun(n, ord, low) == {m \in Exponents(n, ord) : m[0] = low}

Shifted(s, low) == [k \in DOMAIN s |-> low + (N + 1) * s[k]]

LEMMA ShiftedLists ==
  ASSUME NEW s, NEW n \in Nat, NEW ord \in Nat, NEW low \in 0..N,
         Lists(s, n, Exponents(n, ord))
  PROVE  /\ Lists(Shifted(s, low), n + 1, Begun(n + 1, ord + low, low))
         /\ Len(Shifted(s, low)) = Len(s)
<1> DEFINE t == Shifted(s, low)
           A == Exponents(n, ord)
           B == {m \in Exponents(n + 1, ord + low) : m[0] = low}
           len == Len(s)
<1>1. s \in Seq(Nat) /\ len \in Nat /\ DOMAIN s = 1..len /\ \A k \in 1..len : s[k] \in Nat
  BY DEF Lists
<1>2. t \in Seq(Nat) /\ Len(t) = len /\ \A k \in 1..len : t[k] = low + (N + 1) * s[k]
  <2>1. t = [k \in 1..len |-> low + (N + 1) * s[k]]
    BY <1>1 DEF Shifted
  <2>2. \A k \in 1..len : low + (N + 1) * s[k] \in Nat
    BY <1>1, DigitRules
  <2> HIDE DEF t, len
  <2> QED  BY <1>1, <2>1, <2>2
<1> HIDE DEF t, len
<1>3. ASSUME NEW k \in 1..len
      PROVE  /\ DigitsOf(t[k], n + 1) \in [0..n -> 0..N]
             /\ DigitsOf(t[k], n + 1)[0] = low
             /\ Tailed(DigitsOf(t[k], n + 1), n) = DigitsOf(s[k], n)
             /\ DigitsOf(s[k], n) \in A
  <2>1. (n + 1) - 1 = n /\ t[k] \in Nat
    BY <1>1, <1>2
  <2>2. \A d \in 0..n : Digit(t[k], d) \in 0..N
    <3>1. \A d \in 0..n : d \in Nat
      OBVIOUS
    <3> QED  BY <2>1, <3>1, DigitType
  <2>3. DigitsOf(t[k], n + 1) = [d \in 0..n |-> Digit(t[k], d)]
    BY <2>1 DEF DigitsOf
  <2>4. Digit(t[k], 0) = low /\ \A d \in Nat : Digit(t[k], d + 1) = Digit(s[k], d)
    <3> DEFINE q == s[k]
               c == low + (N + 1) * q
    <3>1. q \in Nat /\ t[k] = c
      BY <1>1, <1>2
    <3> HIDE DEF q
    <3>2. Digit(c, 0) = low /\ \A d \in Nat : Digit(c, d + 1) = Digit(q, d)
      BY <3>1, DigitRules
    <3> HIDE DEF c
    <3> QED  BY <3>1, <3>2 DEF q
  <2>5. \A d \in 0..(n - 1) : d + 1 \in 0..n /\ d \in Nat
    OBVIOUS
  <2>6. Tailed(DigitsOf(t[k], n + 1), n) = DigitsOf(s[k], n)
    BY <2>3, <2>4, <2>5 DEF Tailed, DigitsOf
  <2>7. DigitsOf(s[k], n) \in A
    BY DEF Lists, len
  <2>8. DigitsOf(t[k], n + 1) \in [0..n -> 0..N]
    BY <2>2, <2>3
  <2>9. DigitsOf(t[k], n + 1)[0] = low
    <3>1. 0 \in 0..n
      OBVIOUS
    <3> QED  BY <2>3, <2>4, <3>1
  <2> QED  BY <2>6, <2>7, <2>8, <2>9
<1>4. \A m \in Exponents(n + 1, ord + low) : m \in [0..n -> 0..N] /\ SumFunction(m) <= ord + low
  <2>1. (n + 1) - 1 = n
    OBVIOUS
  <2> QED  BY <2>1 DEF Exponents
<1>5. \A m \in [0..n -> 0..N] : SumFunction(m) <= ord + low => m \in Exponents(n + 1, ord + low)
  <2>1. (n + 1) - 1 = n
    OBVIOUS
  <2> QED  BY <2>1 DEF Exponents
<1>6. ASSUME NEW k \in 1..len PROVE DigitsOf(t[k], n + 1) \in B
  <2> DEFINE e == DigitsOf(t[k], n + 1)
  <2>1. e \in [0..n -> 0..N] /\ e[0] = low /\ Tailed(e, n) \in A
    BY <1>3
  <2> HIDE DEF e
  <2>2. SumFunction(Tailed(e, n)) <= ord /\ SumFunction(Tailed(e, n)) \in Nat
        /\ SumFunction(e) = low + SumFunction(Tailed(e, n))
    BY <2>1, FirstExponent DEF Exponents
  <2>3. SumFunction(e) <= ord + low
    BY <2>2, OrderType
  <2>4. e \in B
    BY <1>5, <2>1, <2>3
  <2> QED  BY <2>4 DEF e
<1>7. ASSUME NEW k \in 1..len, NEW l \in 1..len, DigitsOf(t[k], n + 1) = DigitsOf(t[l], n + 1)
      PROVE  k = l
  <2>1. DigitsOf(s[k], n) = DigitsOf(s[l], n)
    BY <1>3, <1>7
  <2> QED  BY <2>1 DEF Lists, len
<1>8. ASSUME NEW m \in B PROVE \E k \in 1..len : DigitsOf(t[k], n + 1) = m
  <2>1. m \in [0..n -> 0..N] /\ SumFunction(m) <= ord + low /\ m[0] = low
    BY <1>4
  <2>2. /\ Tailed(m, n) \in [0..(n - 1) -> 0..N]
        /\ SumFunction(Tailed(m, n)) \in Nat
        /\ SumFunction(m) = m[0] + SumFunction(Tailed(m, n))
    BY <2>1, FirstExponent
  <2>3. Tailed(m, n) \in A
    <3>1. SumFunction(Tailed(m, n)) <= ord
      BY <2>1, <2>2, OrderType
    <3> QED  BY <2>2, <3>1 DEF Exponents
  <2>4. PICK k \in 1..len : DigitsOf(s[k], n) = Tailed(m, n)
    BY <2>3 DEF Lists, len
  <2> DEFINE e == DigitsOf(t[k], n + 1)
  <2>5. e \in [0..n -> 0..N] /\ e[0] = low /\ Tailed(e, n) = Tailed(m, n)
    BY <1>3, <2>4
  <2> HIDE DEF e
  <2>6. \A d \in 0..n : e[d] = m[d]
    <3> TAKE d \in 0..n
    <3>1. CASE d = 0
      BY <2>1, <2>5, <3>1
    <3>2. CASE d # 0
      <4>1. d - 1 \in 0..(n - 1) /\ (d - 1) + 1 = d
        BY <3>2
      <4>2. Tailed(e, n)[d - 1] = e[(d - 1) + 1] /\ Tailed(m, n)[d - 1] = m[(d - 1) + 1]
        BY <4>1 DEF Tailed
      <4> QED  BY <2>5, <4>1, <4>2
    <3> QED  BY <3>1, <3>2
  <2>7. e = m
    BY <2>1, <2>5, <2>6
  <2> QED  BY <2>7 DEF e
<1>9. Lists(t, n + 1, B)
  <2> HIDE DEF B
  <2> QED  BY <1>2, <1>6, <1>7, <1>8 DEF Lists
<1> QED  BY <1>2, <1>9 DEF t, len, Begun

-----------------------------------------------------------------------------
(* Sequences one after the other.                                           *)

IsFlat(f, parts, n) ==
  /\ f \in [1..n -> Seq(Nat)] /\ f[1] = parts[1]
  /\ \A k \in 1..(n - 1) : f[k + 1] = f[k] \o parts[k + 1]

LEMMA FlattenRules ==
  ASSUME NEW size \in Nat \ {0}, NEW parts \in [1..size -> Seq(Nat)]
  PROVE  \E f : IsFlat(f, parts, size) /\ FlattenSeq(parts) = f[size]
<1> DEFINE Rule(f) == f = [k \in 1..Len(parts) |->
                             IF k = 1 THEN parts[k] ELSE f[k - 1] \o parts[k]]
           q == CHOOSE f : Rule(f)
           next == [c \in Nat \X Seq(Nat) |->
                      IF c[1] < size - 1 THEN c[2] \o parts[c[1] + 2] ELSE c[2]]
<1>0. Len(parts) = size
  <2>1. parts = [k \in 1..size |-> parts[k]]
    OBVIOUS
  <2> DEFINE g == [k \in 1..size |-> parts[k]]
  <2>2. Len(g) = size
    OBVIOUS
  <2> QED  BY <2>1, <2>2
<1>1. next \in Steps(Seq(Nat))
  <2>1. \A c \in Nat \X Seq(Nat) : c[1] < size - 1 => c[2] \o parts[c[1] + 2] \in Seq(Nat)
    <3> TAKE c \in Nat \X Seq(Nat)
    <3> HAVE c[1] < size - 1
    <3>1. c[1] + 2 \in 1..size /\ c[2] \in Seq(Nat)
      OBVIOUS
    <3>2. parts[c[1] + 2] \in Seq(Nat)
      BY <3>1
    <3> QED  BY <3>1, <3>2, ConcatProperties
  <2>2. \A c \in Nat \X Seq(Nat) : c[2] \in Seq(Nat)
    OBVIOUS
  <2> QED  BY <2>1, <2>2 DEF Steps
<1>2. PICK g \in [Nat -> Seq(Nat)] : g[0] = parts[1] /\ \A n \in Nat : g[n + 1] = next[<<n, g[n]>>]
  <2> DEFINE V == Seq(Nat)
             base == parts[1]
  <2>1. base \in V /\ next \in Steps(V)
    BY <1>1
  <2> HIDE DEF next, V, base
  <2>2. PICK f : f \in Recursions(V, base, next)
    BY ONLY <2>1, RecursionsExist
  <2> QED  BY <2>2 DEF V, base, Recursions
<1> DEFINE f == [k \in 1..size |-> g[k - 1]]
<1>3. f \in [1..size -> Seq(Nat)] /\ f[1] = parts[1]
  BY <1>2
<1>4. ASSUME NEW k \in 1..(size - 1) PROVE f[k + 1] = f[k] \o parts[k + 1]
  <2>1. k - 1 \in Nat /\ (k - 1) + 1 = k /\ (k - 1) + 2 = k + 1 /\ k - 1 < size - 1
        /\ (k + 1) - 1 = k /\ k \in 1..size /\ k + 1 \in 1..size
    OBVIOUS
  <2>2. g[(k - 1) + 1] = next[<<k - 1, g[k - 1]>>] /\ g[k - 1] \in Seq(Nat)
    BY <1>2, <2>1
  <2>3. next[<<k - 1, g[k - 1]>>] = g[k - 1] \o parts[(k - 1) + 2]
    BY <2>1, <2>2
  <2>4. f[k + 1] = g[(k + 1) - 1] /\ f[k] = g[k - 1]
    BY <2>1
  <2>5. g[k] = g[k - 1] \o parts[k + 1]
    <3> HIDE DEF next, f
    <3> QED  BY <2>1, <2>2, <2>3
  <2> HIDE DEF next, f
  <2> QED  BY <2>1, <2>4, <2>5
<1> HIDE DEF f, next
<1>5. Rule(f)
  <2>1. \A k \in 1..size : k # 1 => f[k] = f[k - 1] \o parts[k]
    <3> TAKE k \in 1..size
    <3> HAVE k # 1
    <3>1. k - 1 \in 1..(size - 1) /\ (k - 1) + 1 = k
      OBVIOUS
    <3>2. f[(k - 1) + 1] = f[k - 1] \o parts[(k - 1) + 1]
      BY <1>4, <3>1
    <3> QED  BY <3>1, <3>2
  <2> QED  BY <1>0, <1>3, <2>1
<1>6. Rule(q)
  <2> HIDE DEF Rule
  <2> QED  BY <1>5
<1>7. FlattenSeq(parts) = q[size]
  BY <1>0 DEF FlattenSeq
<1> HIDE DEF q
<1>8. q[1] = parts[1] /\ \A k \in 1..(size - 1) : q[k + 1] = q[k] \o parts[k + 1]
  <2>1. q[1] = parts[1]
    BY <1>0, <1>6
  <2>2. ASSUME NEW k \in 1..(size - 1) PROVE q[k + 1] = q[k] \o parts[k + 1]
    <3>1. k + 1 \in 1..size /\ k + 1 # 1 /\ (k + 1) - 1 = k
      OBVIOUS
    <3>2. q[k + 1] = q[(k + 1) - 1] \o parts[k + 1]
      BY <1>0, <1>6, <3>1
    <3> QED  BY <3>1, <3>2
  <2> QED  BY <2>1, <2>2
<1>9. \A k \in 1..size : q[k] = f[k]
  <2> DEFINE Agree(k) == q[k + 1] = f[k + 1]
             A == {k \in Nat : k + 1 <= size => Agree(k)}
  <2>1. 0 \in A
    BY <1>3, <1>8
  <2> HIDE DEF Agree
  <2>2. ASSUME NEW k \in Nat, k \in A PROVE k + 1 \in A
    <3>1. CASE (k + 1) + 1 <= size
      <4>1. k + 1 \in 1..(size - 1)
        BY <3>1
      <4>2. k + 1 <= size /\ Agree(k)
        BY <2>2, <4>1
      <4>3. q[(k + 1) + 1] = q[k + 1] \o parts[(k + 1) + 1]
        BY <1>8, <4>1
      <4>4. f[(k + 1) + 1] = f[k + 1] \o parts[(k + 1) + 1]
        BY <1>4, <4>1
      <4>5. Agree(k + 1)
        BY <4>2, <4>3, <4>4 DEF Agree
      <4> QED  BY <4>5
    <3>2. k + 1 \in Nat
      OBVIOUS
    <3> QED  BY <3>1, <3>2
  <2>3. Nat \subseteq A
    <3> HIDE DEF A
    <3> QED  BY <2>1, <2>2, NumberInduction
  <2>4. \A k \in 1..size : k - 1 \in Nat /\ (k - 1) + 1 = k
    OBVIOUS
  <2>5. ASSUME NEW k \in 1..size PROVE q[k] = f[k]
    <3>1. k - 1 \in A /\ (k - 1) + 1 = k
      BY <2>3, <2>4
    <3>2. Agree(k - 1)
      BY <3>1
    <3>3. q[(k - 1) + 1] = f[(k - 1) + 1]
      BY <3>2 DEF Agree
    <3> QED  BY <3>1, <3>3
  <2> QED  BY <2>5
<1>10. IsFlat(f, parts, size)
  BY <1>3, <1>4 DEF IsFlat
<1>11. FlattenSeq(parts) = f[size]
  <2>1. size \in 1..size
    OBVIOUS
  <2> QED  BY ONLY <1>7, <1>9, <2>1
<1> QED  BY ONLY <1>10, <1>11

LEMMA FlattenType ==
  ASSUME NEW n \in Nat \ {0}, NEW parts \in [1..n -> Seq(Nat)]
  PROVE  FlattenSeq(parts) \in Seq(Nat)
<1>1. PICK f : IsFlat(f, parts, n) /\ FlattenSeq(parts) = f[n]
  BY FlattenRules
<1> QED  BY <1>1 DEF IsFlat

-----------------------------------------------------------------------------
(* The codes of make_codingPOLYNOM.                                         *)

Parts(v, ord) == [k \in 1..(ord + 1) |-> Shifted(v[ord - (k - 1)], k - 1)]

IsCode(c) ==
  /\ c \in [Nat -> [0..N -> Seq(Nat)]]
  /\ c[0] = [ord \in 0..N |-> <<0>>]
  /\ \A n \in Nat : c[n + 1] = [ord \in 0..N |-> FlattenSeq(Parts(c[n], ord))]

LEMMA ShiftedType ==
  ASSUME NEW s \in Seq(Nat), NEW low \in Nat
  PROVE  Shifted(s, low) \in Seq(Nat) /\ Len(Shifted(s, low)) = Len(s)
<1>1. \A k \in 1..Len(s) : low + (N + 1) * s[k] \in Nat
  BY OrderType, SMTT(60)
<1>2. Shifted(s, low) = [k \in 1..Len(s) |-> low + (N + 1) * s[k]] /\ Len(s) \in Nat
  BY DEF Shifted
<1> QED  BY <1>1, <1>2

LEMMA PartsType ==
  ASSUME NEW v \in [0..N -> Seq(Nat)], NEW ord \in 0..N
  PROVE  /\ ord \in Nat /\ ord + 1 \in Nat \ {0}
         /\ Parts(v, ord) \in [1..(ord + 1) -> Seq(Nat)]
         /\ \A k \in 1..(ord + 1) : /\ Parts(v, ord)[k] = Shifted(v[ord - (k - 1)], k - 1)
                                    /\ ord - (k - 1) \in 0..N /\ k - 1 \in 0..N
                                    /\ Len(Parts(v, ord)[k]) = Len(v[ord - (k - 1)])
                                    /\ Len(Parts(v, ord)[k]) \in Nat
<1>1. ord \in Nat /\ ord <= N /\ ord + 1 \in Nat \ {0}
  BY OrderType
<1>2. ASSUME NEW k \in 1..(ord + 1)
      PROVE  /\ ord - (k - 1) \in 0..N /\ k - 1 \in 0..N
             /\ Shifted(v[ord - (k - 1)], k - 1) \in Seq(Nat)
             /\ Len(Shifted(v[ord - (k - 1)], k - 1)) = Len(v[ord - (k - 1)])
             /\ Len(v[ord - (k - 1)]) \in Nat
  <2>1. ord - (k - 1) \in 0..N /\ k - 1 \in 0..N /\ k - 1 \in Nat
    BY <1>1, OrderType
  <2>2. v[ord - (k - 1)] \in Seq(Nat)
    BY <2>1
  <2> QED  BY <2>1, <2>2, ShiftedType
<1> QED  BY <1>1, <1>2 DEF Parts

LEMMA CodeExists ==
  \E c : IsCode(c) /\ make_codingPOLYNOM = c[DIM][N]
<1> DEFINE V == [0..N -> Seq(Nat)]
           base == [ord \in 0..N |-> <<0>>]
           Grow(v) == [ord \in 0..N |-> FlattenSeq(Parts(v, ord))]
           next == [p \in Nat \X V |-> Grow(p[2])]
           Rule(c) == c = [d \in Nat |-> IF d = 0 THEN base ELSE Grow(c[d - 1])]
           q == CHOOSE c : Rule(c)
<1>1. base \in V
  OBVIOUS
<1>2. \A v \in V : Grow(v) \in V
  BY PartsType, FlattenType
<1>3. next \in Steps(V)
  <2> HIDE DEF V, Grow
  <2> QED  BY <1>2 DEF Steps
<1>4. PICK f : f \in Recursions(V, base, next)
  <2> HIDE DEF V, base, next
  <2> QED  BY ONLY <1>1, <1>3, RecursionsExist
<1>5. f \in [Nat -> V] /\ f[0] = base /\ \A n \in Nat : f[n + 1] = Grow(f[n])
  <2>1. f \in [Nat -> V] /\ f[0] = base /\ \A n \in Nat : f[n + 1] = next[<<n, f[n]>>]
    BY <1>4 DEF Recursions
  <2> HIDE DEF V, base, Grow
  <2> QED  BY <2>1
<1> HIDE DEF V, base, Grow, next
<1>6. Rule(f)
  <2>1. \A d \in Nat : d # 0 => f[d] = Grow(f[d - 1])
    <3> TAKE d \in Nat
    <3> HAVE d # 0
    <3>1. d - 1 \in Nat /\ (d - 1) + 1 = d
      OBVIOUS
    <3>2. f[(d - 1) + 1] = Grow(f[d - 1])
      BY <1>5, <3>1
    <3> QED  BY <3>1, <3>2
  <2> QED  BY <1>5, <2>1
<1>7. Rule(q)
  <2> HIDE DEF Rule
  <2> QED  BY <1>6
<1>8. make_codingPOLYNOM = q[DIM][N]
  BY DEF make_codingPOLYNOM, Grow, base, Parts, Shifted
<1> HIDE DEF q
<1>9. q[0] = base /\ \A n \in Nat : q[n + 1] = Grow(q[n])
  <2>1. q[0] = base
    BY <1>7
  <2>2. ASSUME NEW n \in Nat PROVE q[n + 1] = Grow(q[n])
    <3>1. n + 1 \in Nat /\ n + 1 # 0 /\ (n + 1) - 1 = n
      OBVIOUS
    <3>2. q[n + 1] = Grow(q[(n + 1) - 1])
      BY <1>7, <3>1
    <3> QED  BY <3>1, <3>2
  <2> QED  BY <2>1, <2>2
<1>10. \A n \in Nat : q[n] = f[n]
  <2> DEFINE A == {n \in Nat : q[n] = f[n]}
  <2>1. 0 \in A
    BY <1>5, <1>9
  <2>2. ASSUME NEW n \in Nat, n \in A PROVE n + 1 \in A
    BY <1>5, <1>9, <2>2
  <2>3. Nat \subseteq A
    <3> HIDE DEF A
    <3> QED  BY <2>1, <2>2, NumberInduction
  <2> QED  BY <2>3
<1>11. IsCode(f)
  BY <1>5 DEF IsCode, V, base, Grow
<1>12. q[DIM] = f[DIM]
  BY <1>10, OrderType
<1> QED  BY <1>8, <1>11, <1>12

(* Exponents whose first is low or less. *)
UpTo(n, ord, low) == {m \in Exponents(n, ord) : m[0] <= low}

LEMMA CodeLists ==
  ASSUME NEW c, IsCode(c)
  PROVE  \A n \in Nat : \A ord \in 0..N : Lists(c[n][ord], n, Exponents(n, ord))
<1> DEFINE A == {n \in Nat : \A ord \in 0..N : Lists(c[n][ord], n, Exponents(n, ord))}
<1>1. 0 \in A
  <2>1. \A ord \in 0..N : c[0][ord] = <<0>> /\ ord \in Nat
    BY OrderType DEF IsCode
  <2> QED  BY <2>1, ListsOne
<1>2. ASSUME NEW n \in Nat, n \in A PROVE n + 1 \in A
  <2> SUFFICES ASSUME NEW ord \in 0..N
               PROVE  Lists(c[n + 1][ord], n + 1, Exponents(n + 1, ord))
    OBVIOUS
  <2> DEFINE v == c[n]
             parts == Parts(v, ord)
  <2>1. v \in [0..N -> Seq(Nat)] /\ c[n + 1][ord] = FlattenSeq(parts)
    BY DEF IsCode
  <2>2. \A o \in 0..N : Lists(v[o], n, Exponents(n, o))
    BY <1>2
  <2> HIDE DEF v
  <2>3. /\ ord \in Nat /\ ord + 1 \in Nat \ {0}
        /\ parts \in [1..(ord + 1) -> Seq(Nat)]
        /\ \A k \in 1..(ord + 1) : /\ parts[k] = Shifted(v[ord - (k - 1)], k - 1)
                                   /\ ord - (k - 1) \in 0..N /\ k - 1 \in 0..N
    BY <2>1, PartsType
  <2> HIDE DEF parts
  <2>4. PICK f : IsFlat(f, parts, ord + 1) /\ FlattenSeq(parts) = f[ord + 1]
    BY <2>3, FlattenRules
  <2>5. ASSUME NEW k \in 1..(ord + 1)
        PROVE  Lists(parts[k], n + 1, Begun(n + 1, ord, k - 1))
    <3> DEFINE low == k - 1
               rest == ord - low
    <3>1. low \in 0..N /\ rest \in 0..N /\ rest \in Nat /\ rest + low = ord
      BY <2>3, OrderType
    <3>2. parts[k] = Shifted(v[rest], low)
      BY <2>3
    <3>3. Lists(v[rest], n, Exponents(n, rest))
      BY <2>2, <3>1
    <3> HIDE DEF low, rest
    <3>4. Lists(Shifted(v[rest], low), n + 1, Begun(n + 1, rest + low, low))
      BY <3>1, <3>3, ShiftedLists
    <3>5. Lists(parts[k], n + 1, Begun(n + 1, ord, low))
      BY <3>1, <3>2, <3>4
    <3> QED  BY <3>5 DEF low
  <2>6. \A m \in Exponents(n + 1, ord) : m[0] \in Nat /\ m[0] <= ord
    <3> TAKE m \in Exponents(n + 1, ord)
    <3>1. (n + 1) - 1 = n /\ 0 \in 0..n
      OBVIOUS
    <3>2. m \in [0..n -> 0..N] /\ SumFunction(m) <= ord
      BY <3>1 DEF Exponents
    <3>3. SumFunction(Tailed(m, n)) \in Nat /\ SumFunction(m) = m[0] + SumFunction(Tailed(m, n))
      BY <3>2, FirstExponent
    <3>4. m[0] \in Nat
      BY <3>1, <3>2, OrderType
    <3> QED  BY <2>3, <3>2, <3>3, <3>4
  <2> DEFINE B == {k \in Nat : k + 1 <= ord + 1 => Lists(f[k + 1], n + 1, UpTo(n + 1, ord, k))}
  <2>7. 0 \in B
    <3>1. f[1] = parts[1] /\ 1 \in 1..(ord + 1)
      BY <2>3, <2>4 DEF IsFlat
    <3>2. Begun(n + 1, ord, 1 - 1) = UpTo(n + 1, ord, 0)
      BY <2>6 DEF UpTo, Begun
    <3>3. Lists(parts[1], n + 1, Begun(n + 1, ord, 1 - 1))
      BY <2>5, <3>1
    <3>4. Lists(f[0 + 1], n + 1, UpTo(n + 1, ord, 0))
      BY <3>1, <3>2, <3>3
    <3> QED  BY <3>4
  <2>8. ASSUME NEW k \in Nat, k \in B PROVE k + 1 \in B
    <3> SUFFICES ASSUME (k + 1) + 1 <= ord + 1
                 PROVE  Lists(f[(k + 1) + 1], n + 1, UpTo(n + 1, ord, k + 1))
      OBVIOUS
    <3>1. /\ k + 1 \in 1..((ord + 1) - 1) /\ (k + 1) + 1 \in 1..(ord + 1)
          /\ ((k + 1) + 1) - 1 = k + 1 /\ k + 1 <= ord + 1
      BY <2>3
    <3>2. f[(k + 1) + 1] = f[k + 1] \o parts[(k + 1) + 1]
      BY <2>4, <3>1 DEF IsFlat
    <3> DEFINE E == UpTo(n + 1, ord, k)
               F == Begun(n + 1, ord, k + 1)
    <3>3. Lists(f[k + 1], n + 1, E)
      BY <2>8, <3>1
    <3>4. Lists(parts[(k + 1) + 1], n + 1, F)
      <4>1. Lists(parts[(k + 1) + 1], n + 1, Begun(n + 1, ord, ((k + 1) + 1) - 1))
        BY <2>5, <3>1
      <4> QED  BY <3>1, <4>1
    <3>5. E \cap F = {} /\ E \cup F = UpTo(n + 1, ord, k + 1)
      BY <2>6 DEF UpTo, Begun
    <3> HIDE DEF E, F
    <3>6. Lists(f[k + 1] \o parts[(k + 1) + 1], n + 1, E \cup F)
      BY <3>3, <3>4, <3>5, ListsTogether
    <3> QED  BY <3>2, <3>5, <3>6
  <2>9. Nat \subseteq B
    <3> HIDE DEF B
    <3> QED  BY <2>7, <2>8, NumberInduction
  <2>10. Lists(f[ord + 1], n + 1, UpTo(n + 1, ord, ord))
    BY <2>3, <2>9
  <2>11. UpTo(n + 1, ord, ord) = Exponents(n + 1, ord)
    BY <2>6 DEF UpTo
  <2> QED  BY <2>1, <2>4, <2>10, <2>11
<1>3. Nat \subseteq A
  <2> HIDE DEF A
  <2> QED  BY <1>1, <1>2, NumberInduction
<1> QED  BY <1>3

(* How many codes there are of n values, as Pascal's triangle counts them.  *)
LEMMA CodeLengths ==
  ASSUME NEW c, IsCode(c)
  PROVE  /\ \A n \in Nat : \A ord \in 0..N : Len(c[n][ord]) \in Nat
         /\ \A ord \in 0..N : Len(c[0][ord]) = 1
         /\ \A n \in Nat : Len(c[n][0]) = 1
         /\ \A n \in Nat : \A ord \in 0..(N - 1) :
              Len(c[n + 1][ord + 1]) = Len(c[n][ord + 1]) + Len(c[n + 1][ord])
<1>1. ASSUME NEW n \in Nat, NEW ord \in 0..N
      PROVE  /\ c[n] \in [0..N -> Seq(Nat)] /\ Len(c[n][ord]) \in Nat
             /\ c[n + 1][ord] = FlattenSeq(Parts(c[n], ord))
  <2>1. /\ c[n] \in [0..N -> Seq(Nat)]
        /\ c[n + 1] = [o \in 0..N |-> FlattenSeq(Parts(c[n], o))]
    BY DEF IsCode
  <2>2. c[n][ord] \in Seq(Nat)
    BY <2>1
  <2>3. Len(c[n][ord]) \in Nat
    BY <2>2
  <2> QED  BY <2>1, <2>3
<1>2. \A ord \in 0..N : Len(c[0][ord]) = 1
  <2>1. Len(<<0>>) = 1
    OBVIOUS
  <2> QED  BY <2>1 DEF IsCode
<1>3. ASSUME NEW n \in Nat PROVE Len(c[n + 1][0]) = Len(c[n][0])
  <2> DEFINE parts == Parts(c[n], 0)
  <2>a. 0 \in 0..N
    BY OrderType
  <2>1. 0 \in 0..N /\ c[n] \in [0..N -> Seq(Nat)] /\ c[n + 1][0] = FlattenSeq(parts)
    BY <1>1, <2>a
  <2>2. /\ parts \in [1..(0 + 1) -> Seq(Nat)]
        /\ \A k \in 1..(0 + 1) : Len(parts[k]) = Len(c[n][0 - (k - 1)])
    BY <2>1, PartsType
  <2> HIDE DEF parts
  <2>3. 0 + 1 \in Nat \ {0} /\ 0 + 1 = 1 /\ 1 \in 1..(0 + 1) /\ 0 - (1 - 1) = 0
    OBVIOUS
  <2>4. PICK f : IsFlat(f, parts, 0 + 1) /\ FlattenSeq(parts) = f[0 + 1]
    BY <2>2, <2>3, FlattenRules
  <2>5. f[1] = parts[1]
    BY <2>4 DEF IsFlat
  <2>6. Len(parts[1]) = Len(c[n][0])
    BY <2>2, <2>3
  <2> QED  BY <2>1, <2>3, <2>4, <2>5, <2>6
<1>4. \A n \in Nat : Len(c[n][0]) = 1
  <2> DEFINE A == {n \in Nat : Len(c[n][0]) = 1}
  <2>1. 0 \in A
    BY <1>2, OrderType
  <2>2. ASSUME NEW n \in Nat, n \in A PROVE n + 1 \in A
    <3>1. n + 1 \in Nat /\ Len(c[n + 1][0]) = Len(c[n][0]) /\ Len(c[n][0]) = 1
      BY <1>3, <2>2
    <3> QED  BY <3>1
  <2>3. Nat \subseteq A
    <3> HIDE DEF A
    <3> QED  BY <2>1, <2>2, NumberInduction
  <2> QED  BY <2>3
<1>5. ASSUME NEW n \in Nat, NEW ord \in 0..(N - 1)
      PROVE  Len(c[n + 1][ord + 1]) = Len(c[n][ord + 1]) + Len(c[n + 1][ord])
  <2> DEFINE v == c[n]
             p == Parts(v, ord + 1)
             r == Parts(v, ord)
             L(o) == Len(v[o])
  <2>1. ord \in 0..N /\ ord + 1 \in 0..N /\ ord \in Nat
    BY OrderType
  <2>2. /\ v \in [0..N -> Seq(Nat)] /\ c[n + 1][ord + 1] = FlattenSeq(p)
        /\ c[n + 1][ord] = FlattenSeq(r)
    BY <1>1, <2>1
  <2> HIDE DEF v
  <2>3. /\ (ord + 1) + 1 \in Nat \ {0} /\ p \in [1..((ord + 1) + 1) -> Seq(Nat)]
        /\ \A k \in 1..((ord + 1) + 1) : Len(p[k]) = L((ord + 1) - (k - 1))
    BY <2>1, <2>2, PartsType
  <2>4. /\ ord + 1 \in Nat \ {0} /\ r \in [1..(ord + 1) -> Seq(Nat)]
        /\ \A k \in 1..(ord + 1) : Len(r[k]) = L(ord - (k - 1))
    BY <2>1, <2>2, PartsType
  <2>5. \A o \in 0..N : L(o) \in Nat
    BY <2>2
  <2> HIDE DEF p, r, L
  <2>6. PICK f : IsFlat(f, p, (ord + 1) + 1) /\ FlattenSeq(p) = f[(ord + 1) + 1]
    BY <2>3, FlattenRules
  <2>7. PICK g : IsFlat(g, r, ord + 1) /\ FlattenSeq(r) = g[ord + 1]
    BY <2>4, FlattenRules
  <2>8. ASSUME NEW k \in 1..(ord + 1)
        PROVE  /\ Len(f[k + 1]) = Len(f[k]) + L((ord + 1) - k)
               /\ Len(f[k]) \in Nat /\ (ord + 1) - k \in 0..N
    <3>1. k \in 1..(((ord + 1) + 1) - 1) /\ k \in 1..((ord + 1) + 1) /\ k + 1 \in 1..((ord + 1) + 1)
          /\ (k + 1) - 1 = k /\ (ord + 1) - k \in 0..N
      BY <2>1, OrderType
    <3>2. f[k + 1] = f[k] \o p[k + 1] /\ f[k] \in Seq(Nat) /\ p[k + 1] \in Seq(Nat)
      BY <2>3, <2>6, <3>1 DEF IsFlat
    <3>3. Len(f[k + 1]) = Len(f[k]) + Len(p[k + 1]) /\ Len(f[k]) \in Nat
      BY <3>2
    <3>4. Len(p[k + 1]) = L((ord + 1) - ((k + 1) - 1))
      BY <2>3, <3>1
    <3> QED  BY <3>1, <3>3, <3>4
  <2>9. ASSUME NEW k \in 1..ord
        PROVE  /\ Len(g[k + 1]) = Len(g[k]) + L(ord - k)
               /\ Len(g[k]) \in Nat /\ ord - k \in 0..N
    <3>1. k \in 1..((ord + 1) - 1) /\ k \in 1..(ord + 1) /\ k + 1 \in 1..(ord + 1)
          /\ (k + 1) - 1 = k /\ ord - k \in 0..N
      BY <2>1, OrderType
    <3>2. g[k + 1] = g[k] \o r[k + 1] /\ g[k] \in Seq(Nat) /\ r[k + 1] \in Seq(Nat)
      BY <2>4, <2>7, <3>1 DEF IsFlat
    <3>3. Len(g[k + 1]) = Len(g[k]) + Len(r[k + 1]) /\ Len(g[k]) \in Nat
      BY <3>2
    <3>4. Len(r[k + 1]) = L(ord - ((k + 1) - 1))
      BY <2>4, <3>1
    <3> QED  BY <3>1, <3>3, <3>4
  <2>10. Len(f[1]) = L(ord + 1) /\ Len(g[1]) = L(ord)
    <3>1. f[1] = p[1] /\ g[1] = r[1] /\ 1 \in 1..((ord + 1) + 1) /\ 1 \in 1..(ord + 1)
          /\ (ord + 1) - (1 - 1) = ord + 1 /\ ord - (1 - 1) = ord
      BY <2>1, <2>6, <2>7 DEF IsFlat
    <3>2. Len(p[1]) = L((ord + 1) - (1 - 1)) /\ Len(r[1]) = L(ord - (1 - 1))
      BY <2>3, <2>4, <3>1
    <3> QED  BY <3>1, <3>2
  <2> DEFINE A == {k \in Nat : k + 1 <= ord + 1 => Len(f[(k + 1) + 1]) = L(ord + 1) + Len(g[k + 1])}
  <2>11. 0 \in A
    <3>1. 1 \in 1..(ord + 1) /\ (ord + 1) - 1 = ord
      BY <2>1
    <3>2. Len(f[1 + 1]) = Len(f[1]) + L((ord + 1) - 1)
      BY <2>8, <3>1
    <3> QED  BY <2>10, <3>1, <3>2
  <2>12. ASSUME NEW k \in Nat, k \in A PROVE k + 1 \in A
    <3> SUFFICES ASSUME (k + 1) + 1 <= ord + 1
                 PROVE  Len(f[((k + 1) + 1) + 1]) = L(ord + 1) + Len(g[(k + 1) + 1])
      OBVIOUS
    <3>1. (k + 1) + 1 \in 1..(ord + 1) /\ k + 1 \in 1..ord /\ k + 1 <= ord + 1
          /\ (ord + 1) - ((k + 1) + 1) = ord - (k + 1)
      BY <2>1
    <3>2. Len(f[((k + 1) + 1) + 1]) = Len(f[(k + 1) + 1]) + L((ord + 1) - ((k + 1) + 1))
      BY <2>8, <3>1
    <3>3. Len(g[(k + 1) + 1]) = Len(g[k + 1]) + L(ord - (k + 1)) /\ Len(g[k + 1]) \in Nat
          /\ ord - (k + 1) \in 0..N
      BY <2>9, <3>1
    <3>4. Len(f[(k + 1) + 1]) = L(ord + 1) + Len(g[k + 1])
      BY <2>12, <3>1
    <3>5. L(ord - (k + 1)) \in Nat /\ L(ord + 1) \in Nat
      BY <2>1, <2>5, <3>3
    <3> QED  BY <3>1, <3>2, <3>3, <3>4, <3>5
  <2>13. Nat \subseteq A
    <3> HIDE DEF A
    <3> QED  BY <2>11, <2>12, NumberInduction
  <2>14. Len(f[(ord + 1) + 1]) = L(ord + 1) + Len(g[ord + 1])
    BY <2>1, <2>13
  <2> QED  BY <2>2, <2>6, <2>7, <2>14 DEF L, v
<1> QED  BY <1>1, <1>2, <1>4, <1>5

-----------------------------------------------------------------------------
(* The counts of number_parsPOLYNOM.                                        *)

IsCount(q) ==
  \A ord \in Nat :
    q[ord] = IF ord <= 1 THEN [start \in 1..DIM |-> DIM - start + 1]
             ELSE [start \in 1..DIM |-> SumFunctionOnSet(q[ord - 1], start..DIM)]

LEMMA CountExists ==
  \E q : IsCount(q) /\ number_parsPOLYNOM = [ord \in 1..N |-> q[ord][1]]
<1> DEFINE V == [1..DIM -> Nat]
           base == [start \in 1..DIM |-> DIM - start + 1]
           Sums(v) == [start \in 1..DIM |-> SumFunctionOnSet(v, start..DIM)]
           next == [p \in Nat \X V |-> IF p[1] + 1 <= 1 THEN base ELSE Sums(p[2])]
           Rule(c) == c = [ord \in Nat |-> IF ord <= 1 THEN base ELSE Sums(c[ord - 1])]
           q == CHOOSE c : Rule(c)
<1>1. base \in V
  <2>1. \A start \in 1..DIM : DIM - start + 1 \in Nat
    BY OrderType
  <2> QED  BY <2>1
<1>2. ASSUME NEW v \in V PROVE Sums(v) \in V
  <2>1. \A start \in 1..DIM : SumFunctionOnSet(v, start..DIM) \in Nat
    <3> TAKE start \in 1..DIM
    <3>0. start \in Int /\ DIM \in Int /\ \A k \in start..DIM : k \in 1..DIM
      BY OrderType
    <3>1. IsFiniteSet(start..DIM) /\ \A k \in start..DIM : v[k] \in Nat
      BY <3>0, FS_Interval
    <3> QED  BY <3>1, SumIsNat
  <2> QED  BY <2>1
<1>3. next \in Steps(V)
  <2> HIDE DEF V, base, Sums
  <2> QED  BY <1>1, <1>2 DEF Steps
<1>4. PICK f : f \in Recursions(V, base, next)
  <2> HIDE DEF V, base, next
  <2> QED  BY ONLY <1>1, <1>3, RecursionsExist
<1>5. /\ f \in [Nat -> V] /\ f[0] = base
      /\ \A n \in Nat : f[n + 1] = IF n + 1 <= 1 THEN base ELSE Sums(f[n])
  <2>1. f \in [Nat -> V] /\ f[0] = base /\ \A n \in Nat : f[n + 1] = next[<<n, f[n]>>]
    BY <1>4 DEF Recursions
  <2> HIDE DEF V, base, Sums
  <2> QED  BY <2>1
<1> HIDE DEF V, base, Sums, next
<1>6. Rule(f)
  <2>1. \A ord \in Nat : ord # 0 => f[ord] = IF ord <= 1 THEN base ELSE Sums(f[ord - 1])
    <3> TAKE ord \in Nat
    <3> HAVE ord # 0
    <3>1. ord - 1 \in Nat /\ (ord - 1) + 1 = ord
      OBVIOUS
    <3>2. f[(ord - 1) + 1] = IF (ord - 1) + 1 <= 1 THEN base ELSE Sums(f[ord - 1])
      BY <1>5, <3>1
    <3> QED  BY <3>1, <3>2
  <2> QED  BY <1>5, <2>1
<1>7. Rule(q)
  <2> HIDE DEF Rule
  <2> QED  BY <1>6
<1>8. number_parsPOLYNOM = [ord \in 1..N |-> q[ord][1]]
  BY DEF number_parsPOLYNOM, Sums, base
<1> HIDE DEF q
<1>9. \A ord \in Nat : q[ord] = IF ord <= 1 THEN base ELSE Sums(q[ord - 1])
  BY <1>7
<1>10. IsCount(q)
  BY <1>9 DEF IsCount, base, Sums
<1> QED  BY <1>8, <1>10

(* As many products of order ord exactly, of start values and those after, *)
(* as products of order ord at most of one value less.                      *)
LEMMA CountIsLength ==
  ASSUME NEW c, IsCode(c), NEW q, IsCount(q)
  PROVE  \A ord \in Nat : ord + 1 <= N =>
           /\ DOMAIN q[ord + 1] = 1..DIM
           /\ \A n \in 0..(DIM - 1) : q[ord + 1][DIM - n] = Len(c[n][ord + 1])
<1> DEFINE L(n, ord) == Len(c[n][ord])
           A == {ord \in Nat : ord + 1 <= N =>
                   /\ DOMAIN q[ord + 1] = 1..DIM
                   /\ \A n \in 0..(DIM - 1) : q[ord + 1][DIM - n] = L(n, ord + 1)}
<1>1. /\ \A n \in Nat : \A ord \in 0..N : L(n, ord) \in Nat
      /\ \A ord \in 0..N : L(0, ord) = 1
      /\ \A n \in Nat : L(n, 0) = 1
      /\ \A n \in Nat : \A ord \in 0..(N - 1) : L(n + 1, ord + 1) = L(n, ord + 1) + L(n + 1, ord)
  BY CodeLengths
<1> HIDE DEF L
<1>2. \A ord \in 0..(N - 1) : ord \in 0..N /\ ord + 1 \in 0..N
  BY OrderType
<1>3. 0 \in A
  <2>0. 1 \in Nat /\ 1 <= 1
    OBVIOUS
  <2>1. q[1] = [start \in 1..DIM |-> DIM - start + 1]
    BY <2>0 DEF IsCount
  <2> DEFINE B == {n \in Nat : L(n, 1) = n + 1}
  <2>2. 0 \in B
    BY <1>1, OrderType
  <2>3. ASSUME NEW n \in Nat, n \in B PROVE n + 1 \in B
    <3>1. 0 \in 0..(N - 1) /\ 0 + 1 = 1
      BY OrderType
    <3>2. L(n + 1, 0 + 1) = L(n, 0 + 1) + L(n + 1, 0) /\ L(n + 1, 0) = 1
      BY <1>1, <3>1
    <3> QED  BY <2>3, <3>1, <3>2
  <2>4. Nat \subseteq B
    <3> HIDE DEF B
    <3> QED  BY <2>2, <2>3, NumberInduction
  <2>5. ASSUME NEW n \in 0..(DIM - 1) PROVE q[1][DIM - n] = L(n, 1)
    <3>1. DIM - n \in 1..DIM /\ DIM - (DIM - n) + 1 = n + 1 /\ n \in Nat
      BY OrderType
    <3>2. L(n, 1) = n + 1
      BY <2>4, <3>1
    <3> QED  BY <2>1, <3>1, <3>2
  <2>6. 0 + 1 = 1 /\ DOMAIN q[1] = 1..DIM
    BY <2>1
  <2> QED  BY <2>5, <2>6
<1>4. ASSUME NEW ord \in Nat, ord \in A PROVE ord + 1 \in A
  <2> SUFFICES ASSUME (ord + 1) + 1 <= N
               PROVE  /\ DOMAIN q[(ord + 1) + 1] = 1..DIM
                      /\ \A n \in 0..(DIM - 1) : q[(ord + 1) + 1][DIM - n] = L(n, (ord + 1) + 1)
    OBVIOUS
  <2> DEFINE o == ord + 1
             v == q[o]
  <2>1. o \in Nat /\ o + 1 <= N /\ o \in 0..(N - 1) /\ o \in 0..N /\ o + 1 \in 0..N /\ o + 1 > 1
        /\ (o + 1) - 1 = o /\ o <= N
    BY OrderType
  <2>2. \A n \in 0..(DIM - 1) : v[DIM - n] = L(n, o)
    BY <1>4, <2>1
  <2>3. q[o + 1] = [start \in 1..DIM |-> SumFunctionOnSet(v, start..DIM)]
    <3>1. q[o + 1] = [start \in 1..DIM |-> SumFunctionOnSet(q[(o + 1) - 1], start..DIM)]
      <4> HIDE DEF o
      <4>1. o + 1 \in Nat /\ ~(o + 1 <= 1)
        BY <2>1
      <4>2. q[o + 1] = IF o + 1 <= 1 THEN [start \in 1..DIM |-> DIM - start + 1]
                       ELSE [start \in 1..DIM |-> SumFunctionOnSet(q[(o + 1) - 1], start..DIM)]
        BY <4>1 DEF IsCount
      <4> QED  BY <4>1, <4>2
    <3> QED  BY <2>1, <3>1
  <2> HIDE DEF o, v
  <2>4. \A k \in 1..DIM : v[k] = L(DIM - k, o) /\ v[k] \in Int /\ DIM - k \in Nat
    <3> TAKE k \in 1..DIM
    <3>1. DIM - k \in 0..(DIM - 1) /\ DIM - (DIM - k) = k /\ DIM - k \in Nat
      BY OrderType
    <3>2. v[DIM - (DIM - k)] = L(DIM - k, o)
      BY <2>2, <3>1
    <3>3. L(DIM - k, o) \in Nat
      BY <1>1, <2>1, <3>1
    <3> QED  BY <3>1, <3>2, <3>3
  <2> DEFINE sum(start) == SumFunctionOnSet(v, start..DIM)
             B == {n \in Nat : n <= DIM - 1 => sum(DIM - n) = L(n, o + 1)}
  <2>5. 0 \in B
    <3>0. DIM - 0 = DIM /\ DIM..DIM = {DIM} /\ DIM \in 1..DIM /\ DIM - DIM = 0
      BY OrderType
    <3>1. (DIM - 0)..DIM = {DIM} /\ DIM \in 1..DIM /\ IsFiniteSet({DIM}) /\ DIM - DIM = 0
      BY <3>0, FS_Singleton
    <3>2. {DIM} \ {DIM} = {}
      OBVIOUS
    <3>3. sum(DIM - 0) = v[DIM] + SumFunctionOnSet(v, {DIM} \ {DIM})
      BY <2>4, <3>1, SumTakesAny
    <3>4. v[DIM] = L(0, o) /\ L(0, o) = 1 /\ L(0, o + 1) = 1
      BY <1>1, <2>1, <2>4, <3>1
    <3> QED  BY <3>2, <3>3, <3>4, SumOfNone, SMTT(60)
  <2>6. ASSUME NEW n \in Nat, n \in B PROVE n + 1 \in B
    <3> SUFFICES ASSUME n + 1 <= DIM - 1 PROVE sum(DIM - (n + 1)) = L(n + 1, o + 1)
      OBVIOUS
    <3> DEFINE k == DIM - (n + 1)
               S == (k + 1)..DIM
    <3>1. /\ k \in 1..DIM /\ k + 1 = DIM - n /\ k..DIM = S \cup {k} /\ k \notin S
          /\ DIM - k = n + 1 /\ S \cup {k} \subseteq 1..DIM
      BY OrderType
    <3>2. IsFiniteSet(S)
      BY OrderType, FS_Interval
    <3>3. \A x \in S \cup {k} : v[x] \in Int
      BY <2>4, <3>1
    <3>4. sum(DIM - n) = L(n, o + 1)
      BY <2>6, OrderType
    <3>5. S = (DIM - n)..DIM
      BY <3>1
    <3> HIDE DEF S
    <3>6. SumFunctionOnSet(v, S \cup {k}) = SumFunctionOnSet(v, S) + v[k]
      BY <3>1, <3>2, <3>3, SumOfOneMore, ZenonT(60)
    <3>7. v[k] = L(n + 1, o)
      BY <2>4, <3>1
    <3>8. L(n + 1, o + 1) = L(n, o + 1) + L(n + 1, o)
      BY <1>1, <2>1
    <3> QED  BY <3>1, <3>4, <3>5, <3>6, <3>7, <3>8
  <2>7. Nat \subseteq B
    <3> HIDE DEF B
    <3> QED  BY <2>5, <2>6, NumberInduction
  <2>8. ASSUME NEW n \in 0..(DIM - 1) PROVE q[o + 1][DIM - n] = L(n, o + 1)
    <3>1. DIM - n \in 1..DIM /\ n \in Nat /\ n <= DIM - 1
      BY OrderType
    <3>2. sum(DIM - n) = L(n, o + 1)
      BY <2>7, <3>1
    <3> QED  BY <2>3, <3>1, <3>2
  <2>9. DOMAIN q[o + 1] = 1..DIM
    BY <2>3
  <2> QED  BY <2>8, <2>9 DEF o
<1>5. Nat \subseteq A
  <2> HIDE DEF A
  <2> QED  BY <1>3, <1>4, NumberInduction
<1> QED  BY <1>5 DEF L

LEMMA ParsIsLength ==
  ASSUME NEW c, IsCode(c)
  PROVE  pars = Len(c[DIM][N])
<1>1. PICK q : IsCount(q) /\ number_parsPOLYNOM = [ord \in 1..N |-> q[ord][1]]
  BY CountExists
<1> DEFINE L(n, ord) == Len(c[n][ord])
           w == number_parsPOLYNOM
           A == {k \in Nat : k <= N => 1 + SumFunctionOnSet(w, 1..k) = L(DIM, k)}
<1>2. /\ \A n \in Nat : \A ord \in 0..N : L(n, ord) \in Nat
      /\ \A n \in Nat : L(n, 0) = 1
      /\ \A n \in Nat : \A ord \in 0..(N - 1) : L(n + 1, ord + 1) = L(n, ord + 1) + L(n + 1, ord)
  BY CodeLengths
<1>3. \A ord \in 1..N : w[ord] = L(DIM - 1, ord) /\ w[ord] \in Int
  <2> TAKE ord \in 1..N
  <2>1. ord - 1 \in Nat /\ (ord - 1) + 1 = ord /\ ord <= N /\ DIM - 1 \in 0..(DIM - 1)
        /\ DIM - (DIM - 1) = 1 /\ DIM - 1 \in Nat /\ ord \in 0..N
    BY OrderType
  <2>2. q[(ord - 1) + 1][DIM - (DIM - 1)] = Len(c[DIM - 1][(ord - 1) + 1])
    BY <1>1, <2>1, CountIsLength
  <2>3. w[ord] = q[ord][1]
    BY <1>1
  <2>4. q[ord][1] = L(DIM - 1, ord)
    BY <2>1, <2>2
  <2>5. L(DIM - 1, ord) \in Nat
    BY <1>2, <2>1
  <2> HIDE DEF L, w
  <2> QED  BY <2>3, <2>4, <2>5
<1> HIDE DEF L
<1>4. DOMAIN w = 1..N
  BY <1>1
<1> HIDE DEF w
<1>5. 0 \in A
  <2>1. 1..0 = {} /\ DIM \in Nat
    BY OrderType
  <2> QED  BY <1>2, <2>1, SumOfNone
<1>6. ASSUME NEW k \in Nat, k \in A PROVE k + 1 \in A
  <2> SUFFICES ASSUME k + 1 <= N PROVE 1 + SumFunctionOnSet(w, 1..(k + 1)) = L(DIM, k + 1)
    OBVIOUS
  <2>1. 1..(k + 1) = (1..k) \cup {k + 1} /\ k + 1 \notin 1..k /\ (1..k) \cup {k + 1} \subseteq 1..N
        /\ k + 1 \in 1..N /\ k \in 0..(N - 1) /\ k <= N /\ DIM - 1 \in Nat /\ (DIM - 1) + 1 = DIM
        /\ k \in 0..N /\ k + 1 \in 0..N
    BY OrderType
  <2> DEFINE S == 1..k
             top == k + 1
  <2>2. IsFiniteSet(S)
    BY FS_Interval
  <2>3. \A x \in S \cup {top} : w[x] \in Int
    BY <1>3, <2>1
  <2>4. top \notin S /\ 1..(k + 1) = S \cup {top} /\ k + 1 = top
    BY <2>1
  <2>5. 1 + SumFunctionOnSet(w, S) = L(DIM, k)
    BY <1>6, <2>1
  <2> HIDE DEF S, top
  <2>6. SumFunctionOnSet(w, S \cup {top}) = SumFunctionOnSet(w, S) + w[top]
    BY <2>2, <2>3, <2>4, SumOfOneMore
  <2>7. SumFunctionOnSet(w, S) \in Int /\ w[k + 1] \in Int
    BY <2>2, <2>3, <2>4, SumIsInt
  <2>8. L((DIM - 1) + 1, k + 1) = L(DIM - 1, k + 1) + L((DIM - 1) + 1, k)
    BY <1>2, <2>1
  <2>9. w[k + 1] = L(DIM - 1, k + 1)
    BY <1>3, <2>1
  <2>10. SumFunctionOnSet(w, 1..(k + 1)) = SumFunctionOnSet(w, S) + w[k + 1]
    BY <2>4, <2>6
  <2>11. L(DIM, k + 1) = w[k + 1] + L(DIM, k)
    BY <2>1, <2>8, <2>9
  <2> QED  BY <2>5, <2>7, <2>10, <2>11
<1>7. Nat \subseteq A
  <2> HIDE DEF A
  <2> QED  BY <1>5, <1>6, NumberInduction
<1>8. 1 + SumFunctionOnSet(w, 1..N) = L(DIM, N)
  BY <1>7, OrderType
<1> QED  BY <1>4, <1>8 DEF pars, SumFunction, w, L

-----------------------------------------------------------------------------
(* All products of order at most N have a code, and one.                    *)

LEMMA CodesListed ==
  /\ make_codingPOLYNOM \in Seq(Nat) /\ Len(make_codingPOLYNOM) = pars
  /\ pars \in Nat \ {0}
  /\ \A k \in 1..pars : decodePOLYNOM(make_codingPOLYNOM[k]) \in Monomials
  /\ \A k, l \in 1..pars :
       decodePOLYNOM(make_codingPOLYNOM[k]) = decodePOLYNOM(make_codingPOLYNOM[l]) => k = l
  /\ \A m \in Monomials : \E k \in 1..pars : decodePOLYNOM(make_codingPOLYNOM[k]) = m
<1> DEFINE s == make_codingPOLYNOM
<1>1. PICK c : IsCode(c) /\ s = c[DIM][N]
  BY CodeExists
<1>2. DIM \in Nat /\ N \in 0..N /\ 0 \in 0..N
  BY OrderType
<1>3. Lists(s, DIM, Exponents(DIM, N)) /\ Len(s) = pars
  BY <1>1, <1>2, CodeLists, ParsIsLength
<1> HIDE DEF s
<1>4. s \in Seq(Nat) /\ \A k \in 1..pars : s[k] \in Nat
  BY <1>3 DEF Lists
<1>5. \A k \in 1..pars : decodePOLYNOM(s[k]) = DigitsOf(s[k], DIM)
  BY <1>4, DecodedDigits DEF DigitsOf
<1>6. Exponents(DIM, N) = Monomials
  BY DEF Exponents, Monomials
<1>7. pars \in Nat \ {0}
  <2>1. pars \in Nat
    BY <1>3, <1>4
  <2>2. [d \in 0..(DIM - 1) |-> 0] \in Monomials
    <3> DEFINE e == [d \in 0..(DIM - 1) |-> 0]
    <3> DEFINE D == 0..(DIM - 1)
               none == 0
    <3>0. 0 \in Int /\ DIM - 1 \in Int
      BY <1>2
    <3>1. IsFiniteSet(D) /\ DOMAIN e = D /\ (\A d \in D : e[d] = none) /\ none \in Int
      BY <3>0, FS_Interval
    <3>2. e \in [0..(DIM - 1) -> 0..N]
      BY <1>2
    <3> HIDE DEF e, D, none
    <3>3. SumFunctionOnSet(e, D) = none * Cardinality(D)
      BY <3>1, SumOfSame
    <3>4. none * Cardinality(D) = 0
      BY <3>1, FS_CardinalityType DEF none
    <3>5. SumFunction(e) = 0
      BY <3>1, <3>3, <3>4 DEF SumFunction
    <3>6. e \in Monomials
      BY <3>2, <3>5, OrderType DEF Monomials
    <3> QED  BY <3>6 DEF e
  <2>3. pars # 0
    BY <1>3, <1>6, <2>2 DEF Lists
  <2> QED  BY <2>1, <2>3
<1>8. /\ \A k \in 1..pars : decodePOLYNOM(s[k]) \in Monomials
      /\ \A k, l \in 1..pars : decodePOLYNOM(s[k]) = decodePOLYNOM(s[l]) => k = l
      /\ \A m \in Monomials : \E k \in 1..pars : decodePOLYNOM(s[k]) = m
  BY <1>3, <1>5, <1>6 DEF Lists
<1> QED  BY <1>3, <1>4, <1>7, <1>8 DEF s

LEMMA MonomialsCounted ==
  /\ IsFiniteSet(Monomials) /\ Cardinality(Monomials) = pars
  /\ {decodePOLYNOM(make_codingPOLYNOM[k]) : k \in DOMAIN make_codingPOLYNOM} = Monomials
<1> DEFINE h == [k \in 1..pars |-> decodePOLYNOM(make_codingPOLYNOM[k])]
<1>1. /\ h \in [1..pars -> Monomials]
      /\ \A k, l \in 1..pars : h[k] = h[l] => k = l
      /\ \A m \in Monomials : \E k \in 1..pars : h[k] = m
  BY CodesListed
<1>2. DOMAIN make_codingPOLYNOM = 1..pars
  BY CodesListed
<1>3. {decodePOLYNOM(make_codingPOLYNOM[k]) : k \in DOMAIN make_codingPOLYNOM} = Monomials
  BY <1>2, CodesListed
<1> HIDE DEF h
<1>4. h \in Bijection(1..pars, Monomials)
  <2>1. DOMAIN h = 1..pars
    BY <1>1
  <2> QED  BY <1>1, <2>1 DEF Bijection, Injection, Surjection, IsInjective
<1>5. IsFiniteSet(1..pars) /\ Cardinality(1..pars) = pars
  <2>1. pars \in Nat \ {0}
    BY CodesListed
  <2>2. IsFiniteSet(1..pars) /\ Cardinality(1..pars) = IF 1 > pars THEN 0 ELSE pars - 1 + 1
    BY <2>1, FS_Interval
  <2> QED  BY <2>1, <2>2
<1>6. ExistsBijection(1..pars, Monomials)
  BY <1>4 DEF ExistsBijection
<1> QED  BY <1>3, <1>5, <1>6, FS_Bijection

-----------------------------------------------------------------------------
(* Combinations of terms, and equations for their coefficients.             *)

Combined(T, c, u) == SumFunctionOnSet([k \in T |-> c[k] * u[k]], T)

Solves(T, m, v, c) == \A t \in T : Same(Combined(T, c, m[t]), v[t])

(* What is left of next by the coefficients c has no part of a term. *)
LeftOver(T, next, terms, c, act) == next[act] - Combined(T, c, terms[act])

LeftTimes(T, next, terms, c, act, k) == LeftOver(T, next, terms, c, act) * terms[act][k]

IsNormal(T, R, next, terms, c) ==
  \A k \in T : Same(SumFunctionOnSet([act \in R |-> LeftTimes(T, next, terms, c, act, k)], R), 0)

LEMMA TimesType == ASSUME NEW a \in Int, NEW b \in Int PROVE a * b \in Int
OBVIOUS

LEMMA CombinedType ==
  ASSUME NEW T, IsFiniteSet(T), NEW c, NEW u, \A k \in T : c[k] \in Int /\ u[k] \in Int
  PROVE  Combined(T, c, u) \in Int
<1> DEFINE f == [k \in T |-> c[k] * u[k]]
<1>1. \A k \in T : f[k] \in Int
  BY TimesType
<1>2. Combined(T, c, u) = SumFunctionOnSet(f, T)
  BY DEF Combined
<1> HIDE DEF f
<1> QED  BY <1>1, <1>2, SumIsInt

LEMMA SameTimesSame ==
  ASSUME NEW a \in Int, NEW b \in Int, NEW c \in Int, Same(a, b)
  PROVE  Same(c * a, c * b)
BY SameItself, SameTimes

LEMMA CombinedSame ==
  ASSUME NEW T, IsFiniteSet(T), NEW c, NEW d, NEW u, NEW w,
         \A k \in T : c[k] \in Int /\ u[k] \in Int /\ d[k] \in Int /\ w[k] \in Int,
         \A k \in T : Same(c[k] * u[k], d[k] * w[k])
  PROVE  Same(Combined(T, c, u), Combined(T, d, w))
<1> DEFINE f == [k \in T |-> c[k] * u[k]]
           g == [k \in T |-> d[k] * w[k]]
<1>1. \A k \in T : f[k] \in Int /\ g[k] \in Int /\ Same(f[k], g[k])
  BY TimesType
<1>2. Combined(T, c, u) = SumFunctionOnSet(f, T) /\ Combined(T, d, w) = SumFunctionOnSet(g, T)
  BY DEF Combined
<1> HIDE DEF f, g
<1> QED  BY <1>1, <1>2, SameSums

(* A combination of sums of terms. *)
LEMMA CombinedSum ==
  ASSUME NEW T, IsFiniteSet(T), NEW c, NEW u, NEW z, NEW w, NEW q \in Int,
         \A k \in T : c[k] \in Int /\ u[k] \in Int /\ z[k] \in Int /\ w[k] \in Int,
         \A k \in T : Same(w[k], u[k] + q * z[k])
  PROVE  Same(Combined(T, c, w), Combined(T, c, u) + q * Combined(T, c, z))
<1> DEFINE f == [k \in T |-> c[k] * w[k]]
           g == [k \in T |-> c[k] * u[k]]
           h == [k \in T |-> c[k] * z[k]]
           e == [k \in T |-> q * h[k]]
           s == [k \in T |-> g[k] + e[k]]
<1>1. \A k \in T : /\ f[k] \in Int /\ g[k] \in Int /\ h[k] \in Int /\ e[k] \in Int /\ s[k] \in Int
                   /\ e[k] = q * h[k] /\ s[k] = g[k] + e[k]
                   /\ Same(f[k], s[k])
  <2> TAKE k \in T
  <2> DEFINE ck == c[k]
             uk == u[k]
             zk == z[k]
             wk == w[k]
             hk == ck * zk
             ek == q * hk
             gk == ck * uk
  <2>1. ck \in Int /\ uk \in Int /\ zk \in Int /\ wk \in Int /\ Same(wk, uk + q * zk)
    OBVIOUS
  <2>2. f[k] = ck * wk /\ g[k] = gk /\ h[k] = hk /\ e[k] = ek /\ s[k] = gk + ek
    OBVIOUS
  <2> HIDE DEF ck, uk, zk, wk, f, g, h, e, s
  <2>3. hk \in Int /\ gk \in Int /\ ek \in Int /\ ck * wk \in Int /\ q * zk \in Int
    BY <2>1, TimesType
  <2>4. Same(ck * wk, ck * (uk + q * zk))
    <3> DEFINE y == uk + q * zk
    <3>1. y \in Int
      BY <2>1, <2>3
    <3>2. Same(wk, y)
      BY <2>1
    <3> HIDE DEF y
    <3>3. Same(ck * wk, ck * y)
      BY <2>1, <3>1, <3>2, SameTimesSame
    <3> QED  BY <3>3 DEF y
  <2>5. ck * (uk + q * zk) = gk + ek
    BY <2>1
  <2> QED  BY <2>2, <2>3, <2>4, <2>5
<1>2. /\ Combined(T, c, w) = SumFunctionOnSet(f, T) /\ Combined(T, c, u) = SumFunctionOnSet(g, T)
      /\ Combined(T, c, z) = SumFunctionOnSet(h, T)
  BY DEF Combined
<1> HIDE DEF f, g, h, e, s
<1>3. Same(SumFunctionOnSet(f, T), SumFunctionOnSet(s, T))
  BY <1>1, SameSums
<1>4. SumFunctionOnSet(s, T) = SumFunctionOnSet(g, T) + SumFunctionOnSet(e, T)
  BY <1>1, SumOfSums
<1>5. SumFunctionOnSet(e, T) = q * SumFunctionOnSet(h, T)
  BY <1>1, SumOfMultiples
<1> QED  BY <1>2, <1>3, <1>4, <1>5

-----------------------------------------------------------------------------
(* The equations that make_fit makes have the solutions that leave no part. *)

(* The products of two functions of the rows, and their sum. *)
ValuesTimes(R, f, g) == SumFunctionOnSet([act \in R |-> f[act] * g[act]], R)

LEMMA ValuesTimesType ==
  ASSUME NEW R, IsFiniteSet(R), NEW f, NEW g, \A act \in R : f[act] \in Int /\ g[act] \in Int
  PROVE  ValuesTimes(R, f, g) \in Int
<1> DEFINE h == [act \in R |-> f[act] * g[act]]
<1>1. \A act \in R : h[act] \in Int
  BY TimesType
<1>2. ValuesTimes(R, f, g) = SumFunctionOnSet(h, R)
  BY DEF ValuesTimes
<1> HIDE DEF h
<1> QED  BY <1>1, <1>2, SumIsInt

LeftWith(T, R, next, terms, c, b) == [act \in R |-> LeftOver(T, next, terms, c, act) * b[act]]

TermsWith(T, R, terms, b) == [k \in T |-> ValuesTimes(R, [act \in R |-> terms[act][k]], b)]

(* What is left, times a term, summed over the rows. *)
LEMMA LeftSummed ==
  ASSUME NEW T, IsFiniteSet(T), NEW R, IsFiniteSet(R), NEW next, NEW terms, NEW c,
         \A act \in R : next[act] \in Int /\ \A k \in T : terms[act][k] \in Int,
         \A k \in T : c[k] \in Int, NEW b, \A act \in R : b[act] \in Int
  PROVE  SumFunctionOnSet(LeftWith(T, R, next, terms, c, b), R) =
           ValuesTimes(R, next, b) - Combined(T, c, TermsWith(T, R, terms, b))
<1> DEFINE f == [act \in R |-> LeftOver(T, next, terms, c, act) * b[act]]
           nb == [act \in R |-> next[act] * b[act]]
           cb == [act \in R |-> Combined(T, c, terms[act]) * b[act]]
           x == [act \in R |-> [k \in T |-> (c[k] * terms[act][k]) * b[act]]]
           column1(k) == [act \in R |-> x[act][k]]
           ckb(k) == [act \in R |-> terms[act][k] * b[act]]
           G == [k \in T |-> ValuesTimes(R, [act \in R |-> terms[act][k]], b)]
<1>1. \A act \in R : Combined(T, c, terms[act]) \in Int
  BY CombinedType
<1>2. \A act \in R : nb[act] \in Int /\ cb[act] \in Int /\ f[act] \in Int /\ nb[act] = f[act] + cb[act]
  <2> TAKE act \in R
  <2> DEFINE n == next[act]
             k == Combined(T, c, terms[act])
             e == b[act]
  <2>1. n \in Int /\ k \in Int /\ e \in Int
    BY <1>1
  <2>2. nb[act] = n * e /\ cb[act] = k * e /\ f[act] = (n - k) * e
    BY DEF LeftOver
  <2> HIDE DEF n, k, e, nb, cb, f
  <2>3. n * e \in Int /\ k * e \in Int /\ (n - k) * e \in Int /\ n * e = (n - k) * e + k * e
    BY <2>1
  <2> QED  BY <2>2, <2>3
<1>3. SumFunctionOnSet(nb, R) = SumFunctionOnSet(f, R) + SumFunctionOnSet(cb, R)
  <2> HIDE DEF f, nb, cb
  <2> QED  BY <1>2, SumOfSums
<1>4. \A act \in R : cb[act] = SumFunctionOnSet(x[act], T)
  <2> TAKE act \in R
  <2> DEFINE u == [k \in T |-> c[k] * terms[act][k]]
             y == x[act]
             e == b[act]
  <2>1. \A k \in T : u[k] \in Int /\ y[k] = e * u[k]
    <3> TAKE k \in T
    <3> DEFINE a == c[k]
               d == terms[act][k]
    <3>1. a \in Int /\ d \in Int /\ e \in Int /\ u[k] = a * d /\ y[k] = (a * d) * e
      OBVIOUS
    <3> HIDE DEF a, d, e, u, y
    <3>2. a * d \in Int
      BY <3>1
    <3>3. (a * d) * e = e * (a * d)
      <4> DEFINE ad == a * d
      <4>1. ad \in Int
        BY <3>2
      <4> HIDE DEF ad
      <4>2. ad * e = e * ad
        BY <3>1, <4>1
      <4> QED  BY <4>2 DEF ad
    <3> QED  BY <3>1, <3>2, <3>3
  <2>2. e \in Int
    OBVIOUS
  <2>3. Combined(T, c, terms[act]) = SumFunctionOnSet(u, T)
    BY DEF Combined
  <2>4. cb[act] = Combined(T, c, terms[act]) * e
    OBVIOUS
  <2> HIDE DEF u, y, e, cb
  <2>5. SumFunctionOnSet(y, T) = e * SumFunctionOnSet(u, T)
    BY <2>1, <2>2, SumOfMultiples
  <2>6. SumFunctionOnSet(u, T) \in Int
    BY <2>1, SumIsInt
  <2>7. SumFunctionOnSet(u, T) * e = e * SumFunctionOnSet(u, T)
    BY <2>2, <2>6
  <2> QED  BY <2>3, <2>4, <2>5, <2>7 DEF y
<1>5. \A act \in R : \A k \in T : x[act][k] \in Int
  <2> TAKE act \in R
  <2> TAKE k \in T
  <2>1. c[k] * terms[act][k] \in Int
    BY TimesType
  <2>2. (c[k] * terms[act][k]) * b[act] \in Int
    BY <2>1, TimesType
  <2> QED  BY <2>2
<1>6. SumFunctionOnSet([act \in R |-> SumFunctionOnSet(x[act], T)], R) =
        SumFunctionOnSet([k \in T |-> SumFunctionOnSet([act \in R |-> x[act][k]], R)], T)
  <2> HIDE DEF x
  <2> QED  BY <1>5, SumExchanged
<1>7. cb = [act \in R |-> SumFunctionOnSet(x[act], T)]
  <2> HIDE DEF x
  <2>1. cb = [act \in R |-> cb[act]]
    OBVIOUS
  <2> HIDE DEF cb
  <2> QED  BY <1>4, <2>1
<1>8. \A k \in T : /\ SumFunctionOnSet([act \in R |-> x[act][k]], R) = c[k] * G[k]
                   /\ c[k] * G[k] \in Int
  <2> TAKE k \in T
  <2> DEFINE a == c[k]
             w == ckb(k)
             y == column1(k)
  <2>1. \A act \in R : w[act] \in Int /\ y[act] = a * w[act]
    <3> TAKE act \in R
    <3> DEFINE d == terms[act][k]
               e == b[act]
    <3>1. a \in Int /\ d \in Int /\ e \in Int /\ w[act] = d * e /\ y[act] = (a * d) * e
      OBVIOUS
    <3> HIDE DEF a, d, e, w, y
    <3>2. d * e \in Int /\ (a * d) * e = a * (d * e)
      BY <3>1
    <3> QED  BY <3>1, <3>2
  <2>2. a \in Int
    OBVIOUS
  <2>3. G[k] = SumFunctionOnSet(w, R)
    BY DEF ValuesTimes
  <2> HIDE DEF w, a, G, x
  <2>4. SumFunctionOnSet(y, R) = a * SumFunctionOnSet(w, R)
    <3> HIDE DEF y
    <3> QED  BY <2>1, <2>2, SumOfMultiples
  <2>5. SumFunctionOnSet(w, R) \in Int
    BY <2>1, SumIsInt
  <2>6. a * SumFunctionOnSet(w, R) \in Int
    BY <2>2, <2>5, TimesType
  <2> QED  BY <2>3, <2>4, <2>6 DEF a
<1>9. SumFunctionOnSet(cb, R) = Combined(T, c, G)
  <2> DEFINE l == [k \in T |-> SumFunctionOnSet([act \in R |-> x[act][k]], R)]
             r == [k \in T |-> c[k] * G[k]]
  <2>1. l = r
    <3> HIDE DEF x, G
    <3> QED  BY <1>8
  <2>2. Combined(T, c, G) = SumFunctionOnSet(r, T)
    <3> HIDE DEF G
    <3> QED  BY DEF Combined
  <2> HIDE DEF G, cb, x
  <2> QED  BY <1>6, <1>7, <2>1, <2>2
<1>10. SumFunctionOnSet(nb, R) = ValuesTimes(R, next, b)
  BY DEF ValuesTimes
<1>11. SumFunctionOnSet(f, R) \in Int /\ SumFunctionOnSet(cb, R) \in Int
  <2> HIDE DEF f, cb
  <2> QED  BY <1>2, SumIsInt
<1> HIDE DEF nb, cb, G, f
<1>12. SumFunctionOnSet(f, R) = ValuesTimes(R, next, b) - Combined(T, c, G)
  BY <1>3, <1>9, <1>10, <1>11
<1> QED  BY <1>12 DEF f, G, LeftWith, TermsWith

LEMMA FitMeans ==
  ASSUME NEW T, IsFiniteSet(T), NEW R, IsFiniteSet(R), NEW n \in NonZero, NEW next, NEW terms, NEW c,
         \A act \in R : next[act] \in Int /\ \A k \in T : terms[act][k] \in Int,
         \A k \in T : c[k] \in Int, NEW m, NEW v,
         \A t \in T : /\ v[t] = Over(Total([act \in R |-> next[act] * terms[act][t]]), n)
                      /\ \A k \in T : m[t][k] =
                           Over(Total([act \in R |-> terms[act][t] * terms[act][k]]), n)
  PROVE  /\ \A t \in T : v[t] \in Field /\ \A k \in T : m[t][k] \in Field
         /\ Solves(T, m, v, c) <=> IsNormal(T, R, next, terms, c)
<1> DEFINE col(k) == [act \in R |-> terms[act][k]]
           H(k) == ValuesTimes(R, next, col(k))
           G(t) == [k \in T |-> ValuesTimes(R, col(k), col(t))]
<1>1. n \in Int /\ n \in Field
  BY UnitType
<1>2. \A k \in T : \A act \in R : col(k)[act] \in Int
  OBVIOUS
<1>3. \A t \in T : H(t) \in Int /\ \A k \in T : G(t)[k] \in Int
  <2> TAKE t \in T
  <2> HIDE DEF col
  <2> QED  BY <1>2, ValuesTimesType
<1>4. \A f, g : (\A act \in R : f[act] \in Int /\ g[act] \in Int) =>
        /\ Over(Total([act \in R |-> f[act] * g[act]]), n) \in Field
        /\ Over(Total([act \in R |-> f[act] * g[act]]), n) \in Int
        /\ Same(Over(Total([act \in R |-> f[act] * g[act]]), n) * n, ValuesTimes(R, f, g))
  <2> TAKE f, g
  <2> HAVE \A act \in R : f[act] \in Int /\ g[act] \in Int
  <2> DEFINE h == [act \in R |-> f[act] * g[act]]
             o == Over(Total(h), n)
  <2>1. DOMAIN h = R /\ \A act \in R : h[act] \in Int
    BY TimesType
  <2>2. ValuesTimes(R, f, g) = SumFunctionOnSet(h, R)
    BY DEF ValuesTimes
  <2> HIDE DEF h
  <2>3. /\ Total(h) \in Int /\ SumFunctionOnSet(h, R) \in Int
        /\ Same(Total(h), SumFunctionOnSet(h, R))
    BY <2>1, TotalSame
  <2>4. o \in Field /\ o \in Int /\ Same(o * n, Total(h))
    BY <2>3, OverMeans
  <2>5. o * n \in Int
    BY <1>1, <2>4, TimesType
  <2>6. Same(o * n, SumFunctionOnSet(h, R))
    BY ONLY <2>3, <2>4, <2>5, SameThrough
  <2> QED  BY <2>2, <2>4, <2>6 DEF h
<1>5. \A t \in T : /\ v[t] \in Field /\ v[t] \in Int /\ Same(v[t] * n, H(t))
                   /\ \A k \in T : /\ m[t][k] \in Field /\ m[t][k] \in Int
                                   /\ Same(m[t][k] * n, G(t)[k])
  <2> TAKE t \in T
  <2>1. v[t] \in Field /\ v[t] \in Int /\ Same(v[t] * n, H(t))
    <3> DEFINE g == col(t)
    <3>1. \A act \in R : next[act] \in Int /\ g[act] \in Int
      BY <1>2
    <3>2. [act \in R |-> next[act] * terms[act][t]] = [act \in R |-> next[act] * g[act]]
      OBVIOUS
    <3> HIDE DEF g
    <3>3. v[t] = Over(Total([act \in R |-> next[act] * g[act]]), n)
      BY <3>2
    <3>4. H(t) = ValuesTimes(R, next, g)
      BY DEF g
    <3> QED  BY <1>4, <3>1, <3>3, <3>4
  <2>2. ASSUME NEW k \in T
        PROVE  m[t][k] \in Field /\ m[t][k] \in Int /\ Same(m[t][k] * n, G(t)[k])
    <3> DEFINE f == col(k)
               g == col(t)
    <3>1. \A act \in R : f[act] \in Int /\ g[act] \in Int
      BY <1>2
    <3>2. [act \in R |-> terms[act][t] * terms[act][k]] = [act \in R |-> f[act] * g[act]]
      <4>1. \A act \in R : terms[act][t] * terms[act][k] = f[act] * g[act]
        <5> TAKE act \in R
        <5> DEFINE a == terms[act][t]
                   d == terms[act][k]
        <5>1. a \in Int /\ d \in Int /\ f[act] = d /\ g[act] = a
          OBVIOUS
        <5> HIDE DEF a, d, f, g
        <5>2. a * d = d * a
          BY <5>1
        <5> QED  BY <5>1, <5>2 DEF a, d
      <4> HIDE DEF f, g
      <4> QED  BY <4>1
    <3> HIDE DEF f, g
    <3>3. m[t][k] = Over(Total([act \in R |-> f[act] * g[act]]), n)
      BY <3>2, ZenonT(60)
    <3>4. G(t)[k] = ValuesTimes(R, f, g)
      BY DEF f, g
    <3> HIDE DEF G
    <3> QED  BY <1>4, <3>1, <3>3, <3>4
  <2> QED  BY <2>1, <2>2
<1>6. ASSUME NEW t \in T
      PROVE  Same(Combined(T, c, m[t]), v[t]) <=>
               Same(SumFunctionOnSet([act \in R |-> LeftTimes(T, next, terms, c, act, t)], R), 0)
  <2> DEFINE left == SumFunctionOnSet([act \in R |-> LeftTimes(T, next, terms, c, act, t)], R)
             g == col(t)
             K == Combined(T, c, m[t])
             L == Combined(T, c, G(t))
             h == H(t)
  <2>1. left = h - L
    <3>1. \A act \in R : g[act] \in Int
      BY <1>2
    <3>2. SumFunctionOnSet(LeftWith(T, R, next, terms, c, g), R) =
            ValuesTimes(R, next, g) - Combined(T, c, TermsWith(T, R, terms, g))
      <4>1. /\ IsFiniteSet(T) /\ IsFiniteSet(R) /\ (\A k \in T : c[k] \in Int)
            /\ \A act \in R : next[act] \in Int /\ \A k \in T : terms[act][k] \in Int
        OBVIOUS
      <4> HIDE DEF g
      <4> QED  BY ONLY <3>1, <4>1, LeftSummed
    <3>3. [act \in R |-> LeftTimes(T, next, terms, c, act, t)] = LeftWith(T, R, next, terms, c, g)
      BY DEF LeftTimes, LeftWith
    <3> HIDE DEF g
    <3>4. ValuesTimes(R, next, g) = h /\ G(t) = TermsWith(T, R, terms, g)
      BY DEF g, TermsWith
    <3> HIDE DEF G, h
    <3> QED  BY <3>2, <3>3, <3>4
  <2>2. K \in Int /\ L \in Int /\ h \in Int /\ v[t] \in Int
    <3>1. \A k \in T : m[t][k] \in Int /\ G(t)[k] \in Int
      BY <1>5, <1>3
    <3>2. h \in Int /\ v[t] \in Int
      BY <1>3, <1>5
    <3> HIDE DEF G, h
    <3> QED  BY <3>1, <3>2, CombinedType
  <2>3. Same(K * n, L)
    <3> DEFINE d == [k \in T |-> n]
               w == [k \in T |-> m[t][k] * n]
               f == [k \in T |-> c[k] * m[t][k]]
               e == [k \in T |-> c[k] * w[k]]
    <3>1. \A k \in T : w[k] \in Int /\ Same(w[k], G(t)[k]) /\ G(t)[k] \in Int
      <4> HIDE DEF G
      <4> QED  BY <1>1, <1>3, <1>5, TimesType
    <3>2. Same(Combined(T, c, w), L)
      <4>1. \A k \in T : Same(c[k] * w[k], c[k] * G(t)[k])
        <5> HIDE DEF w, G
        <5> QED  BY <3>1, SameTimesSame
      <4> HIDE DEF w, G
      <4> QED  BY <3>1, <4>1, CombinedSame
    <3>3. Combined(T, c, w) = n * K
      <4>1. \A k \in T : f[k] \in Int /\ e[k] = n * f[k]
        <5> TAKE k \in T
        <5> DEFINE a == c[k]
                   mk == m[t][k]
        <5>1. a \in Int /\ mk \in Int /\ f[k] = a * mk /\ e[k] = a * (mk * n)
          BY <1>5
        <5> HIDE DEF a, mk, f, e
        <5>2. a * mk \in Int /\ a * (mk * n) = n * (a * mk)
          BY <1>1, <5>1
        <5> QED  BY <5>1, <5>2
      <4>2. K = SumFunctionOnSet(f, T) /\ Combined(T, c, w) = SumFunctionOnSet(e, T)
        BY DEF Combined
      <4> HIDE DEF f, e, K, w
      <4> QED  BY <1>1, <4>1, <4>2, SumOfMultiples
    <3> HIDE DEF K, w
    <3>4. n * K = K * n
      BY <1>1, <2>2
    <3> QED  BY <3>2, <3>3, <3>4
  <2>4. Same(v[t] * n, h)
    BY <1>5
  <2> DEFINE vt == v[t]
             Kn == K * n
             vn == vt * n
  <2>5. Kn \in Int /\ vn \in Int /\ Same(Kn, L) /\ Same(vn, h) /\ vt \in Int
    <3> HIDE DEF K, h
    <3> QED  BY <1>1, <2>2, <2>3, <2>4, TimesType
  <2>6. Same(K, vt) => Same(left, 0)
    <3> HAVE Same(K, vt)
    <3>1. Same(Kn, vn)
      <4> HIDE DEF K, vt
      <4>1. Same(n, n)
        BY <1>1, SameItself
      <4> QED  BY <1>1, <2>2, <2>5, <4>1, SameTimes
    <3> HIDE DEF K, L, h, vt, Kn, vn, left
    <3>2. Same(L, Kn)
      BY ONLY <2>2, <2>5, SameBack
    <3>3. Same(L, vn)
      BY ONLY <2>2, <2>5, <3>1, <3>2, SameThrough
    <3>4. Same(L, h)
      BY ONLY <2>2, <2>5, <3>3, SameThrough
    <3>5. Same(h, L)
      BY ONLY <2>2, <3>4, SameBack
    <3>6. h - L = left - 0
      BY <2>1, <2>2
    <3> QED  BY <3>5, <3>6 DEF Same
  <2>7. Same(left, 0) => Same(K, vt)
    <3> HAVE Same(left, 0)
    <3> HIDE DEF K, L, h, vt, Kn, vn, left
    <3>1. Same(h, L)
      <4>1. h - L = left - 0
        BY <2>1, <2>2
      <4> QED  BY <4>1 DEF Same
    <3>2. Same(vn, L)
      BY ONLY <2>2, <2>5, <3>1, SameThrough
    <3>3. Same(L, vn)
      BY ONLY <2>2, <2>5, <3>2, SameBack
    <3>4. Same(Kn, vn)
      BY ONLY <2>2, <2>5, <3>3, SameThrough
    <3> QED  BY <2>2, <2>5, <3>4, SameCancels DEF Kn, vn
  <2> QED  BY <2>6, <2>7
<1> HIDE DEF G, H, col
<1>7. Solves(T, m, v, c) <=> IsNormal(T, R, next, terms, c)
  BY <1>6 DEF Solves, IsNormal
<1> QED  BY <1>5, <1>7

-----------------------------------------------------------------------------
(* Elimination.                                                             *)

Swapped(f, n, p, r, T) ==
  n[p] = f[r] /\ n[r] = f[p] /\ \A t \in T : t # p /\ t # r => n[t] = f[t]

LEMMA RowsSwapped ==
  ASSUME NEW T, NEW p \in T, NEW r \in T, NEW m, NEW v, NEW n, NEW w, NEW c,
         Swapped(m, n, p, r, T), Swapped(v, w, p, r, T)
  PROVE  Solves(T, n, w, c) <=> Solves(T, m, v, c)
<1>1. Solves(T, n, w, c) => Solves(T, m, v, c)
  <2> HAVE Solves(T, n, w, c)
  <2>1. \A t \in T : Same(Combined(T, c, n[t]), w[t])
    BY DEF Solves
  <2>2. ASSUME NEW t \in T PROVE Same(Combined(T, c, m[t]), v[t])
    <3>1. CASE t = p
      BY <2>1, <3>1 DEF Swapped
    <3>2. CASE t = r
      BY <2>1, <3>2 DEF Swapped
    <3>3. CASE t # p /\ t # r
      BY <2>1, <3>3 DEF Swapped
    <3> QED  BY <3>1, <3>2, <3>3
  <2> QED  BY <2>2 DEF Solves
<1>2. Solves(T, m, v, c) => Solves(T, n, w, c)
  <2> HAVE Solves(T, m, v, c)
  <2>1. \A t \in T : Same(Combined(T, c, m[t]), v[t])
    BY DEF Solves
  <2>2. ASSUME NEW t \in T PROVE Same(Combined(T, c, n[t]), w[t])
    <3>1. CASE t = p
      BY <2>1, <3>1 DEF Swapped
    <3>2. CASE t = r
      BY <2>1, <3>2 DEF Swapped
    <3>3. CASE t # p /\ t # r
      BY <2>1, <3>3 DEF Swapped
    <3> QED  BY <3>1, <3>2, <3>3
  <2> QED  BY <2>2 DEF Solves
<1> QED  BY <1>1, <1>2

LEMMA SameChain ==
  ASSUME NEW a \in Int, NEW b \in Int, NEW c \in Int, NEW d \in Int,
         Same(b, a), Same(b, c), Same(d, c)
  PROVE  Same(a, d)
<1>1. Same(a, b) /\ Same(c, d)
  BY SameBack
<1>2. Same(a, c)
  BY <1>1, SameThrough
<1> QED  BY <1>1, <1>2, SameThrough

RowsOfNumbers(T, q, m, v, n, w) ==
  \A t \in T : /\ q[t] \in Int /\ v[t] \in Int /\ w[t] \in Int
               /\ \A k \in T : m[t][k] \in Int /\ n[t][k] \in Int

Added(T, p, q, m, v, n, w) ==
  /\ q[p] = 0
  /\ \A t \in T : /\ Same(w[t], v[t] + q[t] * v[p])
                  /\ \A k \in T : Same(n[t][k], m[t][k] + q[t] * m[p][k])

(* Multiples of a row that is left as it is are added to others. *)
LEMMA RowsAdded ==
  ASSUME NEW T, IsFiniteSet(T), NEW p \in T, NEW m, NEW v, NEW n, NEW w, NEW q, NEW c,
         \A k \in T : c[k] \in Int, RowsOfNumbers(T, q, m, v, n, w), Added(T, p, q, m, v, n, w)
  PROVE  Solves(T, n, w, c) <=> Solves(T, m, v, c)
<1> DEFINE K(t) == Combined(T, c, m[t])
           L(t) == Combined(T, c, n[t])
<1>1. ASSUME NEW t \in T
      PROVE  /\ K(t) \in Int /\ L(t) \in Int /\ v[t] \in Int /\ w[t] \in Int /\ q[t] \in Int
             /\ q[t] * v[p] \in Int /\ q[t] * K(p) \in Int
             /\ Same(L(t), K(t) + q[t] * K(p)) /\ Same(w[t], v[t] + q[t] * v[p])
  <2> DEFINE u == m[t]
             z == m[p]
             y == n[t]
             a == q[t]
  <2>1. /\ IsFiniteSet(T) /\ a \in Int
        /\ \A k \in T : c[k] \in Int /\ u[k] \in Int /\ z[k] \in Int /\ y[k] \in Int
        /\ \A k \in T : Same(y[k], u[k] + a * z[k])
    BY DEF RowsOfNumbers, Added
  <2>2. v[p] \in Int /\ v[t] \in Int /\ w[t] \in Int /\ Same(w[t], v[t] + a * v[p])
    BY DEF RowsOfNumbers, Added
  <2> HIDE DEF u, z, y, a
  <2>3. Combined(T, c, u) \in Int /\ Combined(T, c, z) \in Int /\ Combined(T, c, y) \in Int
    BY <2>1, CombinedType
  <2>4. Same(Combined(T, c, y), Combined(T, c, u) + a * Combined(T, c, z))
    BY ONLY <2>1, CombinedSum
  <2>5. a * v[p] \in Int /\ a * Combined(T, c, z) \in Int
    BY <2>1, <2>2, <2>3, TimesType
  <2> QED  BY <2>1, <2>2, <2>3, <2>4, <2>5 DEF u, z, y, a
<1>2. Solves(T, n, w, c) <=> \A t \in T : Same(L(t), w[t])
  BY DEF Solves
<1>3. Solves(T, m, v, c) <=> \A t \in T : Same(K(t), v[t])
  BY DEF Solves
<1> HIDE DEF K, L
<1>4. ASSUME \A t \in T : Same(K(t), v[t]), NEW t \in T PROVE Same(L(t), w[t])
  <2> DEFINE a == q[t]
             kp == K(p)
             vp == v[p]
             kt == K(t)
             vt == v[t]
             akp == a * kp
             avp == a * vp
  <2>1. /\ a \in Int /\ kp \in Int /\ vp \in Int /\ kt \in Int /\ vt \in Int
        /\ akp \in Int /\ avp \in Int /\ Same(kp, vp) /\ Same(kt, vt)
        /\ L(t) \in Int /\ w[t] \in Int
        /\ Same(L(t), kt + akp) /\ Same(w[t], vt + avp)
    BY <1>1, <1>4
  <2>2. Same(akp, avp)
    <3> HIDE DEF a, kp, vp
    <3> QED  BY <2>1, SameTimesSame
  <2> HIDE DEF akp, avp, kt, vt
  <2>3. Same(kt + akp, vt + avp)
    BY ONLY <2>1, <2>2, SamePlus
  <2> DEFINE l == kt + akp
             r == vt + avp
  <2>4. l \in Int /\ r \in Int /\ Same(L(t), l) /\ Same(l, r) /\ Same(w[t], r)
    BY <2>1, <2>3
  <2> HIDE DEF l, r
  <2>5. Same(L(t), r) /\ Same(r, w[t])
    BY <2>1, <2>4, SameThrough, SameBack
  <2> QED  BY <2>1, <2>4, <2>5, SameThrough
<1>5. ASSUME \A t \in T : Same(L(t), w[t]) PROVE \A t \in T : Same(K(t), v[t])
  <2>1. Same(K(p), v[p])
    <3>1. /\ K(p) \in Int /\ L(p) \in Int /\ v[p] \in Int /\ w[p] \in Int
          /\ Same(L(p), K(p) + 0 * K(p)) /\ Same(w[p], v[p] + 0 * v[p]) /\ Same(L(p), w[p])
      BY <1>1, <1>5 DEF Added
    <3>2. K(p) + 0 * K(p) = K(p) /\ v[p] + 0 * v[p] = v[p]
      BY <3>1
    <3>3. Same(L(p), K(p)) /\ Same(w[p], v[p])
      BY <3>1, <3>2
    <3>4. Same(L(p), v[p])
      BY ONLY <3>1, <3>3, SameThrough
    <3>5. Same(K(p), L(p))
      BY ONLY <3>1, <3>3, SameBack
    <3> QED  BY ONLY <3>1, <3>4, <3>5, SameThrough
  <2>2. ASSUME NEW t \in T PROVE Same(K(t), v[t])
    <3> DEFINE a == q[t]
               kp == K(p)
               vp == v[p]
               kt == K(t)
               vt == v[t]
               akp == a * kp
               avp == a * vp
    <3>1. /\ a \in Int /\ kp \in Int /\ vp \in Int /\ kt \in Int /\ vt \in Int
          /\ akp \in Int /\ avp \in Int /\ Same(kp, vp) /\ Same(L(t), w[t])
          /\ L(t) \in Int /\ w[t] \in Int
          /\ Same(L(t), kt + akp) /\ Same(w[t], vt + avp)
      BY <1>1, <1>5, <2>1
    <3>2. Same(akp, avp)
      <4> HIDE DEF a, kp, vp
      <4> QED  BY <3>1, SameTimesSame
    <3> HIDE DEF akp, avp, kt, vt
    <3> DEFINE l == kt + akp
               r == vt + avp
    <3>3. l \in Int /\ r \in Int /\ Same(L(t), l) /\ Same(w[t], r)
      BY <3>1
    <3> HIDE DEF l, r
    <3>4. Same(L(t), r)
      BY <3>1, <3>3, SameThrough
    <3>5. Same(l, L(t))
      BY <3>1, <3>3, SameBack
    <3>6. Same(l, r)
      BY <3>1, <3>3, <3>4, <3>5, SameThrough
    <3>7. Same(l - akp, r - avp)
      BY <3>1, <3>2, <3>3, <3>6, SameMinus
    <3>8. l - akp = kt /\ r - avp = vt
      <4>1. \A x, y \in Int : (x + y) - y = x
        OBVIOUS
      <4> QED  BY <3>1, <4>1 DEF l, r
    <3> QED  BY <3>7, <3>8 DEF kt, vt
  <2> QED  BY <2>2
<1> QED  BY <1>2, <1>3, <1>4, <1>5

(* The first of the largest numbers. *)
LEMMA FirstLargest ==
  ASSUME NEW a \in Nat, NEW b \in Nat, a <= b, NEW f, \A k \in a..b : f[k] \in Int
  PROVE  \E t \in a..b : \A k \in a..b : f[k] <= f[t] /\ (k < t => f[k] < f[t])
<1> DEFINE LargestOf(n) ==
             \E t \in a..(a + n) : \A k \in a..(a + n) : f[k] <= f[t] /\ (k < t => f[k] < f[t])
           A == {n \in Nat : a + n <= b => LargestOf(n)}
<1>1. 0 \in A
  <2>1. a + 0 = a /\ a..a = {a} /\ f[a] \in Int
    OBVIOUS
  <2> QED  BY <2>1
<1>2. ASSUME NEW n \in Nat, n \in A PROVE n + 1 \in A
  <2> SUFFICES ASSUME a + (n + 1) <= b PROVE LargestOf(n + 1)
    OBVIOUS
  <2>1. PICK t \in a..(a + n) : \A k \in a..(a + n) : f[k] <= f[t] /\ (k < t => f[k] < f[t])
    BY <1>2
  <2> DEFINE e == a + (n + 1)
  <2>2. e \in a..b /\ a..e = (a..(a + n)) \cup {e} /\ e \in a..e /\ t \in a..e /\ t < e
        /\ \A k \in a..(a + n) : k < e /\ k \in a..b
    OBVIOUS
  <2>3. f[e] \in Int /\ f[t] \in Int /\ \A k \in a..(a + n) : f[k] \in Int
    BY <2>2
  <2> HIDE DEF e
  <2>4. CASE f[e] > f[t]
    <3>1. \A k \in a..e : f[k] <= f[e] /\ (k < e => f[k] < f[e])
      BY <2>1, <2>2, <2>3, <2>4
    <3> QED  BY <2>2, <3>1 DEF e
  <2>5. CASE ~(f[e] > f[t])
    <3>0. f[e] <= f[t] /\ ~(e < t)
      BY <2>2, <2>3, <2>5
    <3>1. ASSUME NEW k \in a..e PROVE f[k] <= f[t] /\ (k < t => f[k] < f[t])
      <4>1. CASE k = e
        BY <3>0, <4>1
      <4>2. CASE k # e
        BY <2>1, <2>2, <4>2
      <4> QED  BY <4>1, <4>2
    <3> QED  BY <2>2, <3>1 DEF e
  <2> QED  BY <2>4, <2>5
<1>3. Nat \subseteq A
  <2> HIDE DEF A
  <2> QED  BY <1>1, <1>2, NumberInduction
<1>4. b - a \in Nat /\ a + (b - a) = b
  OBVIOUS
<1>5. LargestOf(b - a)
  <2>1. b - a \in A /\ a + (b - a) <= b
    <3> HIDE DEF A
    <3> QED  BY <1>3, <1>4
  <2> HIDE DEF LargestOf
  <2> QED  BY <2>1
<1> QED  BY <1>4, <1>5

(* The columns before col have their pivots, and nothing below them.        *)
Cleared(last, m, col) ==
  \A k \in 0..last : k < col => m[k][k] # 0 /\ \A t \in 0..last : t > k => m[t][k] = 0

IsOn(f, S) == f = [t \in S |-> f[t]]

Quotients(last, col, q, m) == \A t \in 0..last : q[t] = Over(P - m[t][col], m[col][col])

SameSolutions(T, n, w, m, v) == \A c \in [T -> Field] : Solves(T, n, w, c) <=> Solves(T, m, v, c)

(* The rows below the row col, less their multiples of it. *)
Reduced(last, col, q, m, v, n, w) ==
  \A t \in 0..last :
    IF t <= col THEN w[t] = v[t] /\ n[t] = m[t]
    ELSE w[t] = (v[t] + q[t] * v[col]) % P
         /\ n[t] = [k \in 0..last |-> (m[t][k] + q[t] * m[col][k]) % P]

LEMMA SwapCleared ==
  ASSUME NEW last \in Nat, NEW col \in 0..last, NEW r \in col..last, NEW m, NEW n,
         Swapped(m, n, col, r, 0..last), Cleared(last, m, col)
  PROVE  Cleared(last, n, col)
<1> SUFFICES ASSUME NEW k \in 0..last, k < col
             PROVE  n[k][k] # 0 /\ \A t \in 0..last : t > k => n[t][k] = 0
  BY DEF Cleared
<1>1. m[k][k] # 0 /\ \A t \in 0..last : t > k => m[t][k] = 0
  BY DEF Cleared
<1>2. col \in 0..last /\ r \in 0..last /\ k # col /\ k # r /\ col > k /\ r > k
  OBVIOUS
<1>3. n[k] = m[k] /\ n[col] = m[r] /\ n[r] = m[col]
      /\ \A t \in 0..last : t # col /\ t # r => n[t] = m[t]
  BY <1>2 DEF Swapped
<1>4. ASSUME NEW t \in 0..last, t > k PROVE n[t][k] = 0
  <2>1. CASE t = col
    BY <1>1, <1>2, <1>3, <2>1
  <2>2. CASE t = r
    BY <1>1, <1>2, <1>3, <2>2
  <2>3. CASE t # col /\ t # r
    BY <1>1, <1>3, <1>4, <2>3
  <2> QED  BY <2>1, <2>2, <2>3
<1> QED  BY <1>1, <1>3, <1>4

LEMMA RowReduced ==
  ASSUME NEW last \in Nat, NEW col \in 0..last,
         NEW m \in [0..last -> [0..last -> Field]], NEW v \in [0..last -> Field],
         m[col][col] # 0, Cleared(last, m, col), NEW q, NEW n, NEW w,
         Quotients(last, col, q, m),
         IsOn(n, 0..last), IsOn(w, 0..last),
         Reduced(last, col, q, m, v, n, w)
  PROVE  /\ n \in [0..last -> [0..last -> Field]] /\ w \in [0..last -> Field]
         /\ Cleared(last, n, col + 1)
         /\ SameSolutions(0..last, n, w, m, v)
<1> DEFINE T == 0..last
<1>1. /\ \A t \in T : q[t] \in Int /\ v[t] \in Field /\ v[t] \in Int
      /\ \A t, k \in T : m[t][k] \in Field /\ m[t][k] \in Int
      /\ \A t \in T : Same(q[t] * m[col][col], P - m[t][col])
  <2>1. \A t \in T : v[t] \in Field /\ v[t] \in Int
    BY FieldType
  <2>2. \A t, k \in T : m[t][k] \in Field /\ m[t][k] \in Int
    BY FieldType
  <2>3. m[col][col] \in NonZero
    BY <2>2, FieldUnit
  <2>4. ASSUME NEW t \in T PROVE q[t] \in Int /\ Same(q[t] * m[col][col], P - m[t][col])
    <3> DEFINE e == P - m[t][col]
               d == m[col][col]
    <3>1. e \in Int /\ d \in NonZero /\ q[t] = Over(e, d)
      BY <2>2, <2>3, ModulusType DEF Quotients
    <3> HIDE DEF e, d
    <3>2. q[t] \in Int /\ Same(q[t] * d, e)
      BY <3>1, OverMeans
    <3> QED  BY <3>2 DEF e, d
  <2> QED  BY <2>1, <2>2, <2>4
<1>2. ASSUME NEW t \in T, t <= col PROVE w[t] = v[t] /\ n[t] = m[t]
  BY <1>2 DEF Reduced
<1>3. ASSUME NEW t \in T, ~(t <= col)
      PROVE  /\ w[t] \in Field /\ Same(w[t], v[t] + q[t] * v[col])
             /\ n[t] \in [T -> Field]
             /\ \A k \in T : Same(n[t][k], m[t][k] + q[t] * m[col][k])
  <2>1. w[t] = (v[t] + q[t] * v[col]) % P /\ n[t] = [k \in T |-> (m[t][k] + q[t] * m[col][k]) % P]
    BY <1>3 DEF Reduced
  <2>2. ASSUME NEW a \in Int, NEW b \in Int, NEW c \in Int
        PROVE  (a + b * c) % P \in Field /\ Same((a + b * c) % P, a + b * c)
    <3>1. a + b * c \in Int
      BY TimesType
    <3> QED  BY <3>1, RemainderSame
  <2>3. v[t] \in Int /\ v[col] \in Int /\ q[t] \in Int
    BY <1>1
  <2>4. \A k \in T : m[t][k] \in Int /\ m[col][k] \in Int
    BY <1>1
  <2>5. w[t] \in Field /\ Same(w[t], v[t] + q[t] * v[col])
    BY <2>1, <2>2, <2>3, ZenonT(60)
  <2>6. ASSUME NEW k \in T
        PROVE  n[t][k] \in Field /\ Same(n[t][k], m[t][k] + q[t] * m[col][k])
    <3> DEFINE a == m[t][k]
               b == q[t]
               c == m[col][k]
               y == n[t][k]
    <3>1. y = (a + b * c) % P /\ a \in Int /\ b \in Int /\ c \in Int
      BY <2>1, <2>3, <2>4
    <3> HIDE DEF a, b, c, y
    <3>2. y \in Field /\ Same(y, a + b * c)
      BY <2>2, <3>1
    <3> QED  BY <3>2 DEF a, b, c, y
  <2>7. n[t] \in [T -> Field]
    <3>1. n[t] = [k \in T |-> n[t][k]]
      BY <2>1
    <3> QED  BY <2>6, <3>1
  <2> QED  BY <2>5, <2>6, <2>7
<1>4. ASSUME NEW t \in T
      PROVE  w[t] \in Field /\ n[t] \in [T -> Field]
  <2>1. CASE t <= col
    BY <1>2, <2>1
  <2>2. CASE ~(t <= col)
    BY <1>3, <2>2
  <2> QED  BY <2>1, <2>2
<1>5. n \in [T -> [T -> Field]] /\ w \in [T -> Field]
  <2>1. n = [t \in T |-> n[t]] /\ w = [t \in T |-> w[t]]
    BY DEF IsOn
  <2> QED  BY <1>4, <2>1
<1>6. Cleared(last, n, col + 1)
  <2> SUFFICES ASSUME NEW k \in T, k < col + 1
               PROVE  n[k][k] # 0 /\ \A t \in T : t > k => n[t][k] = 0
    BY DEF Cleared
  <2>1. k <= col
    OBVIOUS
  <2>2. n[k] = m[k]
    BY <1>2, <2>1
  <2>3. CASE k < col
    <3>1. m[k][k] # 0 /\ \A t \in T : t > k => m[t][k] = 0
      BY <2>3 DEF Cleared
    <3>2. ASSUME NEW t \in T, t > k PROVE n[t][k] = 0
      <4>1. CASE t <= col
        BY <1>2, <3>1, <3>2, <4>1
      <4>2. CASE ~(t <= col)
        <5>1. n[t][k] \in Field /\ Same(n[t][k], m[t][k] + q[t] * m[col][k])
          BY <1>3, <4>2
        <5>2. m[t][k] = 0 /\ m[col][k] = 0 /\ q[t] \in Int
          BY <1>1, <2>3, <3>1, <3>2
        <5>3. m[t][k] + q[t] * m[col][k] = 0
          BY <5>2
        <5>4. 0 \in Field
          BY ModulusType DEF Field
        <5> QED  BY <5>1, <5>3, <5>4, FieldSame
      <4> QED  BY <4>1, <4>2
    <3> QED  BY <2>2, <3>1, <3>2
  <2>4. CASE k = col
    <3>1. ASSUME NEW t \in T, t > k PROVE n[t][k] = 0
      <4> DEFINE a == m[t][col]
                 b == q[t] * m[col][col]
      <4>0. ~(t <= col)
        BY <2>4, <3>1
      <4>1. n[t][k] \in Field /\ Same(n[t][k], a + b)
        <5>1. n[t] \in [T -> Field] /\ Same(n[t][k], m[t][k] + q[t] * m[col][k])
          BY <1>3, <4>0
        <5> QED  BY <2>4, <5>1
      <4>2. a \in Int /\ b \in Int /\ Same(b, P - a) /\ P \in Int /\ P - a \in Int
        <5>1. a \in Int /\ q[t] \in Int /\ m[col][col] \in Int /\ Same(b, P - a)
          BY <1>1
        <5> HIDE DEF a
        <5> QED  BY <5>1, ModulusType, TimesType
      <4> HIDE DEF a, b
      <4>3. Same(a + b, a + (P - a))
        BY <4>2, SameItself, SamePlus
      <4>4. a + (P - a) = P /\ Same(P, 0) /\ n[t][k] \in Int
        <5>0. \A x, y \in Int : x + (y - x) = y /\ y * 1 = y /\ y - 0 = y
          OBVIOUS
        <5>1. P * 1 = P /\ P - 0 = P /\ a + (P - a) = P
          BY <4>2, <5>0
        <5>2. P \in Multiples
          BY <5>1 DEF Multiples
        <5> QED  BY <4>1, <5>1, <5>2, FieldType DEF Same
      <4>5. Same(a + b, 0) /\ a + b \in Int
        BY <4>2, <4>3, <4>4, SameThrough, SMTT(60)
      <4>6. Same(n[t][k], 0)
        BY <4>1, <4>4, <4>5, SameThrough
      <4>7. 0 \in Field
        BY ModulusType DEF Field
      <4> QED  BY <4>1, <4>6, <4>7, FieldSame
    <3>2. n[k][k] # 0
      BY <2>2, <2>4
    <3> QED  BY <3>1, <3>2
  <2> QED  BY <2>1, <2>3, <2>4
<1>7. ASSUME NEW c \in [T -> Field] PROVE Solves(T, n, w, c) <=> Solves(T, m, v, c)
  <2> DEFINE e == [t \in T |-> IF t <= col THEN 0 ELSE q[t]]
  <2>1. IsFiniteSet(T) /\ col \in T /\ \A k \in T : c[k] \in Int
    <3>1. IsFiniteSet(T)
      <4>1. 0 \in Int /\ last \in Int
        OBVIOUS
      <4> QED  BY <4>1, FS_Interval
    <3> QED  BY <3>1, FieldType
  <2>2. e[col] = 0
    OBVIOUS
  <2>3. \A t \in T : /\ e[t] \in Int /\ v[t] \in Int /\ w[t] \in Int
                     /\ \A k \in T : m[t][k] \in Int /\ n[t][k] \in Int
    <3>1. \A t \in T : e[t] \in Int
      BY <1>1
    <3> HIDE DEF e
    <3> QED  BY <1>1, <1>4, <3>1, FieldType
  <2>4. \A t \in T : /\ Same(w[t], v[t] + e[t] * v[col])
                     /\ \A k \in T : Same(n[t][k], m[t][k] + e[t] * m[col][k])
    <3> TAKE t \in T
    <3>1. CASE t <= col
      <4>1. e[t] = 0 /\ w[t] = v[t] /\ n[t] = m[t]
        BY <1>2, <3>1
      <4>2. v[t] \in Int /\ v[col] \in Int /\ \A k \in T : m[t][k] \in Int /\ m[col][k] \in Int
        BY <1>1
      <4> HIDE DEF e
      <4>0. \A a, b \in Int : a + 0 * b = a
        OBVIOUS
      <4>3. v[t] + e[t] * v[col] = v[t]
        BY <4>0, <4>1, <4>2
      <4>4. \A k \in T : m[t][k] + e[t] * m[col][k] = m[t][k]
        BY <4>0, <4>1, <4>2
      <4> QED  BY <4>1, <4>2, <4>3, <4>4, SameItself
    <3>2. CASE ~(t <= col)
      <4>1. e[t] = q[t]
        BY <3>2
      <4> HIDE DEF e
      <4> QED  BY <1>3, <3>2, <4>1
    <3> QED  BY <3>1, <3>2
  <2> HIDE DEF e, T
  <2>5. RowsOfNumbers(T, e, m, v, n, w) /\ Added(T, col, e, m, v, n, w)
    BY <2>2, <2>3, <2>4 DEF RowsOfNumbers, Added
  <2> QED  BY ONLY <2>1, <2>5, RowsAdded
<1> QED  BY <1>5, <1>6, <1>7 DEF SameSolutions

-----------------------------------------------------------------------------
(* Back substitution.                                                       *)

(* The terms of row t right of the diagonal. *)
Right(last, m, y, t) == [k \in (t + 1)..last |-> m[t][k] * y[k]]

Substituted(last, m, v, y) ==
  \A t \in 0..last : y[t] = Over(v[t] - Total(Right(last, m, y, t)), m[t][t])

LEMMA RightType ==
  ASSUME NEW last \in Nat, NEW m \in [0..last -> [0..last -> Field]], NEW t \in 0..last, NEW y,
         \A k \in (t + 1)..last : y[k] \in Int
  PROVE  /\ IsFiniteSet((t + 1)..last) /\ DOMAIN Right(last, m, y, t) = (t + 1)..last
         /\ \A k \in (t + 1)..last : Right(last, m, y, t)[k] \in Int
         /\ Total(Right(last, m, y, t)) \in Int
<1> DEFINE f == Right(last, m, y, t)
           D == (t + 1)..last
<1>1. IsFiniteSet(D)
  <2>1. t + 1 \in Int /\ last \in Int
    OBVIOUS
  <2> QED  BY <2>1, FS_Interval
<1>2. DOMAIN f = D
  BY DEF Right
<1>3. ASSUME NEW k \in D PROVE f[k] \in Int
  <2>1. k \in 0..last /\ f[k] = m[t][k] * y[k]
    BY DEF Right
  <2>2. m[t][k] \in Int /\ y[k] \in Int
    BY <2>1, FieldType
  <2> QED  BY <2>1, <2>2, TimesType
<1> HIDE DEF f, D
<1>4. Total(f) \in Int
  BY <1>1, <1>2, <1>3, TotalSame
<1> QED  BY <1>1, <1>2, <1>3, <1>4 DEF f, D

LEMMA RightAgrees ==
  ASSUME NEW last \in Nat, NEW m, NEW t \in 0..last, NEW x, NEW y,
         \A k \in (t + 1)..last : x[k] = y[k]
  PROVE  Right(last, m, x, t) = Right(last, m, y, t)
BY DEF Right

LEMMA SubstitutedOnce ==
  ASSUME NEW last \in Nat, NEW m, NEW v, NEW x, NEW y,
         Substituted(last, m, v, x), Substituted(last, m, v, y)
  PROVE  \A t \in 0..last : x[t] = y[t]
<1> DEFINE A == {n \in Nat : \A t \in 0..last : t + n > last => x[t] = y[t]}
<1>1. 0 \in A
  OBVIOUS
<1>2. ASSUME NEW n \in Nat, n \in A PROVE n + 1 \in A
  <2> SUFFICES ASSUME NEW t \in 0..last, t + (n + 1) > last PROVE x[t] = y[t]
    OBVIOUS
  <2>1. ASSUME NEW k \in (t + 1)..last PROVE x[k] = y[k]
    <3>1. k \in 0..last /\ k + n > last
      OBVIOUS
    <3> QED  BY <1>2, <3>1
  <2>2. Right(last, m, x, t) = Right(last, m, y, t)
    BY <2>1, RightAgrees
  <2> QED  BY <2>2 DEF Substituted
<1>3. Nat \subseteq A
  <2> HIDE DEF A
  <2> QED  BY <1>1, <1>2, NumberInduction
<1>4. last + 1 \in Nat /\ \A t \in 0..last : t + (last + 1) > last
  OBVIOUS
<1> QED  BY <1>3, <1>4

(* A triangle of equations with nothing on the diagonal that is zero.       *)
Triangle(last, m) ==
  \A k \in 0..last : m[k][k] # 0 /\ \A t \in 0..last : t > k => m[t][k] = 0

LEMMA SubstitutedExists ==
  ASSUME NEW last \in Nat, NEW m \in [0..last -> [0..last -> Field]],
         NEW v \in [0..last -> Field], Triangle(last, m)
  PROVE  \E y \in [0..last -> Field] : Substituted(last, m, v, y)
<1> DEFINE Rule(y, t) == y[t] = Over(v[t] - Total(Right(last, m, y, t)), m[t][t])
           A == {n \in Nat : \E y \in [0..last -> Field] :
                               \A t \in 0..last : t + n > last => Rule(y, t)}
<1>0. 0 \in Field
  BY ModulusType DEF Field
<1>1. 0 \in A
  <2>1. [t \in 0..last |-> 0] \in [0..last -> Field]
    BY <1>0
  <2>2. \A t \in 0..last : ~(t + 0 > last)
    OBVIOUS
  <2> QED  BY <2>1, <2>2
<1>2. ASSUME NEW n \in Nat, n \in A PROVE n + 1 \in A
  <2>1. PICK x \in [0..last -> Field] : \A t \in 0..last : t + n > last => Rule(x, t)
    BY <1>2
  <2>2. CASE n > last
    <3>1. \A t \in 0..last : t + n > last
      BY <2>2
    <3> HIDE DEF Rule
    <3>2. \A t \in 0..last : Rule(x, t)
      BY <2>1, <3>1
    <3> QED  BY <3>2, SMTT(60)
  <2>3. CASE ~(n > last)
    <3> DEFINE s == last - n
               e == Over(v[s] - Total(Right(last, m, x, s)), m[s][s])
               y == [x EXCEPT ![s] = e]
    <3>1. s \in 0..last
      BY <2>3
    <3>2. e \in Field
      <4>1. \A k \in (s + 1)..last : x[k] \in Int
        <5> TAKE k \in (s + 1)..last
        <5>1. k \in 0..last
          BY <3>1
        <5> QED  BY <5>1, FieldType
      <4> HIDE DEF s
      <4>2. Total(Right(last, m, x, s)) \in Int
        BY <3>1, <4>1, RightType
      <4>3. v[s] \in Int /\ m[s][s] \in NonZero
        BY <3>1, FieldType, FieldUnit DEF Triangle
      <4>4. v[s] - Total(Right(last, m, x, s)) \in Int
        BY <4>2, <4>3
      <4> QED  BY <4>3, <4>4, OverMeans
    <3>3. y \in [0..last -> Field] /\ y[s] = e /\ \A k \in 0..last : k # s => y[k] = x[k]
      <4> HIDE DEF e, s
      <4> QED  BY <3>1, <3>2
    <3> HIDE DEF y
    <3>4. ASSUME NEW t \in 0..last, t + (n + 1) > last PROVE Rule(y, t)
      <4>1. t >= s
        BY <3>4
      <4>2. ASSUME NEW k \in (t + 1)..last PROVE y[k] = x[k]
        <5>1. k \in 0..last /\ k # s
          BY <4>1
        <5> QED  BY <3>3, <5>1
      <4>3. Right(last, m, y, t) = Right(last, m, x, t)
        BY <4>2, RightAgrees
      <4>4. CASE t = s
        BY <3>3, <4>3, <4>4
      <4>5. CASE t # s
        <5>1. t + n > last /\ y[t] = x[t]
          BY <3>3, <4>1, <4>5
        <5>2. Rule(x, t)
          BY <2>1, <5>1
        <5> QED  BY <4>3, <5>1, <5>2
      <4> QED  BY <4>4, <4>5
    <3> HIDE DEF Rule
    <3> QED  BY <3>3, <3>4
  <2> QED  BY <2>2, <2>3
<1>3. Nat \subseteq A
  <2> HIDE DEF A
  <2> QED  BY <1>1, <1>2, NumberInduction
<1>4. last + 1 \in Nat /\ \A t \in 0..last : t + (last + 1) > last
  OBVIOUS
<1>5. PICK y \in [0..last -> Field] : \A t \in 0..last : t + (last + 1) > last => Rule(y, t)
  BY <1>3, <1>4
<1>6. \A t \in 0..last : Rule(y, t)
  <2> HIDE DEF Rule
  <2> QED  BY <1>4, <1>5
<1> QED  BY <1>6 DEF Substituted

(* A row of a triangle: what is right of the diagonal, and the diagonal.    *)
LEMMA RowSplit ==
  ASSUME NEW last \in Nat, NEW m \in [0..last -> [0..last -> Field]], Triangle(last, m),
         NEW y \in [0..last -> Field], NEW t \in 0..last
  PROVE  Same(Combined(0..last, y, m[t]), Total(Right(last, m, y, t)) + y[t] * m[t][t])
<1> DEFINE f == [k \in 0..last |-> y[k] * m[t][k]]
           L == 0..(t - 1)
           R == (t + 1)..last
           g == Right(last, m, y, t)
<1>1. \A k \in 0..last : y[k] \in Int /\ m[t][k] \in Int
  BY FieldType
<1>2. \A k \in 0..last : f[k] \in Int /\ f[k] = y[k] * m[t][k]
  BY <1>1, TimesType
<1>3. Combined(0..last, y, m[t]) = SumFunctionOnSet(f, 0..last)
  BY DEF Combined
<1>4. IsFiniteSet(L) /\ IsFiniteSet(R)
  <2>1. 0 \in Int /\ t - 1 \in Int /\ t + 1 \in Int /\ last \in Int
    OBVIOUS
  <2> QED  BY <2>1, FS_Interval
<1>5. /\ 0..last = L \cup (R \cup {t}) /\ L \cap (R \cup {t}) = {} /\ t \notin R
      /\ L \subseteq 0..last /\ R \subseteq 0..last
  OBVIOUS
<1>6. \A k \in L : f[k] = 0
  <2> TAKE k \in L
  <2>1. k \in 0..last /\ t > k
    OBVIOUS
  <2>2. m[t][k] = 0
    BY <2>1 DEF Triangle
  <2>3. f[k] = y[k] * 0 /\ y[k] \in Int
    BY <1>1, <2>1, <2>2
  <2> HIDE DEF f
  <2> QED  BY <2>3
<1>7. DOMAIN g = R /\ \A k \in R : g[k] \in Int
  <2>1. \A k \in (t + 1)..last : y[k] \in Int
    BY <1>1, <1>5
  <2> QED  BY <2>1, RightType
<1>8. \A k \in R : g[k] = f[k]
  <2> TAKE k \in R
  <2>1. k \in 0..last /\ g[k] = m[t][k] * y[k]
    BY DEF Right
  <2>2. y[k] \in Int /\ m[t][k] \in Int /\ f[k] = y[k] * m[t][k]
    BY <1>1, <2>1
  <2> DEFINE a == y[k]
             b == m[t][k]
  <2>3. a \in Int /\ b \in Int /\ f[k] = a * b /\ g[k] = b * a
    BY <2>1, <2>2
  <2> HIDE DEF f, g, a, b
  <2>4. a * b = b * a
    BY <2>3
  <2> QED  BY <2>3, <2>4
<1> HIDE DEF f, g, L, R
<1>9. SumFunctionOnSet(f, L) = 0
  <2> DEFINE none == 0
  <2>1. none \in Int /\ \A k \in L : f[k] = none
    BY <1>6
  <2> HIDE DEF none
  <2>2. SumFunctionOnSet(f, L) = none * Cardinality(L)
    BY <1>4, <2>1, SumOfSame
  <2>3. none * Cardinality(L) = 0
    BY <1>4, FS_CardinalityType DEF none
  <2> QED  BY <2>2, <2>3
<1>10. SumFunctionOnSet(f, R \cup {t}) = SumFunctionOnSet(f, R) + f[t]
  <2>1. \A k \in R \cup {t} : f[k] \in Int
    BY <1>2, <1>5
  <2> QED  BY <1>4, <1>5, <2>1, SumOfOneMore
<1>11. SumFunctionOnSet(f, 0..last) = SumFunctionOnSet(f, L) + SumFunctionOnSet(f, R \cup {t})
  <2> DEFINE Q == R \cup {t}
  <2>1. IsFiniteSet(Q)
    BY <1>4, FS_AddElement
  <2>2. \A k \in L \cup Q : f[k] \in Int
    BY <1>2, <1>5
  <2>3. L \cap Q = {} /\ 0..last = L \cup Q
    BY <1>5
  <2> HIDE DEF Q
  <2>4. SumFunctionOnSet(f, L \cup Q) = SumFunctionOnSet(f, L) + SumFunctionOnSet(f, Q)
    BY <1>4, <2>1, <2>2, <2>3, SumOfUnion
  <2> QED  BY <2>3, <2>4 DEF Q
<1>12. SumFunctionOnSet(g, R) = SumFunctionOnSet(f, R)
  BY <1>4, <1>7, <1>8, SumsAgree
<1>13. Same(Total(g), SumFunctionOnSet(g, R)) /\ Total(g) \in Int /\ SumFunctionOnSet(g, R) \in Int
  BY <1>4, <1>7, TotalSame
<1> DEFINE s == SumFunctionOnSet(g, R)
           d == y[t] * m[t][t]
<1>14. d \in Int /\ s \in Int /\ f[t] = d /\ SumFunctionOnSet(f, 0..last) = s + d
  <2>1. d \in Int /\ f[t] = d
    BY <1>1, <1>2, TimesType
  <2> HIDE DEF d
  <2> QED  BY <1>9, <1>10, <1>11, <1>12, <1>13, <2>1
<1>15. Same(s, Total(g))
  BY <1>13, SameBack
<1> HIDE DEF s, d
<1>16. Same(s + d, Total(g) + d)
  BY <1>13, <1>14, <1>15, SameItself, SamePlus
<1> QED  BY <1>3, <1>14, <1>16 DEF g, d

LEMMA SubstitutedSolves ==
  ASSUME NEW last \in Nat, NEW m \in [0..last -> [0..last -> Field]],
         NEW v \in [0..last -> Field], Triangle(last, m), NEW y \in [0..last -> Field]
  PROVE  Solves(0..last, m, v, y) <=> Substituted(last, m, v, y)
<1>1. ASSUME NEW t \in 0..last
      PROVE  Same(Combined(0..last, y, m[t]), v[t]) <=>
               y[t] = Over(v[t] - Total(Right(last, m, y, t)), m[t][t])
  <2> DEFINE K == Combined(0..last, y, m[t])
             e == Total(Right(last, m, y, t))
             d == m[t][t]
             a == y[t]
             vt == v[t]
             r == vt - e
             ad == a * d
  <2>1. \A k \in 0..last : y[k] \in Int /\ m[t][k] \in Int
    BY FieldType
  <2>2. e \in Int
    <3>1. \A k \in (t + 1)..last : y[k] \in Int
      BY FieldType
    <3> QED  BY <3>1, RightType
  <2>3. d \in NonZero /\ d \in Int /\ a \in Field /\ a \in Int /\ vt \in Int
    BY FieldType, FieldUnit DEF Triangle
  <2>4. K \in Int
    <3>1. IsFiniteSet(0..last)
      <4>1. 0 \in Int /\ last \in Int
        OBVIOUS
      <4> QED  BY <4>1, FS_Interval
    <3> QED  BY <2>1, <3>1, CombinedType
  <2>5. Same(K, e + ad)
    BY RowSplit
  <2> HIDE DEF K, e, d, a, vt
  <2>6. ad \in Int /\ r \in Int /\ e + ad \in Int
    BY <2>2, <2>3, TimesType
  <2>7. ASSUME Same(K, vt) PROVE a = Over(r, d)
    <3>1. Same(e + ad, K)
      BY <2>4, <2>5, <2>6, SameBack
    <3>2. Same(e + ad, vt)
      BY <2>3, <2>4, <2>6, <2>7, <3>1, SameThrough
    <3>3. (e + ad) - vt = ad - r
      <4> HIDE DEF ad
      <4> QED  BY <2>2, <2>3, <2>6
    <3>4. Same(ad, r)
      BY <3>2, <3>3 DEF Same
    <3> HIDE DEF r
    <3> QED  BY <2>3, <2>6, <3>4, OverIs
  <2>8. ASSUME a = Over(r, d) PROVE Same(K, vt)
    <3>1. Same(ad, r)
      <4> HIDE DEF r
      <4>1. Same(Over(r, d) * d, r)
        BY <2>3, <2>6, OverMeans
      <4> QED  BY <2>8, <4>1
    <3>2. (e + ad) - vt = ad - r
      <4> HIDE DEF ad
      <4> QED  BY <2>2, <2>3, <2>6
    <3>3. Same(e + ad, vt)
      BY <3>1, <3>2 DEF Same
    <3> QED  BY <2>3, <2>4, <2>5, <2>6, <3>3, SameThrough
  <2>9. Same(K, vt) <=> a = Over(r, d)
    BY <2>7, <2>8
  <2> QED  BY <2>9 DEF K, e, d, a, vt, r
<1> QED  BY <1>1 DEF Solves, Substituted

-----------------------------------------------------------------------------
(* The terms of the fit.                                                    *)

Positions == 0..(LENGTH - 1)

(* The values a prediction is made from are numbers of the field. *)
Windowed(x, act) == \A d \in 0..(DIM - 1) : x[act - d * DELAY] \in Field

SameWindow(x, act, y, bct) == \A d \in 0..(DIM - 1) : x[act - d * DELAY] = y[bct - d * DELAY]

Based ==
  /\ method \in {"Polynom", "RBF"}
  /\ method = "Polynom" => coding = make_codingPOLYNOM
  /\ method = "RBF" => center \in [Centers -> [0..(DIM - 1) -> Field]] /\ kernel \in [Field -> Field]

LEMMA SpanCovers ==
  /\ Span \in Nat /\ LENGTH \in Nat /\ LENGTH > Span + 1
  /\ \A d \in 0..(DIM - 1) : d * DELAY \in Nat /\ d * DELAY <= Span
<1>1. DIM \in Nat \ {0} /\ DELAY \in Nat \ {0} /\ LENGTH \in Nat /\ LENGTH > Span + 1
  BY ForecastAssumption
<1>2. Span \in Nat
  <2> DEFINE k == DIM - 1
  <2>1. k \in Nat /\ DELAY \in Nat
    BY <1>1
  <2> HIDE DEF k
  <2>2. k * DELAY \in Nat
    BY <2>1
  <2> QED  BY <2>2 DEF Span, k
<1>3. ASSUME NEW d \in 0..(DIM - 1) PROVE d * DELAY \in Nat /\ d * DELAY <= Span
  <2> DEFINE k == DIM - 1
  <2>1. d \in Nat /\ k \in Nat /\ d <= k /\ DELAY \in Nat \ {0}
    BY <1>1
  <2>2. Span = k * DELAY
    BY DEF Span
  <2> HIDE DEF k
  <2>3. d * DELAY \in Nat /\ DELAY * d = d * DELAY /\ DELAY * k = k * DELAY /\ k * DELAY \in Nat
    BY <2>1
  <2>4. d * DELAY <= k * DELAY
    <3>1. CASE d = k
      BY <2>3, <3>1
    <3>2. CASE d # k
      <4>1. d < k
        BY <2>1, <3>2
      <4>2. DELAY * d + DELAY <= DELAY * k
        BY <2>1, <4>1, TimesMonotone
      <4> QED  BY <2>1, <2>3, <4>2
    <3> QED  BY <3>1, <3>2
  <2> QED  BY <2>2, <2>3, <2>4
<1> QED  BY <1>1, <1>2, <1>3

LEMMA RowsType ==
  /\ IsFiniteSet(Rows) /\ Cardinality(Rows) = LENGTH - Span - 1
  /\ Cardinality(Rows) % P \in NonZero /\ (LENGTH - Span) % P \in NonZero
  /\ (Cardinality(Rows) + 1) % P = (LENGTH - Span) % P
  /\ \A act \in Rows : act \in Positions /\ act + 1 \in Positions /\ act \in Int
  /\ \A x : (\A n \in Positions : x[n] \in Field) => \A act \in Rows : Windowed(x, act)
<1>1. Span \in Int /\ LENGTH - 2 \in Int /\ LENGTH - 2 >= Span /\ Span >= 0
  BY SpanCovers
<1>2. IsFiniteSet(Rows) /\ Cardinality(Rows) = LENGTH - Span - 1
  <2>1. /\ IsFiniteSet(Span..(LENGTH - 2))
        /\ Cardinality(Span..(LENGTH - 2)) =
             IF Span > LENGTH - 2 THEN 0 ELSE (LENGTH - 2) - Span + 1
    BY <1>1, FS_Interval
  <2> QED  BY <1>1, <2>1, SpanCovers DEF Rows
<1>3. \A n \in Int : n % P # 0 => n % P \in NonZero
  BY RemainderSame, FieldUnit
<1>4. Cardinality(Rows) % P \in NonZero /\ (LENGTH - Span) % P \in NonZero
  <2>1. (LENGTH - Span) % P # 0 /\ (LENGTH - Span - 1) % P # 0
    BY ForecastAssumption
  <2>2. LENGTH - Span \in Int /\ LENGTH - Span - 1 \in Int
    BY SpanCovers
  <2> QED  BY <1>2, <1>3, <2>1, <2>2
<1>5. (Cardinality(Rows) + 1) % P = (LENGTH - Span) % P
  <2>1. (LENGTH - Span - 1) + 1 = LENGTH - Span
    BY SpanCovers
  <2> QED  BY <1>2, <2>1
<1>6. \A act \in Rows : act \in Positions /\ act + 1 \in Positions /\ act \in Int
  BY SpanCovers DEF Rows, Positions
<1>7. ASSUME NEW x, \A n \in Positions : x[n] \in Field, NEW act \in Rows PROVE Windowed(x, act)
  <2>1. ASSUME NEW d \in 0..(DIM - 1) PROVE x[act - d * DELAY] \in Field
    <3> DEFINE e == d * DELAY
    <3>1. e \in Nat /\ e <= Span
      BY SpanCovers
    <3> HIDE DEF e
    <3>2. act - e \in Positions
      BY <3>1, SpanCovers DEF Rows, Positions
    <3> QED  BY <1>7, <3>2 DEF e
  <2> QED  BY <2>1 DEF Windowed
<1> QED  BY <1>2, <1>4, <1>5, <1>6, <1>7

LEMMA CentersType ==
  /\ IsFiniteSet(Centers) /\ Cardinality(Centers) \in Nat /\ Cardinality(Centers) > 1
  /\ Centers = 0..(Cardinality(Centers) - 1)
<1> DEFINE n == IF CENTER > LENGTH THEN LENGTH ELSE CENTER
<1>1. n \in Nat /\ n > 1
  <2>1. CENTER \in Nat \ {0, 1}
    BY ForecastAssumption
  <2> QED  BY <2>1, SpanCovers
<1>2. Centers = 0..(n - 1)
  BY DEF Centers
<1> HIDE DEF n
<1>3. 0 \in Int /\ n - 1 \in Int /\ ~(0 > n - 1) /\ (n - 1) - 0 + 1 = n
  BY <1>1
<1>4. /\ IsFiniteSet(0..(n - 1))
      /\ Cardinality(0..(n - 1)) = IF 0 > n - 1 THEN 0 ELSE (n - 1) - 0 + 1
  <2> DEFINE low == 0
             high == n - 1
  <2>1. low \in Int /\ high \in Int
    BY <1>3
  <2> HIDE DEF low, high
  <2>2. IsFiniteSet(low..high) /\ Cardinality(low..high) = IF low > high THEN 0 ELSE high - low + 1
    BY <2>1, FS_Interval
  <2> QED  BY <2>2 DEF low, high
<1> QED  BY <1>1, <1>2, <1>3, <1>4

LEMMA TermsType ==
  ASSUME Based
  PROVE  /\ LastRow \in Nat /\ Terms = 0..LastRow /\ IsFiniteSet(Terms)
         /\ 0 \in Terms /\ LastRow \in Terms
         /\ method = "Polynom" =>
              /\ LastRow + 1 = pars
              /\ \A k \in Terms : k + 1 \in 1..pars /\ coding[k + 1] = make_codingPOLYNOM[k + 1]
         /\ method = "RBF" => \A k \in Terms : k # 0 => k - 1 \in Centers
<1> DEFINE n == IF method = "Polynom" THEN Len(coding) ELSE Cardinality(Centers) + 1
<1>1. n \in Nat \ {0}
  <2>1. CASE method = "Polynom"
    BY <2>1, CodesListed DEF Based
  <2>2. CASE method # "Polynom"
    BY <2>2, CentersType
  <2> QED  BY <2>1, <2>2
<1>2. Terms = 0..(n - 1)
  BY DEF Terms
<1>3. method = "Polynom" => n = pars
  BY CodesListed DEF Based
<1>4. method = "RBF" => n = Cardinality(Centers) + 1
  OBVIOUS
<1> HIDE DEF n
<1>5. IsFiniteSet(0..(n - 1)) /\ Cardinality(0..(n - 1)) = n
  <2> DEFINE low == 0
             high == n - 1
  <2>1. low \in Int /\ high \in Int /\ ~(low > high) /\ high - low + 1 = n
    BY <1>1
  <2> HIDE DEF low, high
  <2>2. IsFiniteSet(low..high) /\ Cardinality(low..high) = IF low > high THEN 0 ELSE high - low + 1
    BY <2>1, FS_Interval
  <2>3. IsFiniteSet(low..high) /\ Cardinality(low..high) = n
    BY <2>1, <2>2
  <2> QED  BY <2>3 DEF low, high
<1>6. LastRow = n - 1
  BY <1>2, <1>5 DEF LastRow
<1>7. LastRow \in Nat /\ Terms = 0..LastRow /\ 0 \in Terms /\ LastRow \in Terms
  BY <1>1, <1>2, <1>6
<1>8. method = "Polynom" =>
              /\ LastRow + 1 = pars
              /\ \A k \in Terms : k + 1 \in 1..pars /\ coding[k + 1] = make_codingPOLYNOM[k + 1]
  BY <1>1, <1>2, <1>3, <1>6 DEF Based
<1>9. method = "RBF" => \A k \in Terms : k # 0 => k - 1 \in Centers
  <2> HAVE method = "RBF"
  <2>1. n - 1 = Cardinality(Centers)
    BY <1>4, CentersType
  <2>2. ASSUME NEW k \in Terms, k # 0 PROVE k - 1 \in 0..(Cardinality(Centers) - 1)
    BY <1>2, <2>1, <2>2, CentersType
  <2> QED  BY <2>2, CentersType
<1> QED  BY <1>2, <1>5, <1>7, <1>8, <1>9

LEMMA MonomialType ==
  \A m \in Monomials : m \in [0..(DIM - 1) -> Nat] /\ \A d \in 0..(DIM - 1) : m[d] \in Nat
<1>1. \A n \in 0..N : n \in Nat
  BY OrderType
<1> QED  BY <1>1 DEF Monomials

LEMMA WindowFactors ==
  ASSUME NEW x, NEW act, Windowed(x, act), NEW m \in Monomials
  PROVE  Factors(x, act, m)
BY MonomialType, FieldType DEF Windowed, Factors

(* The exponents of a term. *)
ExponentsOf(k) == decodePOLYNOM(make_codingPOLYNOM[k + 1])

LEMMA PolynomTerm ==
  ASSUME Based, method = "Polynom", NEW k \in Terms, NEW x, NEW act
  PROVE  /\ ExponentsOf(k) \in Monomials
         /\ Term(k, x, act) = Product(x, act, ExponentsOf(k))
<1>1. k + 1 \in 1..pars /\ coding[k + 1] = make_codingPOLYNOM[k + 1]
  BY TermsType
<1>2. ExponentsOf(k) \in Monomials
  BY <1>1, CodesListed DEF ExponentsOf
<1> QED  BY <1>1, <1>2 DEF Term, polynom, ExponentsOf

(* The squares of the distances from a center, by dimension. *)
Squares(x, act, cen) ==
  [d \in 0..(DIM - 1) |-> (x[act - d * DELAY] - cen[d]) * (x[act - d * DELAY] - cen[d])]

LEMMA KernelTerm ==
  ASSUME Based, method = "RBF", NEW k \in Terms, k # 0, NEW x, NEW act, Windowed(x, act)
  PROVE  /\ Term(k, x, act) = kernel[Total(Squares(x, act, center[k - 1]))]
         /\ Term(k, x, act) \in Field
<1> DEFINE f == Squares(x, act, center[k - 1])
<1>1. Term(k, x, act) = kernel[Total(f)]
  BY DEF Term, rbf, Squares
<1>2. center[k - 1] \in [0..(DIM - 1) -> Field] /\ kernel \in [Field -> Field]
  BY TermsType DEF Based
<1>3. DOMAIN f = 0..(DIM - 1)
  BY DEF Squares
<1>4. ASSUME NEW d \in 0..(DIM - 1) PROVE f[d] \in Int
  <2> DEFINE a == x[act - d * DELAY] - center[k - 1][d]
  <2>1. a \in Int
    <3> DEFINE b == x[act - d * DELAY]
               c == center[k - 1]
    <3>1. b \in Field /\ c[d] \in Field
      BY <1>2 DEF Windowed
    <3> HIDE DEF b, c
    <3>2. b - c[d] \in Int
      BY <3>1, FieldType
    <3> QED  BY <3>2 DEF b, c
  <2>2. f[d] = a * a
    BY DEF Squares
  <2> HIDE DEF a, f
  <2> QED  BY <2>1, <2>2, TimesType
<1>5. IsFiniteSet(0..(DIM - 1))
  <2>1. 0 \in Int /\ DIM - 1 \in Int
    BY OrderType
  <2> QED  BY <2>1, FS_Interval
<1> HIDE DEF f
<1>6. Total(f) \in Field
  BY <1>3, <1>4, <1>5, TotalSame
<1> QED  BY <1>1, <1>2, <1>6 DEF f

LEMMA TermType ==
  ASSUME Based, NEW k \in Terms, NEW x, NEW act, Windowed(x, act)
  PROVE  Term(k, x, act) \in Field /\ Term(k, x, act) \in Int
<1>1. CASE method = "Polynom"
  <2>1. ExponentsOf(k) \in Monomials /\ Term(k, x, act) = Product(x, act, ExponentsOf(k))
    BY <1>1, PolynomTerm
  <2>2. Factors(x, act, ExponentsOf(k))
    BY <2>1, WindowFactors
  <2> QED  BY <2>1, <2>2, ProductType
<1>2. CASE method = "RBF" /\ k = 0
  <2>1. 1 \in Field /\ 1 \in Int
    BY ModulusType DEF Field
  <2> QED  BY <1>2, <2>1 DEF Term
<1>3. CASE method = "RBF" /\ k # 0
  BY <1>3, KernelTerm, FieldType
<1> QED  BY <1>1, <1>2, <1>3 DEF Based

(* A term depends on the values before it only. *)
LEMMA TermLocal ==
  ASSUME Based, NEW k \in Terms, NEW x, NEW act, NEW y, NEW bct,
         Windowed(x, act), SameWindow(x, act, y, bct)
  PROVE  Term(k, x, act) = Term(k, y, bct)
<1>1. CASE method = "Polynom"
  <2> DEFINE m == ExponentsOf(k)
  <2>1. m \in Monomials /\ Term(k, x, act) = Product(x, act, m) /\ Term(k, y, bct) = Product(y, bct, m)
    BY <1>1, PolynomTerm
  <2> HIDE DEF m
  <2>2. Factors(x, act, m)
    BY <2>1, WindowFactors
  <2>3. Product(x, act, m) = Product(y, bct, m)
    BY <2>2, ProductLocal DEF SameWindow
  <2> QED  BY <2>1, <2>3
<1>2. CASE method = "RBF" /\ k = 0
  BY <1>2 DEF Term
<1>3. CASE method = "RBF" /\ k # 0
  <2>1. Squares(x, act, center[k - 1]) = Squares(y, bct, center[k - 1])
    BY DEF Squares, SameWindow
  <2>2. /\ Term(k, x, act) = kernel[Total(Squares(x, act, center[k - 1]))]
        /\ Term(k, y, bct) = kernel[Total(Squares(y, bct, center[k - 1]))]
    BY <1>3 DEF Term, rbf, Squares
  <2> QED  BY <2>1, <2>2
<1> QED  BY <1>1, <1>2, <1>3 DEF Based

-----------------------------------------------------------------------------
(* What is cast.                                                            *)

TermsOf(x, act) == [k \in Terms |-> Term(k, x, act)]

LEMMA CastedMeans ==
  ASSUME Based, vec \in [Terms -> Field], NEW x, NEW act, Windowed(x, act)
  PROVE  /\ Casted(x, act) \in Field /\ Casted(x, act) \in Int
         /\ Combined(Terms, vec, TermsOf(x, act)) \in Int
         /\ Same(Casted(x, act), Combined(Terms, vec, TermsOf(x, act)))
<1> DEFINE u == TermsOf(x, act)
           f == [k \in Terms |-> vec[k] * u[k]]
<1>1. IsFiniteSet(Terms)
  BY TermsType
<1>2. \A k \in Terms : vec[k] \in Int /\ u[k] \in Int /\ u[k] = Term(k, x, act)
  BY TermType, FieldType DEF TermsOf
<1>3. Casted(x, act) = Total(f)
  <2>1. [k \in Terms |-> results[k] * Term(k, x, act)] = f
    <3> HIDE DEF u
    <3> QED  BY <1>2 DEF results
  <2> HIDE DEF f
  <2> QED  BY <2>1 DEF Casted
<1>4. Combined(Terms, vec, u) = SumFunctionOnSet(f, Terms)
  <2> HIDE DEF u
  <2> QED  BY DEF Combined
<1>5. DOMAIN f = Terms /\ \A k \in Terms : f[k] \in Int
  <2> HIDE DEF u
  <2> QED  BY <1>2, TimesType
<1> HIDE DEF f, u
<1>6. /\ Total(f) \in Field /\ Total(f) \in Int /\ SumFunctionOnSet(f, Terms) \in Int
      /\ Same(Total(f), SumFunctionOnSet(f, Terms))
  BY <1>1, <1>5, TotalSame
<1> QED  BY <1>3, <1>4, <1>6 DEF u

LEMMA CastedLocal ==
  ASSUME Based, NEW x, NEW act, NEW y, NEW bct, Windowed(x, act), SameWindow(x, act, y, bct)
  PROVE  Casted(x, act) = Casted(y, bct)
<1>1. \A k \in Terms : Term(k, x, act) = Term(k, y, bct)
  BY TermLocal
<1>2. [k \in Terms |-> results[k] * Term(k, x, act)] = [k \in Terms |-> results[k] * Term(k, y, bct)]
  BY <1>1
<1> QED  BY <1>2 DEF Casted

-----------------------------------------------------------------------------
(* The invariant of the regressions.                                        *)

NextValues == [act \in Rows |-> series[act + 1]]

RowTerms == [act \in Rows |-> TermsOf(series, act)]

(* Coefficients that satisfy the normal equations. *)
Wanted(c) == IsNormal(Terms, Rows, NextValues, RowTerms, c)

ForecastTypes ==
  /\ step \in {"start", "drift", "fit", "solve", "cast", "exited"}
  /\ method \in {"Polynom", "RBF"}
  /\ history \in [Positions -> Field]
  /\ method = "Polynom" => law \in Laws /\ Follows(history, law, Span + 1, LENGTH - 1)
  /\ coding \in {<<>>, make_codingPOLYNOM}
  /\ step # "cast" => PREDICTION = <<>>
  /\ step \in {"start", "drift", "fit"} => column = 0

Rescaled ==
  /\ scale \in NonZero /\ offset \in Field
  /\ series \in [Positions -> Field]
  /\ \A n \in Positions : series[n] = Over(history[n] - offset, scale)
  /\ method = "Polynom" => offset = 0

Drifting == method = "RBF" /\ center \in [Centers -> [0..(DIM - 1) -> Field]]

(* The equations have the solutions they had when they were made.           *)
Solving ==
  /\ column \in 0..LastRow
  /\ mat \in [Terms -> [Terms -> Field]] /\ vec \in [Terms -> Field]
  /\ Cleared(LastRow, mat, column)
  /\ \A c \in [Terms -> Field] : Solves(Terms, mat, vec, c) <=> Wanted(c)

(* The only coefficients that satisfy them, and the window that is cast from. *)
Casting ==
  /\ vec \in [Terms -> Field] /\ Wanted(vec)
  /\ \A c \in [Terms -> Field] : Wanted(c) => c = vec
  /\ PREDICTION \in Seq(Field)
  /\ cast \in [0..Span -> Field]
  /\ \A k \in 0..Span : cast[k] = Continued[LENGTH - 1 - Span + Len(PREDICTION) + k]
  /\ CastsFollow

ForecastIInv ==
  /\ ForecastTypes
  /\ step \in {"drift", "fit", "solve", "cast"} => Rescaled
  /\ step = "drift" => Drifting
  /\ step \in {"fit", "solve", "cast"} => Based
  /\ step = "solve" => Solving
  /\ step = "cast" /\ Finite => Casting

LEMMA ForecastInitial == ForecastInit => ForecastIInv
<1> SUFFICES ASSUME ForecastInit PROVE ForecastIInv
  OBVIOUS
<1>1. method \in {"Polynom", "RBF"} /\ history \in [Positions -> Field]
      /\ (method = "Polynom" => law \in Laws /\ Follows(history, law, Span + 1, LENGTH - 1))
  <2>1. CASE method = "RBF" /\ history \in Histories
    BY <2>1, ForecastAssumption DEF Positions
  <2>2. CASE /\ method = "Polynom" /\ law \in Laws /\ history \in SeriesOf[law]
             /\ Follows(history, law, Span + 1, LENGTH - 1)
    <3>1. SeriesOf[law] \in SUBSET [0..(LENGTH - 1) -> Field]
      BY <2>2, ForecastAssumption
    <3> QED  BY <2>2, <3>1 DEF Positions
  <2> QED  BY <2>1, <2>2 DEF ForecastInit
<1>2. ForecastTypes
  BY <1>1 DEF ForecastInit, ForecastTypes
<1> QED  BY <1>2 DEF ForecastInit, ForecastIInv

(* The basis and the series stay, and so what satisfies the equations.      *)
LEMMA BasisKept ==
  ASSUME UNCHANGED <<method, coding, center, kernel>>
  PROVE  Terms' = Terms /\ LastRow' = LastRow /\ (Based' <=> Based)
<1>1. Terms' = Terms
  BY DEF Terms
<1>2. LastRow' = LastRow
  BY <1>1 DEF LastRow
<1> QED  BY <1>1, <1>2 DEF Based

LEMMA EquationsKept ==
  ASSUME UNCHANGED <<method, coding, center, kernel, series>>
  PROVE  /\ NextValues' = NextValues /\ RowTerms' = RowTerms
         /\ \A c : Wanted(c)' <=> Wanted(c)
<1>1. Terms' = Terms
  BY BasisKept
<1>2. NextValues' = NextValues
  BY DEF NextValues
<1>3. RowTerms' = RowTerms
  BY <1>1 DEF RowTerms, TermsOf, Term, polynom, rbf
<1>4. ASSUME NEW c PROVE Wanted(c)' <=> Wanted(c)
  BY <1>1, <1>2, <1>3 DEF Wanted
<1> QED  BY <1>2, <1>3, <1>4

LEMMA RescaledKept ==
  ASSUME Rescaled, UNCHANGED <<method, history, scale, offset, series>>
  PROVE  Rescaled'
BY DEF Rescaled

-----------------------------------------------------------------------------
(* The steps before the fit.                                                *)

LEMMA ScaleType ==
  ASSUME history \in [Positions -> Field], NEW s \in Scales, NEW o \in Field, rescale_data(s, o),
         method = "Polynom" => o = 0, UNCHANGED <<method, history>>
  PROVE  Rescaled'
<1>1. s \in NonZero
  BY ForecastAssumption DEF NonZero
<1>2. DOMAIN history = Positions
  OBVIOUS
<1>3. ASSUME NEW n \in Positions PROVE Over(history[n] - o, s) \in Field
  <2>1. history[n] - o \in Int
    BY FieldType
  <2> QED  BY <1>1, <2>1, OverMeans
<1>4. series' = [n \in Positions |-> Over(history[n] - o, s)] /\ scale' = s /\ offset' = o
  BY <1>2 DEF rescale_data
<1>5. series' \in [Positions -> Field] /\ \A n \in Positions : series'[n] = Over(history[n] - o, s)
  BY <1>3, <1>4
<1> QED  BY <1>1, <1>4, <1>5 DEF Rescaled

LEMMA CenterInside ==
  ASSUME NEW ct \in Centers, NEW d \in 0..(DIM - 1)
  PROVE  CenterAt(ct, d) \in Positions
<1> DEFINE e == d * DELAY
           w == LENGTH - 1 - Span
           c == Cardinality(Centers) - 1
           q == (ct * w) \div c
<1>1. e \in Nat /\ e <= Span /\ Span \in Nat /\ LENGTH \in Nat /\ w \in Nat \ {0}
  BY SpanCovers
<1>2. c \in Nat \ {0} /\ ct \in Nat /\ ct <= c
  BY CentersType
<1>3. CenterAt(ct, d) = Span - e + q
  BY DEF CenterAt
<1> HIDE DEF c, w, e
<1>4. ct * w \in Nat /\ w * ct = ct * w /\ w * c = c * w /\ c * w \in Nat
  BY <1>1, <1>2
<1>5. q \in Nat /\ c * q <= ct * w
  BY <1>2, <1>4, QuotientRounds
<1> HIDE DEF q
<1>6. ct * w <= c * w
  <2>1. CASE ct = c
    BY <1>4, <2>1
  <2>2. CASE ct # c
    <3>1. w * ct + w <= w * c
      BY <1>1, <1>2, <2>2, TimesMonotone
    <3> QED  BY <1>1, <1>4, <3>1
  <2> QED  BY <2>1, <2>2
<1>7. q <= w
  <2> SUFFICES ASSUME w < q PROVE FALSE
    BY <1>1, <1>5
  <2>1. c * w + c <= c * q
    BY <1>1, <1>2, <1>5, TimesMonotone
  <2>2. c * q \in Nat
    BY <1>2, <1>5
  <2> QED  BY <1>2, <1>4, <1>5, <1>6, <2>1, <2>2
<1> QED  BY <1>1, <1>3, <1>5, <1>7 DEF w, Positions

LEMMA ZeroVarianceStep == ForecastIInv /\ ZeroVariance => ForecastIInv'
<1> SUFFICES ASSUME ForecastIInv, ZeroVariance PROVE ForecastIInv'
  OBVIOUS
<1>1. ForecastTypes'
  BY DEF ForecastIInv, ForecastTypes, ZeroVariance, input, scaled, basis, equations
<1> QED  BY <1>1 DEF ForecastIInv, ZeroVariance

LEMMA RunPolynomStep == ForecastIInv /\ runPolynom => ForecastIInv'
<1> SUFFICES ASSUME ForecastIInv, runPolynom PROVE ForecastIInv'
  OBVIOUS
<1>1. /\ step = "start" /\ method = "Polynom" /\ step' = "fit" /\ coding' = make_codingPOLYNOM
      /\ UNCHANGED <<method, law, history, center, kernel, mat, vec, column, cast, PREDICTION>>
  BY DEF runPolynom, input, equations
<1>2. ForecastTypes'
  BY <1>1 DEF ForecastIInv, ForecastTypes
<1>3. Rescaled'
  <2>1. PICK s \in Scales : rescale_data(s, 0)
    BY DEF runPolynom
  <2>2. history \in [Positions -> Field]
    BY DEF ForecastIInv, ForecastTypes
  <2>3. 0 \in Field
    BY ModulusType DEF Field
  <2> DEFINE o == 0
  <2>4. rescale_data(s, o) /\ o \in Field /\ o = 0
    BY <2>1, <2>3
  <2> HIDE DEF o
  <2> QED  BY <1>1, <2>2, <2>4, ScaleType
<1>4. Based'
  BY <1>1 DEF Based
<1> QED  BY <1>1, <1>2, <1>3, <1>4 DEF ForecastIInv

LEMMA RunRBFStep == ForecastIInv /\ runRBF => ForecastIInv'
<1> SUFFICES ASSUME ForecastIInv, runRBF PROVE ForecastIInv'
  OBVIOUS
<1>1. /\ step = "start" /\ method = "RBF" /\ step' = "drift"
      /\ center' = [ct \in Centers |-> [d \in 0..(DIM - 1) |-> series'[CenterAt(ct, d)]]]
      /\ UNCHANGED <<method, law, history, coding, kernel, mat, vec, column, cast, PREDICTION>>
  BY DEF runRBF, input, equations
<1>2. ForecastTypes'
  BY <1>1 DEF ForecastIInv, ForecastTypes
<1>3. Rescaled'
  <2>1. PICK s \in Scales, o \in Offsets : rescale_data(s, o)
    BY DEF runRBF
  <2>2. history \in [Positions -> Field]
    BY DEF ForecastIInv, ForecastTypes
  <2>3. o \in Field
    BY ForecastAssumption
  <2> QED  BY <1>1, <2>1, <2>2, <2>3, ScaleType
<1>4. Drifting'
  <2>1. \A n \in Positions : series'[n] \in Field
    BY <1>3 DEF Rescaled
  <2>2. center' \in [Centers -> [0..(DIM - 1) -> Field]]
    BY <1>1, <2>1, CenterInside
  <2> QED  BY <1>1, <2>2 DEF Drifting
<1> QED  BY <1>1, <1>2, <1>3, <1>4 DEF ForecastIInv

LEMMA DriftStep == ForecastIInv /\ driftRBF => ForecastIInv'
<1> SUFFICES ASSUME ForecastIInv, driftRBF PROVE ForecastIInv'
  OBVIOUS
<1>1. /\ step = "drift" /\ step' = "fit" /\ kernel' \in Kernels
      /\ UNCHANGED <<method, law, history, scale, offset, series, coding, mat, vec, column, cast,
                     PREDICTION>>
  BY DEF driftRBF, input, scaled, equations
<1>2. PICK h1 \in Drifts :
        center' = [ct \in Centers |-> [d \in 0..(DIM - 1) |-> (center[ct][d] + h1[ct]) % P]]
  BY DEF driftRBF
<1>3. Drifting /\ Rescaled
  BY <1>1 DEF ForecastIInv
<1>4. ForecastTypes'
  BY <1>1 DEF ForecastIInv, ForecastTypes
<1>5. Rescaled'
  BY <1>1, <1>3, RescaledKept
<1>6. ASSUME NEW ct \in Centers, NEW d \in 0..(DIM - 1)
      PROVE  (center[ct][d] + h1[ct]) % P \in Field
  <2> DEFINE a == center[ct][d]
             b == h1[ct]
  <2>1. a \in Field
    BY <1>3 DEF Drifting
  <2>2. b \in Field
    <3>1. h1 \in [0..(CENTER - 1) -> Field] /\ CENTER \in Nat
      BY ForecastAssumption
    <3>2. ct \in 0..(CENTER - 1)
      BY <3>1, SpanCovers DEF Centers
    <3> QED  BY <3>1, <3>2
  <2> HIDE DEF a, b
  <2>3. a + b \in Int
    BY <2>1, <2>2, FieldType
  <2>4. (a + b) % P \in Field
    BY <2>3, RemainderSame
  <2> QED  BY <2>4 DEF a, b
<1>7. center' \in [Centers -> [0..(DIM - 1) -> Field]]
  BY <1>2, <1>6
<1>8. kernel' \in [Field -> Field]
  BY <1>1, ForecastAssumption
<1>9. Based'
  BY <1>1, <1>3, <1>7, <1>8 DEF Based, Drifting
<1> QED  BY <1>1, <1>4, <1>5, <1>9 DEF ForecastIInv

-----------------------------------------------------------------------------
(* The equations are made.                                                  *)

LEMMA RowTermsType ==
  ASSUME Based, Rescaled
  PROVE  /\ IsFiniteSet(Terms) /\ IsFiniteSet(Rows)
         /\ \A act \in Rows : /\ Windowed(series, act)
                              /\ NextValues[act] = series[act + 1] /\ NextValues[act] \in Int
                              /\ RowTerms[act] = TermsOf(series, act)
                              /\ \A k \in Terms : /\ RowTerms[act][k] = Term(k, series, act)
                                                  /\ RowTerms[act][k] \in Field
                                                  /\ RowTerms[act][k] \in Int
<1>1. \A n \in Positions : series[n] \in Field
  BY DEF Rescaled
<1>2. ASSUME NEW act \in Rows PROVE Windowed(series, act) /\ series[act + 1] \in Int
  BY <1>1, RowsType, FieldType
<1>3. ASSUME NEW act \in Rows, NEW k \in Terms
      PROVE  /\ RowTerms[act][k] = Term(k, series, act)
             /\ RowTerms[act][k] \in Field /\ RowTerms[act][k] \in Int
  <2>1. RowTerms[act][k] = Term(k, series, act)
    BY DEF RowTerms, TermsOf
  <2>2. Term(k, series, act) \in Field /\ Term(k, series, act) \in Int
    BY <1>2, TermType
  <2> QED  BY <2>1, <2>2
<1>4. \A act \in Rows : NextValues[act] = series[act + 1] /\ RowTerms[act] = TermsOf(series, act)
  BY DEF NextValues, RowTerms
<1> QED  BY <1>2, <1>3, <1>4, RowsType, TermsType

LEMMA FitStep ==
  ASSUME ForecastIInv, step = "fit", Equations(RowTerms), step' = "solve",
         UNCHANGED <<input, scaled, basis, column, cast, PREDICTION>>
  PROVE  ForecastIInv'
<1>1. /\ ForecastTypes /\ Rescaled /\ Based
      /\ UNCHANGED <<method, law, history, scale, offset, series, coding, center, kernel, column,
                     cast, PREDICTION>>
  BY DEF ForecastIInv, input, scaled, basis
<1>2. ForecastTypes' /\ Rescaled'
  BY <1>1, RescaledKept DEF ForecastTypes
<1>3. Terms' = Terms /\ LastRow' = LastRow /\ Based' /\ \A c : Wanted(c)' <=> Wanted(c)
  BY <1>1, BasisKept, EquationsKept
<1> DEFINE T == Terms
           R == Rows
           n == Cardinality(Rows) % P
           next == NextValues
           terms == RowTerms
           m == mat'
           v == vec'
<1>4. /\ mat' = [t \in T |-> [k \in T |-> Over(Total([act \in R |-> terms[act][t] * terms[act][k]]), n)]]
      /\ vec' = [t \in T |-> Over(Total([act \in R |-> series[act + 1] * terms[act][t]]), n)]
  BY DEF Equations
<1>5. \A act \in R : next[act] = series[act + 1]
  BY DEF NextValues
<1>6. /\ \A t \in T : /\ v[t] = Over(Total([act \in R |-> next[act] * terms[act][t]]), n)
                      /\ \A k \in T : m[t][k] =
                           Over(Total([act \in R |-> terms[act][t] * terms[act][k]]), n)
      /\ m = [t \in T |-> [k \in T |-> m[t][k]]] /\ v = [t \in T |-> v[t]]
  <2> HIDE DEF T, R, n, next, terms
  <2>1. ASSUME NEW t \in T
        PROVE  [act \in R |-> series[act + 1] * terms[act][t]] = [act \in R |-> next[act] * terms[act][t]]
    BY <1>5
  <2> QED  BY <1>4, <2>1
<1>7. /\ IsFiniteSet(T) /\ IsFiniteSet(R) /\ n \in NonZero
      /\ \A act \in R : next[act] \in Int /\ \A k \in T : terms[act][k] \in Int
  BY <1>1, RowTermsType, RowsType
<1> HIDE DEF T, R, n, next, terms, m, v
<1>8. ASSUME NEW c \in [T -> Field]
      PROVE  /\ \A t \in T : v[t] \in Field /\ \A k \in T : m[t][k] \in Field
             /\ Solves(T, m, v, c) <=> IsNormal(T, R, next, terms, c)
  <2>1. \A k \in T : c[k] \in Int
    BY FieldType
  <2>2. \A t \in T : /\ v[t] = Over(Total([act \in R |-> next[act] * terms[act][t]]), n)
                     /\ \A k \in T : m[t][k] =
                          Over(Total([act \in R |-> terms[act][t] * terms[act][k]]), n)
    BY <1>6
  <2> QED  BY ONLY <1>7, <2>1, <2>2, FitMeans
<1>9. m \in [T -> [T -> Field]] /\ v \in [T -> Field]
  <2>1. 0 \in Field
    BY ModulusType DEF Field
  <2>2. [t \in T |-> 0] \in [T -> Field]
    BY <2>1
  <2> QED  BY <1>6, <1>8, <2>2
<1>10. Solving'
  <2>1. column' \in 0..LastRow /\ column' = 0
    BY <1>1, TermsType DEF ForecastIInv, ForecastTypes
  <2>2. Cleared(LastRow, mat', column')
    BY <2>1 DEF Cleared
  <2>3. \A c \in [Terms -> Field] : Solves(Terms, mat', vec', c) <=> Wanted(c)
    BY <1>8 DEF Wanted, T, R, next, terms, m, v
  <2>4. mat' \in [Terms -> [Terms -> Field]] /\ vec' \in [Terms -> Field]
    BY <1>9 DEF T, m, v
  <2> QED  BY <1>3, <2>1, <2>2, <2>3, <2>4 DEF Solving
<1> QED  BY <1>2, <1>3, <1>10 DEF ForecastIInv

LEMMA FitPolynomStep == ForecastIInv /\ make_fitPOLYNOM => ForecastIInv'
<1> SUFFICES ASSUME ForecastIInv, make_fitPOLYNOM PROVE ForecastIInv'
  OBVIOUS
<1>1. RowTerms = [act \in Rows |-> [k \in Terms |-> polynom(series, act, coding[k + 1])]]
  <2>1. method = "Polynom"
    BY DEF make_fitPOLYNOM
  <2> QED  BY <2>1 DEF RowTerms, TermsOf, Term
<1>2. Equations(RowTerms)
  BY <1>1 DEF make_fitPOLYNOM
<1> QED  BY <1>2, FitStep DEF make_fitPOLYNOM

LEMMA FitRBFStep == ForecastIInv /\ make_fitRBF => ForecastIInv'
<1> SUFFICES ASSUME ForecastIInv, make_fitRBF PROVE ForecastIInv'
  OBVIOUS
<1>1. RowTerms = [act \in Rows |-> [k \in Terms |->
                   IF k = 0 THEN 1 ELSE rbf(series, act, center[k - 1])]]
  <2>1. method # "Polynom"
    BY DEF make_fitRBF
  <2> QED  BY <2>1 DEF RowTerms, TermsOf, Term
<1>2. Equations(RowTerms)
  BY <1>1 DEF make_fitRBF
<1> QED  BY <1>2, FitStep DEF make_fitRBF

-----------------------------------------------------------------------------
(* The equations are solved.                                                *)

LEMMA SingularStep == ForecastIInv /\ Singular => ForecastIInv'
<1> SUFFICES ASSUME ForecastIInv, Singular PROVE ForecastIInv'
  OBVIOUS
<1>1. ForecastTypes'
  BY DEF ForecastIInv, ForecastTypes, Singular, input, scaled, basis, equations
<1> QED  BY <1>1 DEF ForecastIInv, Singular

(* The row taken for a column has its largest entry. *)
LEMMA PivotTaken ==
  ASSUME Based, Solving
  PROVE  maxi \in column..LastRow
<1> DEFINE f == [k \in column..LastRow |-> fabs(mat[k][column])]
<1>1. LastRow \in Nat /\ Terms = 0..LastRow /\ column \in 0..LastRow
  BY TermsType DEF Solving
<1>2. ASSUME NEW k \in column..LastRow PROVE f[k] \in Int /\ f[k] = fabs(mat[k][column])
  <2>1. k \in Terms /\ column \in Terms
    BY <1>1
  <2>2. mat[k][column] \in Int
    BY <2>1, FieldType DEF Solving
  <2> QED  BY <2>2, ModulusType DEF fabs
<1> HIDE DEF f
<1>3. column \in Nat /\ column <= LastRow
  BY <1>1
<1>4. \E t \in column..LastRow : \A k \in column..LastRow : f[k] <= f[t] /\ (k < t => f[k] < f[t])
  BY <1>1, <1>2, <1>3, FirstLargest
<1>5. PICK t \in column..LastRow : \A k \in column..LastRow : f[k] <= f[t] /\ (k < t => f[k] < f[t])
  BY <1>4
<1>6. \A k \in column..LastRow :
        /\ fabs(mat[k][column]) <= fabs(mat[t][column])
        /\ k < t => fabs(mat[k][column]) < fabs(mat[t][column])
  BY <1>2, <1>5
<1> QED  BY <1>6 DEF maxi

LEMMA SwapTypes ==
  ASSUME NEW T, NEW S, NEW f \in [T -> S], column \in T, maxi \in T
  PROVE  Swap(f) \in [T -> S] /\ Swapped(f, Swap(f), column, maxi, T)
BY DEF Swap, Swapped

LEMMA EliminateStep == ForecastIInv /\ Eliminate => ForecastIInv'
<1> SUFFICES ASSUME ForecastIInv, Eliminate PROVE ForecastIInv'
  OBVIOUS
<1> DEFINE last == LastRow
           T == Terms
           col == column
           r == maxi
           m == Swap(mat)
           v == Swap(vec)
           q == [t \in Terms |-> Over(P - m[t][col], m[col][col])]
           n == mat'
           w == vec'
<1>1. /\ ForecastTypes /\ Rescaled /\ Based /\ Solving
      /\ step = "solve" /\ step' = step /\ col < last /\ mat[r][col] # 0 /\ column' = col + 1
      /\ UNCHANGED <<method, law, history, scale, offset, series, coding, center, kernel,
                     cast, PREDICTION>>
  BY DEF ForecastIInv, Eliminate, input, scaled, basis
<1>2. ForecastTypes' /\ Rescaled'
  BY <1>1, RescaledKept DEF ForecastTypes
<1>3. Terms' = T /\ LastRow' = last /\ Based' /\ \A c : Wanted(c)' <=> Wanted(c)
  BY <1>1, BasisKept, EquationsKept
<1>4. last \in Nat /\ T = 0..last /\ col \in 0..last /\ col \in T /\ r \in col..last /\ r \in T
  <2>1. last \in Nat /\ T = 0..last /\ col \in 0..last
    BY <1>1, TermsType DEF Solving
  <2>2. r \in col..last
    BY <1>1, PivotTaken
  <2> QED  BY <2>1, <2>2
<1>5. mat \in [T -> [T -> Field]] /\ vec \in [T -> Field] /\ Cleared(last, mat, col)
      /\ \A c \in [T -> Field] : Solves(T, mat, vec, c) <=> Wanted(c)
  BY <1>1 DEF Solving
<1>6. m \in [T -> [T -> Field]] /\ Swapped(mat, m, col, r, T)
  BY <1>4, <1>5, SwapTypes
<1>7. v \in [T -> Field] /\ Swapped(vec, v, col, r, T)
  BY <1>4, <1>5, SwapTypes
<1>8. /\ n = [t \in T |-> IF t <= col THEN m[t] ELSE
                [k \in T |-> (m[t][k] + Over(P - m[t][col], m[col][col]) * m[col][k]) % P]]
      /\ w = [t \in T |-> IF t <= col THEN v[t]
                ELSE (v[t] + Over(P - m[t][col], m[col][col]) * v[col]) % P]
  BY DEF Eliminate
<1>9. \A t \in T : q[t] = Over(P - m[t][col], m[col][col])
  OBVIOUS
<1> HIDE DEF last, T, col, r, m, v, q, n, w
<1>10. /\ n = [t \in T |-> n[t]] /\ w = [t \in T |-> w[t]]
       /\ \A t \in T : IF t <= col THEN w[t] = v[t] /\ n[t] = m[t]
            ELSE w[t] = (v[t] + q[t] * v[col]) % P
                 /\ n[t] = [k \in T |-> (m[t][k] + q[t] * m[col][k]) % P]
  BY <1>8, <1>9
<1>11. Reduced(last, col, q, m, v, n, w)
  BY <1>4, <1>10 DEF Reduced
<1>12. m[col] = mat[r]
  BY <1>6 DEF Swapped
<1>13. m[col][col] # 0
  BY <1>1, <1>12 DEF col, r
<1>14. Cleared(last, m, col)
  BY <1>4, <1>5, <1>6, SwapCleared
<1>15. /\ n \in [T -> [T -> Field]] /\ w \in [T -> Field] /\ Cleared(last, n, col + 1)
       /\ \A c \in [T -> Field] : Solves(T, n, w, c) <=> Solves(T, m, v, c)
  <2>1. /\ last \in Nat /\ col \in 0..last /\ m \in [0..last -> [0..last -> Field]]
        /\ v \in [0..last -> Field]
        /\ Quotients(last, col, q, m)
        /\ IsOn(n, 0..last) /\ IsOn(w, 0..last)
    BY <1>4, <1>6, <1>7, <1>9, <1>10 DEF IsOn, Quotients
  <2>2. /\ n \in [0..last -> [0..last -> Field]] /\ w \in [0..last -> Field]
        /\ Cleared(last, n, col + 1)
        /\ SameSolutions(0..last, n, w, m, v)
    BY ONLY <1>11, <1>13, <1>14, <2>1, RowReduced
  <2> QED  BY <1>4, <2>2 DEF SameSolutions
<1>16. ASSUME NEW c \in [T -> Field] PROVE Solves(T, m, v, c) <=> Solves(T, mat, vec, c)
  <2> DEFINE a == mat
             b == vec
  <2>1. Swapped(a, m, col, r, T) /\ Swapped(b, v, col, r, T)
    BY <1>6, <1>7
  <2>2. Solves(T, m, v, c) <=> Solves(T, a, b, c)
    <3> HIDE DEF a, b
    <3> QED  BY <1>4, <2>1, RowsSwapped
  <2> QED  BY <2>2
<1>17. Solving'
  <2>1. \A c \in [T -> Field] : Solves(T, n, w, c) <=> Wanted(c)
    BY <1>5, <1>15, <1>16
  <2>2. column' \in 0..last /\ column' = col + 1
    BY <1>1, <1>4 DEF last, col
  <2>3. /\ column' \in 0..LastRow' /\ mat' \in [Terms' -> [Terms' -> Field]] /\ vec' \in [Terms' -> Field]
        /\ Cleared(LastRow', mat', column')
        /\ \A c \in [Terms' -> Field] : Solves(Terms', mat', vec', c) <=> Wanted(c)'
    BY <1>3, <1>15, <2>1, <2>2 DEF n, w
  <2> QED  BY <2>3 DEF Solving
<1>18. step' = "solve"
  BY <1>1
<1> QED  BY <1>2, <1>3, <1>17, <1>18 DEF ForecastIInv

LEMMA SolutionIs ==
  ASSUME Based, Solving, column = LastRow, mat[LastRow][LastRow] # 0
  PROVE  /\ Triangle(LastRow, mat)
         /\ Solution \in [Terms -> Field] /\ Substituted(LastRow, mat, vec, Solution)
<1> DEFINE last == LastRow
           m == mat
           v == vec
           Rule(x) == x = [t \in Terms |->
                        Over(v[t] - Total([k \in (t + 1)..last |-> m[t][k] * x[k]]), m[t][t])]
           x == CHOOSE z : Rule(z)
<1>1. last \in Nat /\ Terms = 0..last /\ m \in [0..last -> [0..last -> Field]] /\ v \in [0..last -> Field]
      /\ Cleared(last, m, last) /\ m[last][last] # 0
  BY TermsType DEF Solving
<1>2. Solution = x
  BY DEF Solution
<1> HIDE DEF last, m, v
<1>3. Triangle(last, m)
  <2> SUFFICES ASSUME NEW k \in 0..last
               PROVE  m[k][k] # 0 /\ \A t \in 0..last : t > k => m[t][k] = 0
    BY DEF Triangle
  <2>1. CASE k < last
    BY <1>1, <2>1 DEF Cleared
  <2>2. CASE ~(k < last)
    <3>1. k = last
      BY <1>1, <2>2
    <3>2. \A t \in 0..last : ~(t > k)
      BY <1>1, <3>1
    <3> QED  BY <1>1, <3>1, <3>2
  <2> QED  BY <2>1, <2>2
<1>4. PICK y \in [0..last -> Field] : Substituted(last, m, v, y)
  BY <1>1, <1>3, SubstitutedExists
<1>5. Rule(y)
  <2>1. \A t \in 0..last :
          y[t] = Over(v[t] - Total([k \in (t + 1)..last |-> m[t][k] * y[k]]), m[t][t])
    BY <1>4 DEF Substituted, Right
  <2>2. y = [t \in Terms |-> y[t]]
    BY <1>1
  <2> QED  BY <1>1, <2>1, <2>2
<1>6. Rule(x)
  <2> HIDE DEF Rule
  <2> QED  BY <1>5
<1> HIDE DEF x
<1>7. Substituted(last, m, v, x)
  BY <1>1, <1>6 DEF Substituted, Right
<1>8. \A t \in 0..last : x[t] = y[t]
  BY <1>1, <1>4, <1>7, SubstitutedOnce
<1>9. x = [t \in Terms |-> x[t]]
  BY <1>6
<1>10. x \in [Terms -> Field]
  BY <1>1, <1>8, <1>9
<1> QED  BY <1>2, <1>3, <1>7, <1>10 DEF last, m, v

LEMMA BackSubstituteStep == ForecastIInv /\ BackSubstitute => ForecastIInv'
<1> SUFFICES ASSUME ForecastIInv, BackSubstitute PROVE ForecastIInv'
  OBVIOUS
<1>1. /\ ForecastTypes /\ Rescaled /\ Based /\ Solving /\ PREDICTION = <<>>
      /\ step = "solve" /\ step' = "cast" /\ column = LastRow
      /\ UNCHANGED <<method, law, history, scale, offset, series, coding, center, kernel, mat, column,
                     PREDICTION>>
      /\ vec' = IF mat[LastRow][LastRow] = 0 THEN [k \in Terms |-> NotFinite] ELSE Solution
      /\ cast' = [k \in 0..Span |-> series[LENGTH - Span - 1 + k]]
  BY DEF ForecastIInv, ForecastTypes, BackSubstitute, input, scaled, basis
<1>2. ForecastTypes' /\ Rescaled'
  BY <1>1, RescaledKept DEF ForecastTypes
<1>3. Terms' = Terms /\ LastRow' = LastRow /\ Based' /\ \A c : Wanted(c)' <=> Wanted(c)
  BY <1>1, BasisKept, EquationsKept
<1>4. ASSUME mat[LastRow][LastRow] = 0 PROVE ~Finite'
  <2>1. 0 \in Terms
    BY <1>1, TermsType
  <2> QED  BY <1>1, <1>4, <2>1 DEF Finite, results
<1>5. ASSUME mat[LastRow][LastRow] # 0 PROVE Casting'
  <2>1. /\ Triangle(LastRow, mat) /\ vec' = Solution
        /\ Solution \in [Terms -> Field] /\ Substituted(LastRow, mat, vec, Solution)
    BY <1>1, <1>5, SolutionIs
  <2>2. LastRow \in Nat /\ Terms = 0..LastRow
    BY <1>1, TermsType
  <2>3. /\ mat \in [Terms -> [Terms -> Field]] /\ vec \in [Terms -> Field]
        /\ \A c \in [Terms -> Field] : Solves(Terms, mat, vec, c) <=> Wanted(c)
    BY <1>1 DEF Solving
  <2> DEFINE last == LastRow
             m == mat
             v == vec
             x == Solution
  <2>4. /\ last \in Nat /\ m \in [0..last -> [0..last -> Field]] /\ v \in [0..last -> Field]
        /\ Triangle(last, m) /\ x \in [0..last -> Field] /\ Substituted(last, m, v, x)
    BY <2>1, <2>2, <2>3
  <2>5. Wanted(Solution) /\ \A c \in [Terms -> Field] : Wanted(c) => c = Solution
    <3>1. \A c \in [0..last -> Field] : Solves(0..last, m, v, c) <=> Substituted(last, m, v, c)
      <4> HIDE DEF last, m, v, x
      <4> QED  BY <2>4, SubstitutedSolves
    <3>2. Wanted(x)
      BY <2>1, <2>2, <2>3, <2>4, <3>1
    <3>3. ASSUME NEW c \in [Terms -> Field], Wanted(c) PROVE c = x
      <4>1. Substituted(last, m, v, c) /\ c \in [0..last -> Field]
        BY <2>2, <2>3, <3>1, <3>3
      <4>2. \A t \in 0..last : c[t] = x[t]
        <5> HIDE DEF last, m, v, x
        <5> QED  BY <2>4, <4>1, SubstitutedOnce
      <4> HIDE DEF last, x
      <4> QED  BY <2>4, <4>1, <4>2
    <3> QED  BY <3>2, <3>3
  <2>6. PREDICTION' = <<>> /\ Len(PREDICTION') = 0 /\ PREDICTION' \in Seq(Field)
    BY <1>1
  <2>7. Continued' = [n \in 0..(LENGTH - 1) |-> series[n]]
    <3>1. LENGTH - 1 + Len(PREDICTION') = LENGTH - 1 /\ LENGTH \in Nat
      BY <2>6, SpanCovers
    <3>2. \A n \in 0..(LENGTH - 1) : n < LENGTH
      BY <3>1
    <3> QED  BY <1>1, <3>1, <3>2 DEF Continued
  <2>8. \A k \in 0..Span : /\ LENGTH - Span - 1 + k \in 0..(LENGTH - 1)
                           /\ LENGTH - 1 - Span + 0 + k = LENGTH - Span - 1 + k
    BY SpanCovers
  <2>9. cast' \in [0..Span -> Field]
    BY <1>1, <2>8 DEF Rescaled, Positions
  <2>10. \A k \in 0..Span : cast'[k] = Continued'[LENGTH - 1 - Span + Len(PREDICTION') + k]
    BY <1>1, <2>6, <2>7, <2>8
  <2>11. CastsFollow'
    <3>1. LENGTH..(LENGTH - 1 + Len(PREDICTION')) = {}
      BY <2>6, SpanCovers
    <3> QED  BY <3>1 DEF CastsFollow
  <2>12. Wanted(vec)' /\ \A c \in [Terms' -> Field] : Wanted(c)' => c = vec'
    <3>1. Wanted(vec)' <=> Wanted(Solution)
      BY <1>1, <1>3, <2>1, EquationsKept DEF Wanted
    <3> QED  BY <1>3, <2>1, <2>5, <3>1
  <2>13. vec' \in [Terms' -> Field]
    BY <1>3, <2>1
  <2> QED  BY <2>6, <2>9, <2>10, <2>11, <2>12, <2>13 DEF Casting
<1>6. step' = "cast" /\ Finite' => Casting'
  BY <1>4, <1>5
<1> QED  BY <1>1, <1>2, <1>3, <1>6 DEF ForecastIInv

-----------------------------------------------------------------------------
(* Values are cast.                                                         *)

LEMMA CastsFollowKept ==
  ASSUME UNCHANGED <<method, coding, center, kernel, vec>>
  PROVE  CastsFollow' <=> \A n \in LENGTH..(LENGTH - 1 + Len(PREDICTION')) :
                            Continued'[n] = Casted(Continued', n - 1)
<1>1. Terms' = Terms
  BY BasisKept
<1> QED  BY <1>1 DEF CastsFollow, Casted, results, Term, polynom, rbf

LEMMA ContinuedType ==
  ASSUME Rescaled, PREDICTION \in Seq(Field)
  PROVE  /\ Len(PREDICTION) \in Nat
         /\ Continued \in [0..(LENGTH - 1 + Len(PREDICTION)) -> Field]
         /\ \A n \in LENGTH..(LENGTH + Len(PREDICTION)) : Windowed(Continued, n - 1)
<1> DEFINE L == Len(PREDICTION)
<1>1. L \in Nat /\ LENGTH \in Nat
  BY SpanCovers
<1>2. ASSUME NEW n \in 0..(LENGTH - 1 + L)
      PROVE  (IF n < LENGTH THEN series[n] ELSE Over(PREDICTION[n - LENGTH + 1] - offset, scale)) \in Field
  <2>1. CASE n < LENGTH
    <3>1. n \in Positions
      BY <1>1, <2>1 DEF Positions
    <3> QED  BY <2>1, <3>1 DEF Rescaled
  <2>2. CASE ~(n < LENGTH)
    <3>1. n - LENGTH + 1 \in 1..L
      BY <1>1, <2>2
    <3>2. PREDICTION[n - LENGTH + 1] \in Int /\ offset \in Int /\ scale \in NonZero
      BY <3>1, FieldType DEF Rescaled
    <3>3. PREDICTION[n - LENGTH + 1] - offset \in Int
      BY <3>2
    <3> QED  BY <2>2, <3>2, <3>3, OverMeans
  <2> QED  BY <2>1, <2>2
<1>3. Continued \in [0..(LENGTH - 1 + L) -> Field]
  BY <1>2 DEF Continued
<1>4. ASSUME NEW n \in LENGTH..(LENGTH + L) PROVE Windowed(Continued, n - 1)
  <2>1. ASSUME NEW d \in 0..(DIM - 1) PROVE Continued[(n - 1) - d * DELAY] \in Field
    <3> DEFINE e == d * DELAY
    <3>1. e \in Nat /\ e <= Span /\ LENGTH > Span + 1 /\ Span \in Nat
      BY SpanCovers
    <3> HIDE DEF e
    <3>2. (n - 1) - e \in 0..(LENGTH - 1 + L)
      BY <1>1, <3>1
    <3> QED  BY <1>3, <3>2 DEF e
  <2> QED  BY <2>1 DEF Windowed
<1> QED  BY <1>1, <1>3, <1>4

LEMMA CastStep ==
  ASSUME ForecastIInv, step = "cast", Finite, NEW c, c = Casted(cast, Span),
         PREDICTION' = Append(PREDICTION, (c * scale + offset) % P), cast' = Slid(cast, c),
         UNCHANGED <<step, input, scaled, basis, equations>>
  PROVE  Casting'
<1> DEFINE L == Len(PREDICTION)
           e == (c * scale + offset) % P
<1>1. /\ Rescaled /\ Based /\ Casting
      /\ UNCHANGED <<step, method, law, history, scale, offset, series, coding, center, kernel, vec>>
  BY DEF ForecastIInv, input, scaled, basis, equations
<1>2. Terms' = Terms /\ \A x : Wanted(x)' <=> Wanted(x)
  BY <1>1, BasisKept, EquationsKept
<1>3. /\ vec \in [Terms -> Field] /\ PREDICTION \in Seq(Field) /\ cast \in [0..Span -> Field]
      /\ \A k \in 0..Span : cast[k] = Continued[LENGTH - 1 - Span + L + k]
      /\ CastsFollow
  BY <1>1 DEF Casting
<1>4. /\ L \in Nat /\ LENGTH \in Nat /\ LENGTH > Span + 1 /\ Span \in Nat
      /\ Continued \in [0..(LENGTH - 1 + L) -> Field]
      /\ \A n \in LENGTH..(LENGTH + L) : Windowed(Continued, n - 1)
  BY <1>1, <1>3, ContinuedType, SpanCovers
<1>5. Windowed(cast, Span) /\ SameWindow(cast, Span, Continued, LENGTH - 1 + L)
  <2>1. ASSUME NEW d \in 0..(DIM - 1)
        PROVE  /\ cast[Span - d * DELAY] \in Field
               /\ cast[Span - d * DELAY] = Continued[(LENGTH - 1 + L) - d * DELAY]
    <3> DEFINE b == d * DELAY
    <3>1. b \in Nat /\ b <= Span
      BY SpanCovers
    <3> HIDE DEF b
    <3>2. Span - b \in 0..Span /\ LENGTH - 1 - Span + L + (Span - b) = (LENGTH - 1 + L) - b
      BY <1>4, <3>1
    <3>3. cast[Span - b] = Continued[(LENGTH - 1 + L) - b]
      BY <1>3, <3>2
    <3> QED  BY <1>3, <3>2, <3>3 DEF b
  <2> QED  BY <2>1 DEF Windowed, SameWindow
<1>6. c \in Field /\ c \in Int /\ c = Casted(Continued, LENGTH - 1 + L)
  BY <1>1, <1>3, <1>5, CastedMeans, CastedLocal
<1>7. scale \in NonZero /\ scale \in Int /\ offset \in Field /\ offset \in Int
  BY <1>1, UnitType, FieldType DEF Rescaled
<1>8. e \in Field /\ c = Over(e - offset, scale)
  <2> DEFINE cs == c * scale
             y == cs + offset
  <2>1. cs \in Int /\ y \in Int
    BY <1>6, <1>7, TimesType
  <2> HIDE DEF cs
  <2>2. e = y % P
    BY DEF cs
  <2> HIDE DEF e, y
  <2>3. e \in Field /\ e \in Int /\ Same(e, y)
    BY <2>1, <2>2, RemainderSame
  <2>4. Same(e - offset, y - offset)
    BY <1>7, <2>1, <2>3, SameItself, SameMinus
  <2>5. y - offset = cs
    BY <1>7, <2>1 DEF y
  <2>6. Same(cs, e - offset) /\ e - offset \in Int
    BY <1>7, <2>1, <2>3, <2>4, <2>5, SameBack
  <2> QED  BY <1>6, <1>7, <2>3, <2>6, OverIs DEF cs
<1> HIDE DEF e
<1>9. /\ PREDICTION' = Append(PREDICTION, e) /\ Len(PREDICTION') = L + 1 /\ PREDICTION' \in Seq(Field)
      /\ PREDICTION'[L + 1] = e /\ \A k \in 1..L : PREDICTION'[k] = PREDICTION[k]
  <2>1. PREDICTION' = Append(PREDICTION, e)
    BY DEF e
  <2> QED  BY <1>3, <1>8, <2>1
<1>10. /\ DOMAIN Continued' = 0..(LENGTH + L)
       /\ \A n \in 0..(LENGTH - 1 + L) : Continued'[n] = Continued[n]
       /\ Continued'[LENGTH + L] = c
  <2>1. LENGTH - 1 + (L + 1) = LENGTH + L
    BY <1>4
  <2>2. Continued' = [n \in 0..(LENGTH + L) |->
           IF n < LENGTH THEN series[n] ELSE Over(PREDICTION'[n - LENGTH + 1] - offset, scale)]
    BY <1>1, <1>9, <2>1 DEF Continued
  <2>3. ASSUME NEW n \in 0..(LENGTH - 1 + L) PROVE Continued'[n] = Continued[n]
    <3>1. n \in 0..(LENGTH + L)
      BY <1>4
    <3>2. CASE n < LENGTH
      BY <2>2, <3>1, <3>2 DEF Continued
    <3>3. CASE ~(n < LENGTH)
      <4>1. n - LENGTH + 1 \in 1..L
        BY <1>4, <3>3
      <4>2. PREDICTION'[n - LENGTH + 1] = PREDICTION[n - LENGTH + 1]
        BY <1>9, <4>1
      <4> QED  BY <2>2, <3>1, <3>3, <4>2, ZenonT(60) DEF Continued
    <3> QED  BY <3>2, <3>3
  <2>4. Continued'[LENGTH + L] = c
    <3>1. LENGTH + L \in 0..(LENGTH + L) /\ ~(LENGTH + L < LENGTH) /\ (LENGTH + L) - LENGTH + 1 = L + 1
      BY <1>4
    <3> QED  BY <1>8, <1>9, <2>2, <3>1
  <2> QED  BY <2>2, <2>3, <2>4
<1>11. ASSUME NEW n \in LENGTH..(LENGTH + L)
       PROVE  Casted(Continued, n - 1) = Casted(Continued', n - 1)
  <2> DEFINE y == Continued'
  <2>1. ASSUME NEW d \in 0..(DIM - 1) PROVE Continued[(n - 1) - d * DELAY] = y[(n - 1) - d * DELAY]
    <3> DEFINE b == d * DELAY
    <3>1. b \in Nat /\ b <= Span
      BY SpanCovers
    <3> HIDE DEF b
    <3>2. (n - 1) - b \in 0..(LENGTH - 1 + L)
      BY <1>4, <3>1
    <3> QED  BY <1>10, <3>2 DEF b
  <2>2. SameWindow(Continued, n - 1, y, n - 1) /\ Windowed(Continued, n - 1)
    BY <1>4, <2>1 DEF SameWindow
  <2> HIDE DEF y
  <2>3. Casted(Continued, n - 1) = Casted(y, n - 1)
    BY <1>1, <2>2, CastedLocal
  <2> QED  BY <2>3 DEF y
<1>12. \A n \in LENGTH..(LENGTH - 1 + Len(PREDICTION')) : Continued'[n] = Casted(Continued', n - 1)
  <2> TAKE n \in LENGTH..(LENGTH - 1 + Len(PREDICTION'))
  <2>1. n \in LENGTH..(LENGTH + L)
    BY <1>4, <1>9
  <2>2. Casted(Continued, n - 1) = Casted(Continued', n - 1)
    BY <1>11, <2>1
  <2>3. CASE n = LENGTH + L
    <3>1. n - 1 = LENGTH - 1 + L
      BY <1>4, <2>3
    <3> QED  BY <1>6, <1>10, <2>2, <2>3, <3>1
  <2>4. CASE n # LENGTH + L
    <3>1. n \in LENGTH..(LENGTH - 1 + L) /\ n \in 0..(LENGTH - 1 + L)
      BY <1>4, <2>1, <2>4, SMTT(60)
    <3>2. Continued[n] = Casted(Continued, n - 1)
      BY <1>3, <3>1 DEF CastsFollow
    <3> QED  BY <1>10, <2>2, <3>1, <3>2
  <2> QED  BY <2>3, <2>4
<1>13. CastsFollow'
  BY <1>1, <1>12, CastsFollowKept
<1>14. /\ cast' \in [0..Span -> Field]
       /\ \A k \in 0..Span : cast'[k] = Continued'[LENGTH - 1 - Span + Len(PREDICTION') + k]
  <2>1. cast' = [k \in 0..Span |-> IF k = Span THEN c ELSE cast[k + 1]]
    BY DEF Slid
  <2>2. ASSUME NEW k \in 0..Span
        PROVE  cast'[k] \in Field /\ cast'[k] = Continued'[LENGTH - 1 - Span + Len(PREDICTION') + k]
    <3>1. CASE k = Span
      <4>1. LENGTH - 1 - Span + (L + 1) + k = LENGTH + L
        BY <1>4, <3>1
      <4> QED  BY <1>6, <1>9, <1>10, <2>1, <3>1, <4>1
    <3>2. CASE k # Span
      <4>1. /\ k + 1 \in 0..Span
            /\ LENGTH - 1 - Span + (L + 1) + k = LENGTH - 1 - Span + L + (k + 1)
            /\ LENGTH - 1 - Span + L + (k + 1) \in 0..(LENGTH - 1 + L)
        BY <1>4, <3>2
      <4>2. cast[k + 1] = Continued[LENGTH - 1 - Span + L + (k + 1)] /\ cast[k + 1] \in Field
        BY <1>3, <4>1
      <4>3. cast'[k] = cast[k + 1]
        BY <2>1, <3>2
      <4> QED  BY <1>9, <1>10, <4>1, <4>2, <4>3
    <3> QED  BY <3>1, <3>2
  <2>3. cast' = [k \in 0..Span |-> cast'[k]]
    BY <2>1
  <2> QED  BY <2>2, <2>3
<1>15. Wanted(vec)' /\ \A x \in [Terms' -> Field] : Wanted(x)' => x = vec'
  <2>1. Wanted(vec) /\ \A x \in [Terms -> Field] : Wanted(x) => x = vec
    BY <1>1 DEF Casting
  <2>2. Wanted(vec)' <=> Wanted(vec)
    BY <1>1, <1>2, EquationsKept DEF Wanted
  <2> QED  BY <1>1, <1>2, <2>1, <2>2
<1>16. vec' \in [Terms' -> Field]
  BY <1>1, <1>2, <1>3
<1> QED  BY <1>9, <1>13, <1>14, <1>15, <1>16 DEF Casting

LEMMA CastKept ==
  ASSUME ForecastIInv, step = "cast", UNCHANGED <<step, input, scaled, basis, equations>>,
         Finite => Casting'
  PROVE  ForecastIInv'
<1>1. /\ ForecastTypes /\ Rescaled /\ Based
      /\ UNCHANGED <<step, method, law, history, scale, offset, series, coding, center, kernel, vec,
                     column>>
  BY DEF ForecastIInv, input, scaled, basis, equations
<1>2. ForecastTypes' /\ Rescaled' /\ Based'
  BY <1>1, RescaledKept, BasisKept DEF ForecastTypes
<1>3. Finite' <=> Finite
  BY <1>1 DEF Finite, results
<1>4. step' = "cast" /\ Finite' => Casting'
  BY <1>1, <1>3
<1>5. step' = "cast"
  BY <1>1
<1> QED  BY <1>2, <1>4, <1>5 DEF ForecastIInv

LEMMA CastPolynomStep == ForecastIInv /\ make_castPOLYNOM => ForecastIInv'
<1> SUFFICES ASSUME ForecastIInv, make_castPOLYNOM PROVE ForecastIInv'
  OBVIOUS
<1>1. step = "cast" /\ UNCHANGED <<step, input, scaled, basis, equations>>
  BY DEF make_castPOLYNOM
<1>2. ASSUME Finite PROVE Casting'
  <2> DEFINE c == Casted(cast, Span)
  <2>1. PREDICTION' = Append(PREDICTION, (c * scale) % P) /\ cast' = Slid(cast, c)
    BY <1>2 DEF make_castPOLYNOM
  <2>2. (c * scale) % P = (c * scale + offset) % P
    <3>1. /\ Rescaled /\ Based /\ Casting /\ method = "Polynom"
      BY <1>1, <1>2 DEF ForecastIInv, make_castPOLYNOM
    <3>2. offset = 0 /\ scale \in Int
      BY <3>1, UnitType DEF Rescaled
    <3>3. Windowed(cast, Span)
      <4>1. cast \in [0..Span -> Field]
        BY <3>1 DEF Casting
      <4>2. ASSUME NEW d \in 0..(DIM - 1) PROVE cast[Span - d * DELAY] \in Field
        <5> DEFINE b == d * DELAY
        <5>1. b \in Nat /\ b <= Span /\ Span \in Nat
          BY SpanCovers
        <5> HIDE DEF b
        <5>2. Span - b \in 0..Span
          BY <5>1
        <5> QED  BY <4>1, <5>2 DEF b
      <4> QED  BY <4>2 DEF Windowed
    <3>4. c \in Int
      BY <3>1, <3>3, CastedMeans DEF Casting
    <3> HIDE DEF c
    <3>5. c * scale \in Int
      BY <3>2, <3>4, TimesType
    <3>6. c * scale + offset = c * scale
      BY <3>2, <3>5
    <3> QED  BY <3>6
  <2>3. PREDICTION' = Append(PREDICTION, (c * scale + offset) % P)
    BY <2>1, <2>2
  <2> HIDE DEF c
  <2>4. c = Casted(cast, Span)
    BY DEF c
  <2> QED  BY <1>1, <1>2, <2>1, <2>3, <2>4, CastStep
<1> QED  BY <1>1, <1>2, CastKept

LEMMA CastRBFStep == ForecastIInv /\ make_castRBF => ForecastIInv'
<1> SUFFICES ASSUME ForecastIInv, make_castRBF PROVE ForecastIInv'
  OBVIOUS
<1>1. step = "cast" /\ UNCHANGED <<step, input, scaled, basis, equations>>
  BY DEF make_castRBF
<1>2. ASSUME Finite PROVE Casting'
  <2> DEFINE c == Casted(cast, Span)
  <2>1. PREDICTION' = Append(PREDICTION, (c * scale + offset) % P) /\ cast' = Slid(cast, c)
    BY <1>2 DEF make_castRBF
  <2> HIDE DEF c
  <2>2. c = Casted(cast, Span)
    BY DEF c
  <2> QED  BY <1>1, <1>2, <2>1, <2>2, CastStep
<1> QED  BY <1>1, <1>2, CastKept

LEMMA ForecastStutters == ForecastIInv /\ UNCHANGED forecastVars => ForecastIInv'
<1> SUFFICES ASSUME ForecastIInv, UNCHANGED forecastVars PROVE ForecastIInv'
  OBVIOUS
<1>1. UNCHANGED <<step, method, law, history, scale, offset, series, coding, center, kernel, mat, vec,
                  column, cast, PREDICTION>>
  BY DEF forecastVars, input, scaled, basis, equations
<1>2. Terms' = Terms /\ LastRow' = LastRow /\ (Based' <=> Based) /\ \A c : Wanted(c)' <=> Wanted(c)
  BY <1>1, BasisKept, EquationsKept
<1>3. ForecastTypes' <=> ForecastTypes
  BY <1>1 DEF ForecastTypes
<1>4. Rescaled' <=> Rescaled
  BY <1>1 DEF Rescaled
<1>5. Drifting' <=> Drifting
  BY <1>1 DEF Drifting
<1>6. Solving => Solving'
  BY <1>1, <1>2 DEF Solving
<1>7. Finite' <=> Finite
  BY <1>1 DEF Finite, results
<1>8. Casting => Casting'
  <2>1. Continued' = Continued
    BY <1>1 DEF Continued
  <2>2. CastsFollow' <=> CastsFollow
    BY <1>1, <2>1, CastsFollowKept DEF CastsFollow
  <2>3. Wanted(vec)' <=> Wanted(vec)
    BY <1>1, <1>2, EquationsKept DEF Wanted
  <2> QED  BY <1>1, <1>2, <2>1, <2>2, <2>3 DEF Casting
<1> QED  BY <1>1, <1>2, <1>3, <1>4, <1>5, <1>6, <1>7, <1>8 DEF ForecastIInv

(* From the start of runPolynom and runRBF to the last cast: the series is  *)
(* the given one in its scale; the equations keep the solutions of the      *)
(* normal equations while columns are cleared; back substitution finds the  *)
(* only one; and the window holds the last values and casts.                *)
THEOREM ForecastInvariant == ForecastSpec => []ForecastIInv
<1>1. ForecastIInv /\ [ForecastNext]_forecastVars => ForecastIInv'
  BY ZeroVarianceStep, RunPolynomStep, RunRBFStep, DriftStep, FitPolynomStep, FitRBFStep,
     SingularStep, EliminateStep, BackSubstituteStep, CastPolynomStep, CastRBFStep,
     ForecastStutters DEF ForecastNext
<1> QED  BY <1>1, ForecastInitial, PTL DEF ForecastSpec

-----------------------------------------------------------------------------
(* What the fit leaves.                                                     *)

LEMMA ResidualMeans ==
  ASSUME Based, Rescaled, vec \in [Terms -> Field], NEW act \in Rows
  PROVE  /\ series[act + 1] \in Int
         /\ Casted(series, act) \in Field /\ Casted(series, act) \in Int
         /\ Residual(act) \in Int /\ Residual(act) = series[act + 1] - Casted(series, act)
         /\ Combined(Terms, vec, RowTerms[act]) \in Int
         /\ Same(Casted(series, act), Combined(Terms, vec, RowTerms[act]))
         /\ LeftOver(Terms, NextValues, RowTerms, vec, act) \in Int
         /\ Same(Residual(act), LeftOver(Terms, NextValues, RowTerms, vec, act))
<1> DEFINE a == series[act + 1]
           b == Casted(series, act)
           d == Combined(Terms, vec, RowTerms[act])
<1>1. Windowed(series, act) /\ RowTerms[act] = TermsOf(series, act) /\ NextValues[act] = a /\ a \in Int
  BY RowTermsType
<1>2. b \in Field /\ b \in Int /\ d \in Int /\ Same(b, d)
  BY <1>1, CastedMeans
<1>3. Residual(act) = a - b /\ LeftOver(Terms, NextValues, RowTerms, vec, act) = a - d
  BY <1>1 DEF Residual, LeftOver
<1> HIDE DEF a, b, d
<1>4. a - b \in Int /\ a - d \in Int /\ Same(a - b, a - d)
  BY <1>1, <1>2, SameItself, SameMinus
<1> QED  BY <1>1, <1>2, <1>3, <1>4 DEF a, b, d

(* The product of what is left and a term. *)
LeftTerm(k, act) == Residual(act) * Term(k, series, act)

LEMMA NothingLeft ==
  ASSUME Based, Rescaled, Casting, NEW k \in Terms
  PROVE  /\ \A act \in Rows : LeftTerm(k, act) \in Int
         /\ SumFunctionOnSet([act \in Rows |-> LeftTerm(k, act)], Rows) \in Int
         /\ Same(SumFunctionOnSet([act \in Rows |-> LeftTerm(k, act)], Rows), 0)
         /\ Total([act \in Rows |-> LeftTerm(k, act)]) = 0
<1> DEFINE f == [act \in Rows |-> LeftTerm(k, act)]
           g == [act \in Rows |-> LeftTimes(Terms, NextValues, RowTerms, vec, act, k)]
<1>1. vec \in [Terms -> Field] /\ Wanted(vec)
  BY DEF Casting
<1>2. IsFiniteSet(Rows)
  BY RowsType
<1>3. ASSUME NEW act \in Rows PROVE f[act] \in Int /\ g[act] \in Int /\ Same(f[act], g[act])
  <2> DEFINE a == Residual(act)
             b == LeftOver(Terms, NextValues, RowTerms, vec, act)
             d == Term(k, series, act)
  <2>1. a \in Int /\ b \in Int /\ Same(a, b)
    BY <1>1, ResidualMeans
  <2>2. RowTerms[act][k] = d /\ d \in Int
    BY RowTermsType
  <2>3. f[act] = a * d /\ g[act] = b * d
    BY <2>2 DEF LeftTerm, LeftTimes
  <2> HIDE DEF a, b, d, f, g
  <2>4. a * d \in Int /\ b * d \in Int /\ Same(a * d, b * d)
    BY <2>1, <2>2, TimesType, SameItself, SameTimes
  <2> QED  BY <2>3, <2>4
<1>4. Same(SumFunctionOnSet(g, Rows), 0)
  BY <1>1 DEF Wanted, IsNormal
<1>5. DOMAIN f = Rows
  OBVIOUS
<1>6. \A act \in Rows : LeftTerm(k, act) \in Int
  BY <1>3
<1> HIDE DEF f, g
<1>7. /\ SumFunctionOnSet(f, Rows) \in Int /\ SumFunctionOnSet(g, Rows) \in Int
      /\ Same(SumFunctionOnSet(f, Rows), SumFunctionOnSet(g, Rows))
  BY <1>2, <1>3, SameSums, SumIsInt
<1>8. Same(SumFunctionOnSet(f, Rows), 0)
  BY <1>4, <1>7, SameThrough
<1>9. Total(f) = 0
  <2>1. Total(f) \in Field /\ Total(f) \in Int /\ Same(Total(f), SumFunctionOnSet(f, Rows))
    BY <1>2, <1>3, <1>5, TotalSame
  <2>2. Same(Total(f), 0)
    BY <1>7, <1>8, <2>1, SameThrough
  <2>3. 0 \in Field
    BY ModulusType DEF Field
  <2> QED  BY <2>1, <2>2, <2>3, FieldSame
<1> QED  BY <1>6, <1>7, <1>8, <1>9 DEF f

LEMMA FitIsNormal == ASSUME Based, Rescaled, Casting PROVE NormalEquations
BY NothingLeft DEF NormalEquations, LeftTerm

-----------------------------------------------------------------------------
(* The errors that are printed.                                             *)

LeftSquares == Total([act \in Rows |-> Residual(act) * Residual(act)])

LeftValues == Total([act \in Rows |-> Residual(act) * series[act + 1]])

LEMMA SquaresLeft ==
  ASSUME Based, Rescaled, Casting
  PROVE  LeftSquares = LeftValues /\ LeftValues \in Field /\ LeftValues \in Int
<1> DEFINE T == Terms
           R == Rows
           c == vec
           terms == RowTerms
           zero == [act \in R |-> 0]
           b == [act \in R |-> Residual(act)]
           sq == [act \in R |-> Residual(act) * Residual(act)]
           vl == [act \in R |-> Residual(act) * series[act + 1]]
           lw == LeftWith(T, R, zero, terms, c, b)
           tw == TermsWith(T, R, terms, b)
           sm == [act \in R |-> vl[act] + lw[act]]
<1>1. c \in [T -> Field] /\ IsFiniteSet(T) /\ IsFiniteSet(R)
  BY RowTermsType DEF Casting
<1>2. /\ \A k \in T : c[k] \in Int
      /\ \A act \in R : b[act] \in Int
      /\ \A act \in R : zero[act] \in Int /\ \A k \in T : terms[act][k] \in Int
  BY <1>1, ResidualMeans, RowTermsType, FieldType
<1>3. SumFunctionOnSet(lw, R) = ValuesTimes(R, zero, b) - Combined(T, c, tw)
  <2>1. /\ IsFiniteSet(T) /\ IsFiniteSet(R) /\ (\A k \in T : c[k] \in Int)
        /\ \A act \in R : zero[act] \in Int /\ \A k \in T : terms[act][k] \in Int
    BY <1>1, <1>2
  <2>2. \A act \in R : b[act] \in Int
    BY <1>2
  <2> HIDE DEF T, R, c, terms, zero, b
  <2>3. SumFunctionOnSet(LeftWith(T, R, zero, terms, c, b), R) =
          ValuesTimes(R, zero, b) - Combined(T, c, TermsWith(T, R, terms, b))
    BY ONLY <2>1, <2>2, LeftSummed, SMTT(60)
  <2> QED  BY <2>3
<1>4. ValuesTimes(R, zero, b) = 0
  <2> DEFINE f == [act \in R |-> zero[act] * b[act]]
             none == 0
  <2>1. \A act \in R : f[act] = 0
    <3> TAKE act \in R
    <3>1. f[act] = 0 * b[act] /\ b[act] \in Int
      BY <1>2
    <3> HIDE DEF f, b
    <3> QED  BY <3>1
  <2>2. ValuesTimes(R, zero, b) = SumFunctionOnSet(f, R) /\ none \in Int /\ none = 0
    BY DEF ValuesTimes
  <2> HIDE DEF f, none
  <2>3. SumFunctionOnSet(f, R) = none * Cardinality(R)
    BY <1>1, <2>1, <2>2, SumOfSame
  <2>4. none * Cardinality(R) = 0
    BY <1>1, FS_CardinalityType DEF none
  <2> QED  BY <2>2, <2>3, <2>4
<1>5. ASSUME NEW k \in T PROVE tw[k] \in Int /\ Same(tw[k], 0)
  <2> DEFINE f == [act \in R |-> [act1 \in R |-> terms[act1][k]][act] * b[act]]
             g == [act \in Rows |-> LeftTerm(k, act)]
  <2>1. tw[k] = SumFunctionOnSet(f, R)
    BY DEF TermsWith, ValuesTimes
  <2>2. f = g
    <3>1. ASSUME NEW act \in R PROVE f[act] = g[act]
      <4> DEFINE d == Term(k, series, act)
                 e == Residual(act)
      <4>1. terms[act][k] = d /\ d \in Int /\ e \in Int
        BY <1>1, ResidualMeans, RowTermsType
      <4>2. f[act] = d * e /\ g[act] = e * d
        BY <4>1 DEF LeftTerm
      <4> HIDE DEF d, e, f, g
      <4>3. d * e = e * d
        BY <4>1
      <4> QED  BY <4>2, <4>3
    <3> HIDE DEF terms, b
    <3> QED  BY <3>1
  <2>3. SumFunctionOnSet(g, Rows) \in Int /\ Same(SumFunctionOnSet(g, Rows), 0)
    BY NothingLeft
  <2> HIDE DEF f, g, tw
  <2> QED  BY <2>1, <2>2, <2>3
<1> HIDE DEF tw
<1>6. Same(Combined(T, c, tw), 0) /\ Combined(T, c, tw) \in Int
  <2> DEFINE f == [k \in T |-> c[k] * tw[k]]
  <2>1. \A k \in T : f[k] \in Int /\ Same(f[k], 0)
    <3> TAKE k \in T
    <3> DEFINE a == c[k]
               d == tw[k]
    <3>1. a \in Int /\ d \in Int /\ Same(d, 0) /\ f[k] = a * d
      BY <1>2, <1>5
    <3> HIDE DEF a, d, f
    <3> DEFINE none == 0
    <3>2. none \in Int /\ Same(d, none) /\ a * none = 0
      BY <3>1
    <3> HIDE DEF none
    <3>3. a * d \in Int /\ Same(a * d, a * none)
      BY <3>1, <3>2, TimesType, SameTimesSame
    <3> QED  BY <3>1, <3>2, <3>3
  <2>2. Combined(T, c, tw) = SumFunctionOnSet(f, T)
    BY DEF Combined
  <2> HIDE DEF f
  <2> QED  BY <1>1, <2>1, <2>2, SumOfNothing
<1>7. ASSUME NEW act \in R
      PROVE  /\ sq[act] \in Int /\ vl[act] \in Int /\ lw[act] \in Int /\ sm[act] \in Int
             /\ sm[act] = vl[act] + lw[act] /\ Same(sq[act], sm[act])
  <2> DEFINE e == Residual(act)
             a == series[act + 1]
             d == Casted(series, act)
             g == Combined(Terms, vec, RowTerms[act])
  <2>1. e \in Int /\ a \in Int /\ d \in Int /\ g \in Int /\ e = a - d /\ Same(d, g)
    BY <1>1, ResidualMeans
  <2>2. sq[act] = e * e /\ vl[act] = e * a /\ lw[act] = (0 - g) * e /\ sm[act] = vl[act] + lw[act]
    BY DEF LeftWith, LeftOver
  <2> HIDE DEF e, a, d, g, sq, vl, lw, sm
  <2>3. e * e \in Int /\ e * a \in Int /\ (0 - g) * e \in Int /\ a - g \in Int
    BY <2>1, TimesType
  <2>4. e * a + (0 - g) * e = e * (a - g)
    BY <2>1
  <2>5. Same(a - d, a - g)
    BY <2>1, SameItself, SameMinus
  <2>6. Same(e * e, e * (a - g))
    <3> DEFINE y == a - g
    <3>1. y \in Int /\ Same(e, y)
      BY <2>1, <2>3, <2>5
    <3> HIDE DEF y
    <3>2. Same(e * e, e * y)
      BY <2>1, <3>1, SameTimesSame
    <3> QED  BY <3>2 DEF y
  <2> QED  BY <2>2, <2>3, <2>4, <2>6
<1>8. DOMAIN sq = R /\ DOMAIN vl = R
  OBVIOUS
<1>9. LeftSquares = Total(sq) /\ LeftValues = Total(vl)
  BY DEF LeftSquares, LeftValues
<1> HIDE DEF sq, vl, lw, sm, T, R, c, terms, zero, b
<1>10. /\ SumFunctionOnSet(sq, R) \in Int /\ SumFunctionOnSet(vl, R) \in Int
       /\ SumFunctionOnSet(lw, R) \in Int /\ SumFunctionOnSet(sm, R) \in Int
       /\ Same(SumFunctionOnSet(sq, R), SumFunctionOnSet(sm, R))
       /\ SumFunctionOnSet(sm, R) = SumFunctionOnSet(vl, R) + SumFunctionOnSet(lw, R)
  BY <1>1, <1>7, SumIsInt, SameSums, SumOfSums
<1>11. Same(SumFunctionOnSet(sm, R), SumFunctionOnSet(vl, R))
  <2> DEFINE x == SumFunctionOnSet(vl, R)
             y == Combined(T, c, tw)
  <2>1. SumFunctionOnSet(sm, R) = x - y /\ x \in Int /\ y \in Int /\ Same(y, 0)
    BY <1>3, <1>4, <1>6, <1>10
  <2> HIDE DEF x, y
  <2>2. Same(x - y, x - 0) /\ x - 0 = x
    BY <2>1, SameItself, SameMinus
  <2> QED  BY <2>1, <2>2 DEF x
<1>12. Same(SumFunctionOnSet(sq, R), SumFunctionOnSet(vl, R))
  BY <1>10, <1>11, SameThrough
<1>13. /\ Total(sq) \in Field /\ Total(sq) \in Int /\ Same(Total(sq), SumFunctionOnSet(sq, R))
       /\ Total(vl) \in Field /\ Total(vl) \in Int /\ Same(Total(vl), SumFunctionOnSet(vl, R))
  BY <1>1, <1>7, <1>8, TotalSame
<1>14. Same(Total(sq), Total(vl))
  <2>1. Same(Total(sq), SumFunctionOnSet(vl, R)) /\ Same(SumFunctionOnSet(vl, R), Total(vl))
    BY <1>10, <1>12, <1>13, SameThrough, SameBack
  <2> QED  BY <1>10, <1>13, <2>1, SameThrough
<1> QED  BY <1>9, <1>13, <1>14, FieldSame

(* A quotient by a number of rows, times that number. *)
LEMMA QuotientUndone ==
  ASSUME NEW a \in Field, NEW n \in Int, n % P \in NonZero
  PROVE  /\ Over(a, n % P) \in Field /\ Over(a, n % P) \in Int
         /\ (Over(a, n % P) * n) % P = a
         /\ Same(Over(a, n % P) * n, a)
<1> DEFINE u == n % P
           o == Over(a, u)
<1>1. a \in Int /\ u \in NonZero /\ u \in Int /\ Same(u, n)
  BY FieldType, RemainderSame
<1> HIDE DEF u
<1>2. o \in Field /\ o \in Int /\ Same(o * u, a)
  BY <1>1, OverMeans
<1> HIDE DEF o
<1>3. o * n \in Int /\ o * u \in Int /\ Same(o * u, o * n)
  BY <1>1, <1>2, TimesType, SameTimesSame
<1>4. Same(o * n, a)
  <2> DEFINE x == o * n
             y == o * u
  <2>1. x \in Int /\ y \in Int /\ Same(y, x) /\ Same(y, a)
    BY <1>2, <1>3
  <2> HIDE DEF x, y
  <2>2. Same(x, a)
    BY <1>1, <2>1, SameBack, SameThrough
  <2> QED  BY <2>2 DEF x
<1>5. (o * n) % P = a % P /\ a % P = a
  BY <1>1, <1>3, <1>4, RemaindersEqual, FieldType
<1> QED  BY <1>2, <1>4, <1>5 DEF o, u

LEMMA SigmaType == ASSUME Rescaled PROVE sigma \in Field /\ sigma \in Int
<1> DEFINE av == Over(Total(series), LENGTH % P)
           sq == [n \in DOMAIN series |-> series[n] * series[n]]
           ms == Over(Total(sq), LENGTH % P)
<1>1. LENGTH % P \in NonZero /\ LENGTH \in Nat
  <2>1. LENGTH % P # 0 /\ LENGTH \in Int /\ LENGTH \in Nat
    BY ForecastAssumption
  <2> QED  BY <2>1, RemainderSame, FieldUnit
<1>2. DOMAIN series = Positions /\ DOMAIN sq = Positions /\ IsFiniteSet(Positions)
  <2>1. 0 \in Int /\ LENGTH - 1 \in Int
    BY <1>1
  <2>2. IsFiniteSet(Positions)
    BY <2>1, FS_Interval DEF Positions
  <2> QED  BY <2>2 DEF Rescaled
<1>3. ASSUME NEW n \in Positions PROVE series[n] \in Int /\ sq[n] \in Int
  <2>1. series[n] \in Int /\ n \in DOMAIN series
    BY <1>2, FieldType DEF Rescaled
  <2> QED  BY <2>1, TimesType
<1>4. sigma = (ms - av * av) % P
  BY DEF sigma
<1> HIDE DEF sq
<1>5. Total(series) \in Int /\ Total(sq) \in Int
  BY <1>2, <1>3, TotalSame
<1>6. av \in Int /\ ms \in Int
  BY <1>1, <1>5, OverMeans
<1> HIDE DEF av, ms
<1>7. ms - av * av \in Int
  BY <1>6, TimesType
<1> QED  BY <1>4, <1>7, RemainderSame

LEMMA PrintedErrors == ASSUME Based, Rescaled, Casting PROVE ErrorsPrinted
<1> DEFINE left == LeftValues
           n == Cardinality(Rows)
<1>1. LeftSquares = left /\ left \in Field /\ left \in Int
  BY SquaresLeft
<1>2. /\ n \in Int /\ n % P \in NonZero /\ n + 1 \in Int
      /\ (n + 1) % P \in NonZero /\ (n + 1) % P = (LENGTH - Span) % P
  <2>1. n \in Int
    BY RowsType, SpanCovers
  <2> QED  BY <2>1, RowsType
<1> HIDE DEF n
<1>3. CASE method = "Polynom"
  <2> DEFINE top == n + 1
  <2>1. make_errorPOLYNOM = Over(left, top % P)
    BY <1>1, <1>2 DEF make_errorPOLYNOM, LeftSquares
  <2>2. top \in Int /\ top % P \in NonZero
    BY <1>2
  <2> HIDE DEF top, left
  <2>3. (Over(left, top % P) * top) % P = left
    BY <1>1, <2>2, QuotientUndone
  <2>4. (make_errorPOLYNOM * (n + 1)) % P = left
    BY <2>1, <2>3 DEF top
  <2> QED  BY <1>3, <2>4 DEF ErrorsPrinted, LeftValues, left, n
<1>4. CASE method # "Polynom"
  <2> DEFINE e == forecast_errorRBF
             s == sigma
             is == InsampleRBF
  <2>1. e = Over(left, n % P)
    BY <1>1 DEF forecast_errorRBF, LeftSquares, n
  <2>2. s \in Field /\ s \in Int
    BY SigmaType
  <2>3. s # 0 => is = Over(e, s)
    BY DEF InsampleRBF
  <2> HIDE DEF e, s, is, left
  <2>4. e \in Field /\ e \in Int /\ (e * n) % P = left /\ Same(e * n, left)
    BY <1>1, <1>2, <2>1, QuotientUndone
  <2>5. ASSUME s # 0 PROVE (is * s * n) % P = left
    <3>1. s \in NonZero
      BY <2>2, <2>5, FieldUnit
    <3>2. is \in Int /\ Same(is * s, e)
      BY <2>3, <2>4, <2>5, <3>1, OverMeans
    <3> DEFINE y == is * s
               x == y * n
               z == e * n
    <3>3. y \in Int /\ Same(y, e)
      BY <2>2, <3>2, TimesType
    <3> HIDE DEF y
    <3>4. x \in Int /\ z \in Int /\ Same(x, z)
      BY <1>2, <2>4, <3>3, TimesType, SameItself, SameTimes
    <3>5. Same(z, left)
      BY <2>4
    <3>6. x = is * s * n
      BY DEF y
    <3> HIDE DEF x, z
    <3>7. Same(x, left)
      BY <1>1, <3>4, <3>5, SameThrough
    <3>8. x % P = left % P /\ left % P = left
      BY <1>1, <3>4, <3>7, RemaindersEqual, FieldType
    <3> QED  BY <3>6, <3>8
  <2>6. (e * n) % P = left /\ (s # 0 => (is * s * n) % P = left)
    BY <2>4, <2>5
  <2> QED  BY <1>4, <2>6 DEF ErrorsPrinted, LeftValues, left, n, e, s, is
<1> QED  BY <1>3, <1>4

-----------------------------------------------------------------------------
(* Before and after the scaling.                                            *)

(* The values of the window x are s times those of the window z. *)
ScaledWindow(s, x, act, z, bct) ==
  \A d \in 0..(DIM - 1) : Same(x[act - d * DELAY], s * z[bct - d * DELAY])

LEMMA SeriesScaled ==
  ASSUME Rescaled, history \in [Positions -> Field], NEW n \in Positions
  PROVE  /\ history[n] \in Field /\ history[n] \in Int /\ series[n] \in Field /\ series[n] \in Int
         /\ Same(scale * series[n], history[n] - offset)
<1> DEFINE h == history[n]
           x == series[n]
<1>1. /\ h \in Field /\ h \in Int /\ x \in Field /\ x \in Int /\ scale \in NonZero /\ scale \in Int
      /\ offset \in Int /\ x = Over(h - offset, scale)
  BY FieldType, UnitType DEF Rescaled
<1> HIDE DEF h, x
<1>2. h - offset \in Int
  BY <1>1
<1>3. Same(x * scale, h - offset)
  BY <1>1, <1>2, OverMeans
<1>4. x * scale = scale * x
  BY <1>1
<1> QED  BY <1>1, <1>3, <1>4 DEF h, x

LEMMA RowScaled ==
  ASSUME Rescaled, history \in [Positions -> Field], offset = 0, NEW act \in Rows
  PROVE  /\ Windowed(history, act) /\ Windowed(series, act)
         /\ ScaledWindow(scale, history, act, series, act)
<1>1. Windowed(history, act) /\ Windowed(series, act)
  BY RowsType DEF Rescaled
<1>2. ASSUME NEW d \in 0..(DIM - 1)
      PROVE  Same(history[act - d * DELAY], scale * series[act - d * DELAY])
  <2> DEFINE b == d * DELAY
  <2>1. b \in Nat /\ b <= Span
    BY SpanCovers
  <2> HIDE DEF b
  <2>2. act - b \in Positions
    BY <2>1, SpanCovers DEF Rows, Positions
  <2> DEFINE n == act - b
             h == history[n]
             y == scale * series[n]
  <2>3. h \in Int /\ series[n] \in Int /\ Same(y, h - offset)
    BY <2>2, SeriesScaled
  <2>4. scale \in Int /\ h - offset = h
    BY <2>3, UnitType DEF Rescaled
  <2>5. y \in Int
    BY <2>3, <2>4, TimesType
  <2> HIDE DEF h, y
  <2>6. Same(h, y)
    BY <2>3, <2>4, <2>5, SameBack
  <2> QED  BY <2>6 DEF b, h, y
<1> QED  BY <1>1, <1>2 DEF ScaledWindow

LEMMA ProductOfScaled ==
  ASSUME NEW s \in NonZero, NEW x, NEW act, NEW z, NEW bct, NEW m \in Monomials,
         Windowed(x, act), Windowed(z, bct), ScaledWindow(s, x, act, z, bct)
  PROVE  /\ SumFunction(m) \in Nat /\ Power(s, SumFunction(m)) \in NonZero
         /\ Power(s, SumFunction(m)) \in Int
         /\ Product(x, act, m) \in Int /\ Product(z, bct, m) \in Int
         /\ Same(Product(x, act, m), Power(s, SumFunction(m)) * Product(z, bct, m))
<1>1. Factors(x, act, m) /\ Factors(z, bct, m) /\ m \in [0..(DIM - 1) -> Nat] /\ s \in Int
  BY WindowFactors, MonomialType, UnitType
<1>2. \A d \in 0..(DIM - 1) : Same(x[act - d * DELAY], s * z[bct - d * DELAY])
  BY DEF ScaledWindow
<1>3. /\ SumFunction(m) \in Nat
      /\ Same(Product(x, act, m), Power(s, SumFunction(m)) * Product(z, bct, m))
  BY <1>1, <1>2, ProductScaled
<1>4. Power(s, SumFunction(m)) \in NonZero /\ Power(s, SumFunction(m)) \in Int
  BY <1>3, PowerOfUnit, UnitType
<1>5. Product(x, act, m) \in Int /\ Product(z, bct, m) \in Int
  BY <1>1, ProductType
<1> QED  BY <1>3, <1>4, <1>5

-----------------------------------------------------------------------------
(* The coefficients that are printed.                                       *)

(* Factors that are moved: (c s / p) p X is s c X. *)
LEMMA FactorsPrinted ==
  ASSUME NEW c \in Int, NEW s \in Int, NEW p \in NonZero, NEW o \in Int, NEW h \in Int, NEW x \in Int,
         Same(o * p, c * s), Same(h, p * x)
  PROVE  Same(o * h, s * (c * x))
<1>1. p \in Int /\ p * x \in Int /\ o * p \in Int /\ c * s \in Int /\ o * h \in Int
      /\ s * (c * x) \in Int
  <2>1. p \in Int
    BY UnitType
  <2>2. c * x \in Int
    BY TimesType
  <2>3. s * (c * x) \in Int
    BY <2>2, TimesType
  <2> QED  BY <2>1, <2>3, TimesType
<1>2. Same(o * h, o * (p * x))
  <2> DEFINE y == p * x
  <2>1. y \in Int /\ Same(h, y)
    BY <1>1
  <2> HIDE DEF y
  <2>2. Same(o * h, o * y)
    BY <2>1, SameTimesSame
  <2> QED  BY <2>2 DEF y
<1>3. o * (p * x) = (o * p) * x /\ (c * s) * x = s * (c * x)
  BY <1>1
<1>4. Same((o * p) * x, (c * s) * x) /\ (o * p) * x \in Int
  <2> DEFINE y == o * p
             z == c * s
  <2>1. y \in Int /\ z \in Int /\ Same(y, z)
    BY <1>1
  <2> HIDE DEF y, z
  <2>2. Same(y * x, z * x) /\ y * x \in Int
    BY <2>1, SameItself, SameTimes, TimesType
  <2> QED  BY <2>2 DEF y, z
<1> DEFINE a == o * h
           b == (o * p) * x
           e == s * (c * x)
<1>5. a \in Int /\ b \in Int /\ e \in Int /\ Same(a, b) /\ Same(b, e)
  BY <1>1, <1>2, <1>3, <1>4
<1> HIDE DEF a, b, e
<1>6. Same(a, e)
  BY <1>5, SameThrough
<1> QED  BY <1>6 DEF a, e

LEMMA PrintedCoefficients ==
  ASSUME Based, Rescaled, history \in [Positions -> Field], vec \in [Terms -> Field]
  PROVE  CoefficientsPrinted
<1> SUFFICES ASSUME NEW act \in Rows
             PROVE  (Casted(series, act) * scale + offset) % P =
                      IF method = "Polynom"
                      THEN Total([k \in Terms |-> PrintedPOLYNOM(k) * polynom(history, act, coding[k + 1])])
                      ELSE Total([k \in Terms |-> PrintedRBF(k) * Term(k, series, act)])
  BY DEF CoefficientsPrinted
<1> DEFINE T == Terms
           c == vec
           d == Casted(series, act)
           u == RowTerms[act]
           K == Combined(T, c, u)
           cu == [k \in T |-> c[k] * u[k]]
           g == [k \in T |-> scale * cu[k]]
           ds == d * scale
           all == ds + offset
<1>1. d \in Int /\ K \in Int /\ Same(d, K)
  BY ResidualMeans
<1>2. scale \in NonZero /\ scale \in Int /\ offset \in Int
  BY UnitType, FieldType DEF Rescaled
<1>3. IsFiniteSet(T) /\ \A k \in T : c[k] \in Int /\ u[k] \in Int /\ u[k] = Term(k, series, act)
  BY RowTermsType, FieldType
<1>4. ds \in Int /\ all \in Int
  <2> HIDE DEF d
  <2>1. ds \in Int
    BY <1>1, <1>2, TimesType
  <2> HIDE DEF ds
  <2> QED  BY <1>2, <2>1
<1>5. /\ \A k \in T : cu[k] \in Int /\ g[k] \in Int /\ g[k] = scale * (c[k] * u[k])
      /\ SumFunctionOnSet(g, T) \in Int /\ Same(SumFunctionOnSet(g, T), ds)
  <2>1. \A k \in T : cu[k] \in Int
    <3> HIDE DEF c, u
    <3> QED  BY <1>3, TimesType
  <2>2. \A k \in T : g[k] \in Int /\ g[k] = scale * cu[k] /\ g[k] = scale * (c[k] * u[k])
    <3>1. \A k \in T : g[k] = scale * cu[k] /\ g[k] = scale * (c[k] * u[k])
      OBVIOUS
    <3> HIDE DEF cu, g
    <3> QED  BY <1>2, <2>1, <3>1, TimesType
  <2>3. K = SumFunctionOnSet(cu, T)
    BY DEF Combined
  <2> HIDE DEF cu, g, K, d
  <2>4. SumFunctionOnSet(g, T) = scale * SumFunctionOnSet(cu, T)
    BY <1>2, <1>3, <2>1, <2>2, SumOfMultiples
  <2>5. Same(K, d)
    BY <1>1, SameBack
  <2>6. Same(scale * K, scale * d)
    BY <1>1, <1>2, <2>5, SameTimesSame
  <2>8. scale * d = d * scale
    BY <1>1, <1>2
  <2>7. scale * K \in Int
    BY <1>1, <1>2, TimesType
  <2> QED  BY <2>1, <2>2, <2>3, <2>4, <2>6, <2>7, <2>8
<1> HIDE DEF all
<1>6. ASSUME NEW f, DOMAIN f = T, \A k \in T : f[k] \in Int,
             Same(SumFunctionOnSet(f, T), all)
      PROVE  all % P = Total(f)
  <2>1. /\ Total(f) \in Field /\ Total(f) \in Int /\ SumFunctionOnSet(f, T) \in Int
        /\ Same(Total(f), SumFunctionOnSet(f, T))
    BY <1>3, <1>6, TotalSame
  <2>2. Same(Total(f), all)
    BY <1>4, <1>6, <2>1, SameThrough
  <2>3. Total(f) % P = all % P /\ Total(f) % P = Total(f)
    BY <1>4, <2>1, <2>2, RemaindersEqual, FieldType
  <2> QED  BY <2>3
<1>7. CASE method = "Polynom"
  <2> DEFINE f == [k \in T |-> PrintedPOLYNOM(k) * polynom(history, act, coding[k + 1])]
  <2>1. offset = 0
    BY <1>7 DEF Rescaled
  <2>2. /\ Windowed(history, act) /\ Windowed(series, act)
        /\ ScaledWindow(scale, history, act, series, act)
    BY <2>1, RowScaled
  <2>3. ASSUME NEW k \in T PROVE f[k] \in Int /\ Same(f[k], g[k])
    <3> DEFINE m == ExponentsOf(k)
               p == Power(scale, SumFunction(m))
               ck == c[k]
               o == Over(ck * scale, p)
               h == Product(history, act, m)
               x == Product(series, act, m)
    <3>1. m \in Monomials /\ Term(k, series, act) = x /\ Term(k, history, act) = h
      BY <1>7, PolynomTerm
    <3>2. p \in NonZero /\ h \in Int /\ x \in Int /\ Same(h, p * x)
      <4> HIDE DEF m
      <4> QED  BY <1>2, <2>2, <3>1, ProductOfScaled
    <3>3. PrintedPOLYNOM(k) = o /\ polynom(history, act, coding[k + 1]) = h
      <4>1. k + 1 \in 1..pars /\ coding[k + 1] = make_codingPOLYNOM[k + 1]
        BY <1>7, TermsType
      <4> QED  BY <4>1 DEF PrintedPOLYNOM, polynom, ExponentsOf, results
    <3>4. f[k] = o * h /\ g[k] = scale * (ck * x) /\ ck \in Int
      BY <1>3, <1>5, <3>1, <3>3
    <3> HIDE DEF m, p, ck, h, x, f, g
    <3>5. ck * scale \in Int
      BY <1>2, <3>4, TimesType
    <3>6. o \in Int /\ Same(o * p, ck * scale)
      BY <3>2, <3>5, OverMeans
    <3> HIDE DEF o
    <3>7. o * h \in Int /\ Same(o * h, scale * (ck * x))
      BY <1>2, <3>2, <3>4, <3>6, FactorsPrinted, TimesType
    <3> QED  BY <3>4, <3>7
  <2>4. DOMAIN f = T
    OBVIOUS
  <2>5. all = ds
    BY <1>4, <2>1 DEF all
  <2> HIDE DEF f, g, ds, T
  <2>6. /\ SumFunctionOnSet(f, T) \in Int
        /\ Same(SumFunctionOnSet(f, T), SumFunctionOnSet(g, T))
    BY <1>3, <1>5, <2>3, SameSums, SumIsInt
  <2>7. Same(SumFunctionOnSet(f, T), all)
    BY <1>4, <1>5, <2>5, <2>6, SameThrough
  <2>8. all % P = Total(f)
    BY <1>6, <2>3, <2>4, <2>7
  <2> QED  BY <1>7, <2>8 DEF f, all, ds, T
<1>8. CASE method # "Polynom"
  <2> DEFINE f == [k \in T |-> PrintedRBF(k) * Term(k, series, act)]
             e == [k \in T |-> IF k = 0 THEN offset ELSE 0]
             s == [k \in T |-> g[k] + e[k]]
  <2>1. 0 \in T
    BY TermsType
  <2>2. ASSUME NEW k \in T
        PROVE  f[k] \in Int /\ e[k] \in Int /\ s[k] \in Int /\ s[k] = g[k] + e[k] /\ Same(f[k], s[k])
    <3> DEFINE ck == c[k]
               x == u[k]
               ek == e[k]
               cs == ck * scale
               y == cs + ek
               pr == y % P
    <3>1. ck \in Int /\ x \in Int /\ ek \in Int /\ x = Term(k, series, act)
      BY <1>2, <1>3
    <3>2. ek * x = ek
      <4>1. CASE k = 0
        <5>1. x = 1
          BY <1>8, <3>1, <4>1 DEF Term
        <5> HIDE DEF x, ek
        <5> QED  BY <3>1, <5>1
      <4>2. CASE k # 0
        <5>1. ek = 0
          BY <4>2
        <5> HIDE DEF x, ek
        <5> QED  BY <3>1, <5>1
      <4> QED  BY <4>1, <4>2
    <3>3. PrintedRBF(k) = pr
      BY DEF PrintedRBF, results
    <3>4. f[k] = pr * x /\ g[k] = scale * (ck * x) /\ s[k] = g[k] + ek
      BY <1>5, <3>1, <3>3
    <3>5. g[k] \in Int
      BY <1>5
    <3> HIDE DEF ck, x, ek, f, g, s
    <3>6. cs \in Int /\ y \in Int
      BY <1>2, <3>1, TimesType
    <3>7. cs * x = scale * (ck * x)
      BY <1>2, <3>1
    <3> HIDE DEF cs
    <3>8. y * x = cs * x + ek * x
      BY <3>1, <3>6
    <3> HIDE DEF y
    <3>9. pr \in Int /\ Same(pr, y)
      BY <3>6, RemainderSame
    <3> HIDE DEF pr
    <3>10. pr * x \in Int /\ Same(pr * x, y * x)
      BY <3>1, <3>6, <3>9, SameItself, SameTimes, TimesType
    <3>11. y * x = s[k]
      BY <3>2, <3>4, <3>7, <3>8
    <3> QED  BY <3>1, <3>4, <3>5, <3>10, <3>11 DEF ek
  <2>3. DOMAIN f = T
    OBVIOUS
  <2>4. e[0] = offset /\ \A k \in T \ {0} : e[k] = 0
    BY <2>1
  <2>5. all = ds + offset
    BY DEF all
  <2> HIDE DEF f, g, e, s, ds, T
  <2>6. SumFunctionOnSet(e, T) = offset
    <3> DEFINE none == 0
               S == T \ {none}
    <3>1. none \in T /\ none \in Int /\ IsFiniteSet(S) /\ \A k \in S : e[k] = none
      BY <1>3, <2>1, <2>4, FS_RemoveElement
    <3>2. e[none] = offset /\ \A k \in T : e[k] \in Int
      BY <2>2, <2>4
    <3> HIDE DEF none
    <3>3. SumFunctionOnSet(e, T) = e[none] + SumFunctionOnSet(e, T \ {none})
      BY <1>3, <3>1, <3>2, SumTakesAny
    <3> HIDE DEF S
    <3>4. SumFunctionOnSet(e, S) = none * Cardinality(S)
      BY <3>1, SumOfSame
    <3>5. none * Cardinality(S) = 0
      BY <3>1, FS_CardinalityType DEF none
    <3> QED  BY <1>2, <3>2, <3>3, <3>4, <3>5 DEF S
  <2>7. /\ SumFunctionOnSet(f, T) \in Int /\ SumFunctionOnSet(s, T) \in Int
        /\ Same(SumFunctionOnSet(f, T), SumFunctionOnSet(s, T))
        /\ SumFunctionOnSet(s, T) = SumFunctionOnSet(g, T) + SumFunctionOnSet(e, T)
    BY <1>3, <1>5, <2>2, SameSums, SumIsInt, SumOfSums
  <2>8. Same(SumFunctionOnSet(g, T) + offset, ds + offset)
    BY <1>2, <1>4, <1>5, SameItself, SamePlus
  <2>9. Same(SumFunctionOnSet(f, T), all)
    <3> DEFINE x == SumFunctionOnSet(f, T)
               y == SumFunctionOnSet(s, T)
    <3>1. x \in Int /\ y \in Int /\ Same(x, y) /\ Same(y, all)
      BY <2>5, <2>6, <2>7, <2>8
    <3> HIDE DEF x, y
    <3>2. Same(x, all)
      BY <1>4, <3>1, SameThrough
    <3> QED  BY <3>2 DEF x
  <2>10. all % P = Total(f)
    BY <1>6, <2>2, <2>3, <2>9
  <2> QED  BY <1>8, <2>10 DEF f, all, ds, T
<1> QED  BY <1>7, <1>8

(* What is cast is the least squares fit of the series followed by what     *)
(* was cast before, and what is printed of the fit is true of it, whatever  *)
(* series, scale and basis: eliminating a column keeps the solutions of the *)
(* equations, which are those of the normal equations, and the window holds *)
(* the last values of the series and the casts.                             *)
THEOREM FitIsLeastSquares == ForecastSpec => []LeastSquares
<1>1. ForecastIInv => LeastSquares
  <2> SUFFICES ASSUME ForecastIInv, step = "cast", Finite
               PROVE  NormalEquations /\ CastsFollow /\ ErrorsPrinted /\ CoefficientsPrinted
    BY DEF LeastSquares
  <2>1. Based /\ Rescaled /\ Casting /\ history \in [Positions -> Field]
    BY DEF ForecastIInv, ForecastTypes
  <2>2. vec \in [Terms -> Field] /\ CastsFollow
    BY <2>1 DEF Casting
  <2> QED  BY <2>1, <2>2, FitIsNormal, PrintedErrors, PrintedCoefficients
<1> QED  BY <1>1, ForecastInvariant, PTL

-----------------------------------------------------------------------------
(* The recurrence that a series follows.                                    *)

(* Its coefficients for the series as it is scaled, and its terms. *)
LawScaled == [k \in Terms |-> Over(law[ExponentsOf(k)] * Power(scale, SumFunction(ExponentsOf(k))), scale)]

LawTerms(x, act) == [m \in Monomials |-> law[m] * Product(x, act, m)]

LEMMA LawScaledType ==
  ASSUME Based, method = "Polynom", scale \in NonZero, law \in [Monomials -> Field]
  PROVE  /\ LawScaled \in [Terms -> Field]
         /\ \A k \in Terms :
              /\ ExponentsOf(k) \in Monomials /\ law[ExponentsOf(k)] \in Int
              /\ LawScaled[k] \in Int
              /\ Same(LawScaled[k] * scale, law[ExponentsOf(k)] * Power(scale, SumFunction(ExponentsOf(k))))
<1>1. ASSUME NEW k \in Terms
      PROVE  /\ ExponentsOf(k) \in Monomials /\ law[ExponentsOf(k)] \in Int
             /\ LawScaled[k] \in Field /\ LawScaled[k] \in Int
             /\ Same(LawScaled[k] * scale, law[ExponentsOf(k)] * Power(scale, SumFunction(ExponentsOf(k))))
  <2> DEFINE m == ExponentsOf(k)
             l == law[m]
             p == Power(scale, SumFunction(m))
             lp == l * p
  <2>1. m \in Monomials
    BY PolynomTerm
  <2>2. l \in Int
    <3> HIDE DEF m
    <3> QED  BY <2>1, FieldType
  <2>3. p \in Int
    <3>1. SumFunction(m) \in Nat
      <4> HIDE DEF m
      <4>1. IsFiniteSet(0..(DIM - 1))
        <5>1. 0 \in Int /\ DIM - 1 \in Int
          BY OrderType
        <5> QED  BY <5>1, FS_Interval
      <4>2. DOMAIN m = 0..(DIM - 1) /\ \A d \in 0..(DIM - 1) : m[d] \in Nat
        BY <2>1, MonomialType
      <4> QED  BY <4>1, <4>2, SumIsNat DEF SumFunction
    <3> HIDE DEF m
    <3> QED  BY <3>1, PowerOfUnit, UnitType
  <2>4. LawScaled[k] = Over(lp, scale)
    BY DEF LawScaled
  <2> HIDE DEF l, p
  <2>5. lp \in Int
    BY <2>2, <2>3, TimesType
  <2> HIDE DEF lp
  <2>6. LawScaled[k] \in Field /\ LawScaled[k] \in Int /\ Same(LawScaled[k] * scale, lp)
    BY <2>4, <2>5, OverMeans
  <2> QED  BY <2>1, <2>2, <2>6 DEF m, l, p, lp
<1>2. LawScaled = [k \in Terms |-> LawScaled[k]]
  BY DEF LawScaled
<1>3. LawScaled \in [Terms -> Field]
  BY <1>1, <1>2
<1> QED  BY <1>1, <1>3

(* What the law says of a window, and the fit of the window as scaled. *)
LEMMA LawOfScaled ==
  ASSUME Based, method = "Polynom", scale \in NonZero, law \in [Monomials -> Field],
         NEW x, NEW act, NEW z, NEW bct,
         Windowed(x, act), Windowed(z, bct), ScaledWindow(scale, x, act, z, bct)
  PROVE  /\ Lawful(law, x, act) \in Field /\ Lawful(law, x, act) \in Int
         /\ Combined(Terms, LawScaled, TermsOf(z, bct)) \in Int
         /\ Same(Lawful(law, x, act), scale * Combined(Terms, LawScaled, TermsOf(z, bct)))
<1> DEFINE T == Terms
           y == LawScaled
           u == TermsOf(z, bct)
           F == LawTerms(x, act)
           h == [k \in T |-> ExponentsOf(k)]
           f == [k \in T |-> F[h[k]]]
           yu == [k \in T |-> y[k] * u[k]]
           g == [k \in T |-> scale * yu[k]]
<1>1. /\ IsFiniteSet(T) /\ scale \in Int
      /\ \A k \in T : /\ ExponentsOf(k) \in Monomials /\ law[ExponentsOf(k)] \in Int /\ y[k] \in Int
                      /\ Same(y[k] * scale, law[ExponentsOf(k)] * Power(scale, SumFunction(ExponentsOf(k))))
  BY TermsType, LawScaledType, UnitType
<1>2. ASSUME NEW k \in T
      PROVE  /\ f[k] \in Int /\ g[k] \in Int /\ yu[k] \in Int /\ u[k] \in Int
             /\ g[k] = scale * yu[k] /\ f[k] = F[h[k]]
             /\ Same(f[k], g[k])
  <2> DEFINE m == ExponentsOf(k)
             l == law[m]
             p == Power(scale, SumFunction(m))
             a == Product(x, act, m)
             b == Product(z, bct, m)
             yk == y[k]
  <2>1. m \in Monomials /\ l \in Int /\ yk \in Int /\ Same(yk * scale, l * p)
    BY <1>1
  <2>2. p \in Int /\ a \in Int /\ b \in Int /\ Same(a, p * b)
    <3> HIDE DEF m
    <3> QED  BY <2>1, ProductOfScaled
  <2>3. u[k] = b
    BY PolynomTerm DEF TermsOf
  <2>4. f[k] = l * a
    BY <2>1 DEF LawTerms
  <2>5. g[k] = scale * (yk * b) /\ yu[k] = yk * b /\ g[k] = scale * yu[k] /\ f[k] = F[h[k]]
    BY <2>3
  <2> HIDE DEF m, l, p, a, b, yk, f, g, yu
  <2>6. l * a \in Int /\ yk * b \in Int /\ p * b \in Int /\ yk * scale \in Int /\ l * p \in Int
    BY <1>1, <2>1, <2>2, TimesType
  <2>7. Same(l * a, l * (p * b)) /\ l * (p * b) \in Int
    <3> DEFINE e == p * b
    <3>1. e \in Int /\ Same(a, e)
      BY <2>2, <2>6
    <3> HIDE DEF e
    <3>2. Same(l * a, l * e) /\ l * e \in Int
      BY <2>1, <2>2, <3>1, SameTimesSame, TimesType
    <3> QED  BY <3>2 DEF e
  <2>8. Same((yk * scale) * b, (l * p) * b) /\ (yk * scale) * b \in Int /\ (l * p) * b \in Int
    <3> DEFINE e == yk * scale
               d == l * p
    <3>1. e \in Int /\ d \in Int /\ Same(e, d)
      BY <2>1, <2>6
    <3> HIDE DEF e, d
    <3>2. Same(e * b, d * b) /\ e * b \in Int /\ d * b \in Int
      BY <2>2, <3>1, SameItself, SameTimes, TimesType
    <3> QED  BY <3>2 DEF e, d
  <2>9. l * (p * b) = (l * p) * b /\ (yk * scale) * b = scale * (yk * b)
    BY <1>1, <2>1, <2>2
  <2> DEFINE q == l * a
             r == (l * p) * b
             s == (yk * scale) * b
  <2>10. q \in Int /\ r \in Int /\ s \in Int /\ Same(q, r) /\ Same(s, r)
    BY <2>6, <2>7, <2>8, <2>9
  <2>11. f[k] = q /\ g[k] = s
    BY <2>4, <2>5, <2>9
  <2> HIDE DEF q, r, s
  <2>12. Same(q, s)
    <3>1. Same(r, s)
      BY <2>10, SameBack
    <3> QED  BY <2>10, <3>1, SameThrough
  <2> QED  BY <2>2, <2>3, <2>5, <2>6, <2>10, <2>11, <2>12
<1>3. Lawful(law, x, act) = Total(F)
  BY DEF Lawful, LawTerms
<1>4. SumFunctionOnSet(f, T) = SumFunctionOnSet(F, Monomials)
  <2>1. h \in [T -> Monomials]
    BY <1>1
  <2>2. ASSUME NEW k \in T, NEW l \in T, h[k] = h[l] PROVE k = l
    <3>1. k + 1 \in 1..pars /\ l + 1 \in 1..pars
      BY TermsType
    <3>2. decodePOLYNOM(make_codingPOLYNOM[k + 1]) = decodePOLYNOM(make_codingPOLYNOM[l + 1])
      BY <2>2 DEF ExponentsOf
    <3>3. k + 1 = l + 1
      BY <3>1, <3>2, CodesListed
    <3>4. k \in Int /\ l \in Int
      BY TermsType
    <3> QED  BY <3>3, <3>4
  <2>3. ASSUME NEW m \in Monomials PROVE \E k \in T : h[k] = m
    <3>1. PICK n \in 1..pars : decodePOLYNOM(make_codingPOLYNOM[n]) = m
      BY CodesListed
    <3>2. n - 1 \in T /\ (n - 1) + 1 = n
      BY TermsType, CodesListed
    <3>3. h[n - 1] = m
      BY <3>1, <3>2 DEF ExponentsOf
    <3> QED  BY <3>2, <3>3
  <2>4. /\ \A k, l \in T : h[k] = h[l] => k = l
        /\ \A m \in Monomials : \E k \in T : h[k] = m
    BY <2>2, <2>3
  <2>5. \A k \in T : f[k] \in Int /\ f[k] = F[h[k]]
    BY <1>2
  <2> HIDE DEF h, f, F, T
  <2> QED  BY ONLY <1>1, <2>1, <2>4, <2>5, SumRenamed
<1>5. DOMAIN F = Monomials /\ IsFiniteSet(Monomials)
  BY MonomialsCounted DEF LawTerms
<1>6. \A m \in Monomials : F[m] \in Int
  <2> TAKE m \in Monomials
  <2>1. Factors(x, act, m)
    BY WindowFactors
  <2>2. law[m] \in Int /\ Product(x, act, m) \in Int
    BY <2>1, ProductType, FieldType
  <2>3. law[m] * Product(x, act, m) \in Int
    BY <2>2, TimesType
  <2> QED  BY <2>3 DEF LawTerms
<1>7. Combined(T, y, u) = SumFunctionOnSet(yu, T)
  <2> HIDE DEF u, y
  <2> QED  BY DEF Combined
<1> HIDE DEF T, y, u, F, h, f, yu, g
<1>8. /\ Total(F) \in Field /\ Total(F) \in Int
      /\ SumFunctionOnSet(F, Monomials) \in Int /\ Same(Total(F), SumFunctionOnSet(F, Monomials))
  BY <1>5, <1>6, TotalSame
<1>9. /\ SumFunctionOnSet(f, T) \in Int /\ SumFunctionOnSet(g, T) \in Int
      /\ SumFunctionOnSet(yu, T) \in Int
      /\ Same(SumFunctionOnSet(f, T), SumFunctionOnSet(g, T))
      /\ SumFunctionOnSet(g, T) = scale * SumFunctionOnSet(yu, T)
  BY <1>1, <1>2, SumIsInt, SameSums, SumOfMultiples
<1>10. Same(Total(F), SumFunctionOnSet(g, T))
  BY <1>4, <1>8, <1>9, SameThrough
<1> QED  BY <1>3, <1>7, <1>8, <1>9, <1>10 DEF T, y, u

LEMMA LawIsWanted ==
  ASSUME ForecastTypes, Based, Rescaled, method = "Polynom"
  PROVE  /\ law \in [Monomials -> Field] /\ LawScaled \in [Terms -> Field] /\ Wanted(LawScaled)
<1> DEFINE y == LawScaled
<1>1. /\ law \in Laws /\ Follows(history, law, Span + 1, LENGTH - 1) /\ history \in [Positions -> Field]
      /\ offset = 0 /\ scale \in NonZero /\ scale \in Int
  BY UnitType DEF ForecastTypes, Rescaled
<1>2. law \in [Monomials -> Field]
  BY <1>1, ForecastAssumption
<1>3. y \in [Terms -> Field]
  BY <1>1, <1>2, LawScaledType
<1>4. ASSUME NEW act \in Rows
      PROVE  LeftOver(Terms, NextValues, RowTerms, y, act) \in Int
             /\ Same(LeftOver(Terms, NextValues, RowTerms, y, act), 0)
  <2> DEFINE K == Combined(Terms, y, RowTerms[act])
             a == series[act + 1]
             h == history[act + 1]
             l == Lawful(law, history, act)
             sK == scale * K
             sa == scale * a
  <2>1. /\ Windowed(history, act) /\ Windowed(series, act)
        /\ ScaledWindow(scale, history, act, series, act)
    BY <1>1, RowScaled
  <2>2. RowTerms[act] = TermsOf(series, act) /\ NextValues[act] = a
    BY RowTermsType
  <2>3. l \in Field /\ l \in Int /\ K \in Int /\ Same(l, sK)
    BY <1>1, <1>2, <2>1, <2>2, LawOfScaled
  <2>4. h = l
    <3>1. act + 1 \in (Span + 1)..(LENGTH - 1) /\ (act + 1) - 1 = act
      BY SpanCovers DEF Rows
    <3> QED  BY <1>1, <3>1 DEF Follows
  <2>5. a \in Int /\ h \in Int /\ Same(sa, h)
    <3>1. act + 1 \in Positions
      BY RowsType
    <3>2. a \in Int /\ h \in Int /\ Same(sa, h - offset)
      BY <1>1, <3>1, SeriesScaled
    <3>3. h - offset = h
      BY <1>1, <3>2
    <3> QED  BY <3>2, <3>3
  <2>6. LeftOver(Terms, NextValues, RowTerms, y, act) = a - K
    BY <2>2 DEF LeftOver
  <2> HIDE DEF K, a, h, l
  <2>7. sa \in Int /\ sK \in Int
    BY <1>1, <2>3, <2>5, TimesType
  <2>8. a * scale = sa /\ K * scale = sK
    BY <1>1, <2>3, <2>5
  <2> HIDE DEF sa, sK
  <2>9. Same(sa, sK)
    BY <2>3, <2>4, <2>5, <2>7, SameThrough
  <2>10. Same(a, K)
    <3>1. Same(a * scale, K * scale)
      BY <2>8, <2>9
    <3> QED  BY <1>1, <2>3, <2>5, <3>1, SameCancels
  <2>11. (a - K) - 0 = a - K /\ a - K \in Int
    BY <2>3, <2>5
  <2> QED  BY <2>6, <2>10, <2>11 DEF Same
<1>5. ASSUME NEW k \in Terms
      PROVE  Same(SumFunctionOnSet([act \in Rows |-> LeftTimes(Terms, NextValues, RowTerms, y, act, k)], Rows), 0)
  <2> DEFINE f == [act \in Rows |-> LeftTimes(Terms, NextValues, RowTerms, y, act, k)]
  <2>1. ASSUME NEW act \in Rows PROVE f[act] \in Int /\ Same(f[act], 0)
    <3> DEFINE a == LeftOver(Terms, NextValues, RowTerms, y, act)
               b == RowTerms[act][k]
               none == 0
    <3>1. a \in Int /\ b \in Int /\ none \in Int /\ Same(a, none)
      BY <1>4, RowTermsType
    <3>2. f[act] = a * b
      BY DEF LeftTimes
    <3> HIDE DEF a, b, none, f
    <3>3. a * b \in Int /\ Same(a * b, none * b)
      BY <3>1, TimesType, SameItself, SameTimes
    <3>4. none * b = 0
      BY <3>1 DEF none
    <3> QED  BY <3>2, <3>3, <3>4
  <2> HIDE DEF f
  <2>2. Same(SumFunctionOnSet(f, Rows), 0)
    BY <2>1, RowsType, SumOfNothing
  <2> QED  BY <2>2 DEF f
<1>6. Wanted(y)
  BY <1>5 DEF Wanted, IsNormal
<1> QED  BY <1>2, <1>3, <1>6

(* The series as it was, and the predictions. *)
PredictedSeries ==
  [n \in 0..(LENGTH - 1 + Len(PREDICTION)) |->
     IF n < LENGTH THEN history[n] ELSE PREDICTION[n - LENGTH + 1]]

LEMMA PredictionsFollow ==
  ASSUME ForecastTypes, Based, Rescaled, Casting, method = "Polynom"
  PROVE  Follows(PredictedSeries, law, LENGTH, LENGTH - 1 + Len(PREDICTION))
<1> DEFINE F == PredictedSeries
           C == Continued
           L == Len(PREDICTION)
<1>1. /\ law \in [Monomials -> Field] /\ LawScaled = vec /\ vec \in [Terms -> Field]
      /\ PREDICTION \in Seq(Field) /\ CastsFollow
  BY LawIsWanted DEF Casting
<1>2. /\ L \in Nat /\ LENGTH \in Nat /\ LENGTH > Span + 1 /\ Span \in Nat
      /\ C \in [0..(LENGTH - 1 + L) -> Field]
      /\ \A n \in LENGTH..(LENGTH + L) : Windowed(C, n - 1)
  BY <1>1, ContinuedType, SpanCovers
<1>3. history \in [Positions -> Field] /\ offset = 0 /\ scale \in NonZero /\ scale \in Int
  BY UnitType DEF ForecastTypes, Rescaled
<1>4. ASSUME NEW n \in 0..(LENGTH - 1 + L)
      PROVE  F[n] \in Field /\ F[n] \in Int /\ C[n] \in Int /\ Same(F[n], scale * C[n])
  <2>1. C[n] \in Int
    BY <1>2, FieldType
  <2> DEFINE fn == F[n]
             cn == C[n]
  <2>2. fn \in Field /\ fn \in Int /\ Same(scale * cn, fn)
    <3>1. CASE n < LENGTH
      <4>1. n \in Positions
        BY <1>2, <3>1 DEF Positions
      <4>2. fn = history[n] /\ cn = series[n]
        BY <3>1 DEF PredictedSeries, Continued
      <4>3. history[n] \in Field /\ history[n] \in Int /\ Same(scale * series[n], history[n] - offset)
        BY <1>3, <4>1, SeriesScaled
      <4>4. history[n] - offset = history[n]
        BY <1>3, <4>3
      <4> QED  BY <4>2, <4>3, <4>4
    <3>2. CASE ~(n < LENGTH)
      <4>1. n - LENGTH + 1 \in 1..L
        BY <1>2, <3>2
      <4> DEFINE e == PREDICTION[n - LENGTH + 1]
      <4>2. fn = e /\ cn = Over(e - offset, scale) /\ e \in Field /\ e \in Int
        BY <1>1, <3>2, <4>1, FieldType DEF PredictedSeries, Continued
      <4> HIDE DEF e, fn, cn
      <4>3. e - offset = e
        BY <1>3, <4>2
      <4>4. cn \in Int /\ Same(cn * scale, e)
        BY <1>3, <4>2, <4>3, OverMeans
      <4>5. cn * scale = scale * cn
        BY <1>3, <4>4
      <4> QED  BY <4>2, <4>4, <4>5
    <3> QED  BY <3>1, <3>2
  <2> HIDE DEF fn, cn
  <2>3. cn \in Int
    BY <2>1 DEF cn
  <2>4. scale * cn \in Int
    BY <1>3, <2>3, TimesType
  <2> DEFINE y == scale * cn
  <2>5. y \in Int /\ Same(y, fn)
    BY <2>2, <2>4
  <2> HIDE DEF y
  <2>6. Same(fn, y)
    BY <2>2, <2>5, SameBack
  <2> QED  BY <2>1, <2>2, <2>6 DEF fn, cn, y
<1> HIDE DEF F, C
<1>5. ASSUME NEW n \in LENGTH..(LENGTH - 1 + L) PROVE F[n] = Lawful(law, F, n - 1)
  <2>1. n \in 0..(LENGTH - 1 + L) /\ n \in LENGTH..(LENGTH + L)
    BY <1>2
  <2>2. ASSUME NEW d \in 0..(DIM - 1)
        PROVE  /\ F[(n - 1) - d * DELAY] \in Field
               /\ Same(F[(n - 1) - d * DELAY], scale * C[(n - 1) - d * DELAY])
    <3> DEFINE b == d * DELAY
               where == (n - 1) - b
    <3>1. b \in Nat /\ b <= Span
      BY SpanCovers
    <3> HIDE DEF b
    <3>2. where \in 0..(LENGTH - 1 + L)
      BY <1>2, <3>1
    <3> HIDE DEF where
    <3>3. F[where] \in Field /\ Same(F[where], scale * C[where])
      BY <1>4, <3>2
    <3> QED  BY <3>3 DEF where, b
  <2> DEFINE z == n - 1
  <2>3. Windowed(F, z) /\ Windowed(C, z) /\ ScaledWindow(scale, F, z, C, z)
    BY <1>2, <2>1, <2>2 DEF Windowed, ScaledWindow
  <2>4. C[n] = Casted(C, z)
    BY <1>1 DEF CastsFollow, C
  <2> HIDE DEF z
  <2> DEFINE l == Lawful(law, F, z)
             K == Combined(Terms, vec, TermsOf(C, z))
             d == Casted(C, z)
             fn == F[n]
  <2>5. l \in Field /\ l \in Int /\ K \in Int /\ Same(l, scale * K)
    BY <1>1, <1>3, <2>3, LawOfScaled
  <2>6. d \in Int /\ Same(d, K)
    BY <1>1, <2>3, CastedMeans
  <2>7. fn \in Field /\ fn \in Int /\ Same(fn, scale * d)
    BY <1>4, <2>1, <2>4
  <2> HIDE DEF l, K, d, fn
  <2> DEFINE sd == scale * d
             sK == scale * K
  <2>8. sd \in Int /\ sK \in Int /\ Same(sd, sK)
    BY <1>3, <2>5, <2>6, TimesType, SameTimesSame
  <2>9. Same(fn, sd) /\ Same(l, sK)
    BY <2>5, <2>7
  <2> HIDE DEF sd, sK
  <2>10. Same(fn, sK)
    BY <2>7, <2>8, <2>9, SameThrough
  <2>11. Same(sK, l)
    BY <2>5, <2>8, <2>9, SameBack
  <2>12. Same(fn, l)
    BY <2>5, <2>7, <2>8, <2>10, <2>11, SameThrough
  <2>13. fn = l
    BY <2>5, <2>7, <2>12, FieldSame
  <2> QED  BY <2>13 DEF fn, l, z
<1> QED  BY <1>5 DEF Follows, F

(* A series that follows a recurrence of order at most N is continued by it *)
(* whenever the equations have one solution, whatever the order, the delay, *)
(* the length and the scale; and the codes of the basis are the products of *)
(* order at most N, each once, and as many as number_parsPOLYNOM counts.    *)
THEOREM LawIsContinued == ForecastSpec => []LawIsFound
<1>1. ForecastIInv => LawIsFound
  <2> SUFFICES ASSUME ForecastIInv PROVE LawIsFound
    OBVIOUS
  <2>1. CodesAreMonomials
    <3>1. coding \in {<<>>, make_codingPOLYNOM}
      BY DEF ForecastIInv, ForecastTypes
    <3> QED  BY <3>1, CodesListed, MonomialsCounted DEF CodesAreMonomials
  <2>2. ASSUME method = "Polynom", step = "cast", Finite
        PROVE  Follows(PredictedSeries, law, LENGTH, LENGTH - 1 + Len(PREDICTION))
    BY <2>2, PredictionsFollow DEF ForecastIInv
  <2> QED  BY <2>1, <2>2 DEF LawIsFound, PredictedSeries
<1> QED  BY <1>1, ForecastInvariant, PTL

============================================================================
