----------------------------- MODULE Prediction -----------------------------
(* How the two schedulers with prediction use the temperatures of a server: *)
(* a server that runs VMs samples its inlet from time to time into a window *)
(* (Server.cpp); when VMs wait and a window is full, the scheduler extends  *)
(* it into the future and notes what it predicts and for when               *)
(* (SchedulingAlgorithm.cpp); when that second comes the data center        *)
(* compares it with the inlet (DataCenter.cpp).                             *)
(*                                                                          *)
(* What the regression returns is a pick; Forecast has its algorithm.  The  *)
(* modes of a server are reduced to what matters here: "active" servers are *)
(* sampled and predicted, "migrating" ones are sampled, those "away" (off,  *)
(* pooled, booting) neither.                                                *)
EXTENDS Integers, FiniteSets, Sequences, Functions

CONSTANTS
  Servers,
  MONITORINGTIME,          \* seconds between two samples
  SIZEWINDOWNPREDICTION,   \* samples in a full window
  CLENGTH,                 \* steps to predict
  Temperatures,            \* of the inlets
  Predicted,               \* what the regression may return for one step
  RelativeError,           \* |1 - predicted / inlet|, in some unit
  LowestPredicted, HighestPredicted,  \* what is believed: 10 to 32 degrees
  MaxClock                 \* bound of the model

ASSUME PredictionAssumption ==
  /\ IsFiniteSet(Servers)
  /\ MONITORINGTIME \in Nat \ {0}
  /\ SIZEWINDOWNPREDICTION \in Nat \ {0}
  /\ CLENGTH \in Nat \ {0}
  /\ Temperatures \subseteq Int /\ Predicted \subseteq Int
  /\ RelativeError \in [Predicted -> [Temperatures -> Nat]]
  /\ \A p \in Predicted, t \in Temperatures : RelativeError[p][t] = 0 <=> p = t
  /\ LowestPredicted \in Int /\ HighestPredicted \in Int
  /\ MaxClock \in Nat

VARIABLES
  pc,
  clock,
  mode,
  inlet,
  temperatureServer,   \* the window: temperature and second of each sample
  predictions,         \* temperaturePredictionServer with timePredictionServer
  hitPrediction, errorPrediction,
  numberElements, RMSE, errorMean, varianceErrorMean,
  missed               \* history: the sampling seconds a server was away

counts == <<hitPrediction, errorPrediction>>
evaluation == <<numberElements, RMSE, errorMean, varianceErrorMean>>
vars == <<pc, clock, mode, inlet, temperatureServer, predictions, counts, evaluation,
          missed>>

Ahead == CLENGTH * MONITORINGTIME

Init ==
  /\ pc = "assign" /\ clock = 0
  /\ mode = [s \in Servers |-> "active"]
  /\ inlet \in [Servers -> Temperatures]
  /\ temperatureServer = [s \in Servers |-> <<>>]
  /\ predictions = [s \in Servers |-> <<>>]
  /\ hitPrediction = [s \in Servers |-> 0]
  /\ errorPrediction = [s \in Servers |-> 0]
  /\ numberElements = [s \in Servers |-> 0]
  /\ RMSE = [s \in Servers |-> 0]
  /\ errorMean = [s \in Servers |-> 0]
  /\ varianceErrorMean = [s \in Servers |-> <<>>]
  /\ missed = [s \in Servers |-> {}]

-----------------------------------------------------------------------------
(* The servers whose future AssignVMs asks for. *)
Candidates ==
  {s \in Servers : mode[s] = "active" /\ Len(temperatureServer[s]) = SIZEWINDOWNPREDICTION}

(* The regression divides by the standard deviation of the window. *)
Flat(s) ==
  \A m, n \in DOMAIN temperatureServer[s] :
    temperatureServer[s][m].temp = temperatureServer[s][n].temp

Believed(temp) == LowestPredicted <= temp /\ temp <= HighestPredicted

(* The temperature and the second go to two queues that move together.    *)
insertPrediction(s, temp) ==
  Append(predictions[s], [temp |-> temp, due |-> clock + Ahead])

(* Of the steps that are predicted the last is used or, when it is out of  *)
(* range, the first, which is noted for the second of the last all the     *)
(* same; when both are out of range nothing is noted.                      *)
(* Mutant: the first step is noted for its own second.                     *)
NoteAtItsSecond(first, last) ==
  predictions' = [s \in Servers |->
    IF s \notin Candidates THEN predictions[s]
    ELSE IF Believed(last[s])
      THEN Append(predictions[s], [temp |-> last[s], due |-> clock + Ahead])
    ELSE IF Believed(first[s])
      THEN Append(predictions[s], [temp |-> first[s], due |-> clock + MONITORINGTIME])
    ELSE predictions[s]]

Note(first, last) ==
  predictions' = [s \in Servers |->
    IF s \notin Candidates THEN predictions[s]
    ELSE IF Believed(last[s])
      THEN insertPrediction(s, last[s])
    ELSE IF Believed(first[s])
      THEN insertPrediction(s, first[s])
    ELSE predictions[s]]

(* AssignVMs, when VMs wait. *)
AssignVMs(first, last) ==
  LET hit == {s \in Candidates : Believed(first[s]) \/ Believed(last[s])}
  IN
  /\ pc = "assign"
  /\ \A s \in Candidates : ~ Flat(s)
  /\ Note(first, last)
  /\ hitPrediction' = [s \in Servers |-> hitPrediction[s] + IF s \in hit THEN 1 ELSE 0]
  /\ errorPrediction' = [s \in Servers |->
       errorPrediction[s] + IF s \in Candidates \ hit THEN 1 ELSE 0]
  /\ pc' = "modes"
  /\ UNCHANGED <<clock, mode, inlet, temperatureServer, evaluation, missed>>

(* Without variance, or with a singular matrix, the regression calls exit: *)
(* the whole simulation is over.                                           *)
Exit ==
  /\ pc = "assign"
  /\ Candidates # {}
  /\ pc' = "exited"
  /\ UNCHANGED <<clock, mode, inlet, temperatureServer, predictions, counts,
                 evaluation, missed>>

NoVMsWait ==
  /\ pc = "assign" /\ pc' = "modes"
  /\ UNCHANGED <<clock, mode, inlet, temperatureServer, predictions, counts,
                 evaluation, missed>>

-----------------------------------------------------------------------------
(* Scheduler, policies and pool change modes.                              *)
ChangeMode(s, m) ==
  /\ pc = "modes" /\ mode[s] # m
  /\ mode' = [mode EXCEPT ![s] = m]
  /\ pc' = "servers"
  /\ UNCHANGED <<clock, inlet, temperatureServer, predictions, counts, evaluation, missed>>

KeepModes ==
  /\ pc = "modes" /\ pc' = "servers"
  /\ UNCHANGED <<clock, mode, inlet, temperatureServer, predictions, counts, evaluation,
                 missed>>

-----------------------------------------------------------------------------
(* DataCenter::EveryASecond and calculateRMSE, of a server in any mode.    *)
(* -1 as an unsigned number is a second that no clock reaches. *)
returnFirstTimePredictionServer(s) ==
  IF predictions[s] # <<>> THEN Head(predictions[s]).due ELSE -1

Due(s) == clock = returnFirstTimePredictionServer(s)

Error(s) == RelativeError[Head(predictions[s]).temp][inlet[s]]

(* Mutant: the error of the last step stands for all. *)
calculateLast ==
  /\ predictions' = [s \in Servers |->
       IF Due(s) THEN Tail(predictions[s]) ELSE predictions[s]]
  /\ numberElements' = [s \in Servers |-> numberElements[s] + IF Due(s) THEN 1 ELSE 0]
  /\ RMSE' = [s \in Servers |->
       RMSE[s] + IF Due(s) THEN LET diff == Head(predictions[s]).temp - inlet[s]
                                IN  diff * diff
                 ELSE 0]
  /\ errorMean' = [s \in Servers |-> IF Due(s) THEN Error(s) ELSE errorMean[s]]
  /\ varianceErrorMean' = [s \in Servers |->
       IF Due(s) THEN Append(varianceErrorMean[s], Error(s)) ELSE varianceErrorMean[s]]

calculateRMSE ==
  /\ predictions' = [s \in Servers |->
       IF Due(s) THEN Tail(predictions[s]) ELSE predictions[s]]
  /\ numberElements' = [s \in Servers |-> numberElements[s] + IF Due(s) THEN 1 ELSE 0]
  /\ RMSE' = [s \in Servers |->
       RMSE[s] + IF Due(s) THEN LET diff == Head(predictions[s]).temp - inlet[s]
                                IN  diff * diff
                 ELSE 0]
  /\ errorMean' = [s \in Servers |-> errorMean[s] + IF Due(s) THEN Error(s) ELSE 0]
  /\ varianceErrorMean' = [s \in Servers |->
       IF Due(s) THEN Append(varianceErrorMean[s], Error(s)) ELSE varianceErrorMean[s]]

(* Mutant: the window is full one sample later. *)
SlideLate(window) ==
  IF Len(window) > SIZEWINDOWNPREDICTION + 1 THEN Tail(window) ELSE window

(* Server::EveryASecond: the sample, and the window that slides.           *)
Slide(window) ==
  IF Len(window) > SIZEWINDOWNPREDICTION THEN Tail(window) ELSE window

Sampled(s) ==
  IF clock % MONITORINGTIME = 0
  THEN Append(temperatureServer[s], [temp |-> inlet[s], time |-> clock])
  ELSE temperatureServer[s]

RunServers ==
  /\ pc = "servers" /\ clock < MaxClock
  /\ calculateRMSE
  /\ temperatureServer' = [s \in Servers |->
       IF mode[s] = "away" THEN temperatureServer[s] ELSE Slide(Sampled(s))]
  /\ missed' = [s \in Servers |->
       IF mode[s] = "away" /\ clock % MONITORINGTIME = 0
       THEN missed[s] \cup {clock} ELSE missed[s]]
  /\ clock' = clock + 1
  /\ inlet' \in [Servers -> Temperatures]
  /\ pc' = "assign"
  /\ UNCHANGED <<mode, counts>>

Next ==
  \/ \E first, last \in [Servers -> Predicted] : AssignVMs(first, last)
  \/ Exit
  \/ NoVMsWait
  \/ \E s \in Servers, m \in {"active", "migrating", "away"} : ChangeMode(s, m)
  \/ KeepModes
  \/ RunServers

Spec == Init /\ [][Next]_vars

-----------------------------------------------------------------------------
TypeOK ==
  /\ pc \in {"assign", "modes", "servers", "exited"}
  /\ clock \in Nat
  /\ mode \in [Servers -> {"active", "migrating", "away"}]
  /\ inlet \in [Servers -> Temperatures]
  /\ temperatureServer \in [Servers -> Seq([temp : Temperatures, time : Nat])]
  /\ predictions \in [Servers -> Seq([temp : Predicted, due : Nat])]
  /\ hitPrediction \in [Servers -> Nat] /\ errorPrediction \in [Servers -> Nat]
  /\ numberElements \in [Servers -> Nat] /\ RMSE \in [Servers -> Int]
  /\ errorMean \in [Servers -> Nat] /\ varianceErrorMean \in [Servers -> Seq(Nat)]
  /\ missed \in [Servers -> SUBSET Nat]

(* The statistics PrintResults prints of every server, as fractions        *)
(* <<numerator, denominator>>; root and quotient are given as squares.  A  *)
(* server whose predictions were never compared divides 0 by 0, which is   *)
(* no number: no comparison holds of it, and a zero is printed.            *)
Printed(x) == IF x[2] = 0 THEN <<0, 1>> ELSE x

RMSELine(s) == Printed(<<RMSE[s], numberElements[s]>>)

MeanLine(s) == Printed(<<errorMean[s], numberElements[s]>>)

(* From the average that no error is taken from; of one error it is 0 / 0, *)
(* and of none 0 divided by the greatest unsigned number.                  *)
returnVarianceErrorMean(s) ==
  LET errors == varianceErrorMean[s]
      n == Len(errors)
      deviation(k) == numberElements[s] * errors[k] - errorMean[s]
  IN  IF n = 0 THEN <<0, 1>>
      ELSE <<SumFunction([k \in 1..n |-> deviation(k) * deviation(k)]),
             numberElements[s] * numberElements[s] * (n - 1)>>

VarianceLine(s) == Printed(returnVarianceErrorMean(s))

SDLine(s) == Printed(returnVarianceErrorMean(s))

CoefficientLine(s) ==
  LET var == returnVarianceErrorMean(s)
  IN  Printed(<<var[1] * numberElements[s] * numberElements[s],
                var[2] * errorMean[s] * errorMean[s]>>)

TotalHits == SumFunction(hitPrediction)

(* The lines of a server agree: the averages are of its recorded errors,   *)
(* both are 0 only when each prediction that was compared came true, the   *)
(* variance is the mean square less the squared mean, times n / (n - 1),   *)
(* and the coefficient of variation is 0 only when the deviation is.  The  *)
(* hits printed beside them may be more than the lines are about, by the   *)
(* predictions that still wait for their second.                           *)
StatisticsAgree ==
  /\ TotalHits >= SumFunction([s \in Servers |-> Len(varianceErrorMean[s])])
  /\ \A s \in Servers :
       LET errors == varianceErrorMean[s]
           n == Len(errors)
           squares == [k \in 1..n |-> errors[k] * errors[k]]
       IN  /\ RMSELine(s)[1] = 0 <=> MeanLine(s)[1] = 0
           /\ MeanLine(s)[1] = 0 <=> \A k \in 1..n : errors[k] = 0
           /\ CoefficientLine(s)[1] = 0 <=> SDLine(s)[1] = 0
           /\ n > 1 =>
                /\ MeanLine(s)[2] = n
                /\ VarianceLine(s) =
                     <<n * (n * SumFunction(squares) - MeanLine(s)[1] * MeanLine(s)[1]),
                       n * n * (n - 1)>>
           /\ n <= 1 => VarianceLine(s)[1] = 0

(* A prediction is compared in its second or never: the queue is in the    *)
(* order of its seconds, with one prediction for each, and none of them is *)
(* past, although only the first is looked at and only for equality, and   *)
(* a server goes through all modes meanwhile.                              *)
NoPredictionMissed ==
  \A s \in Servers :
    /\ \A m, n \in DOMAIN predictions[s] :
         m < n => predictions[s][m].due < predictions[s][n].due
    /\ \A n \in DOMAIN predictions[s] :
         predictions[s][n].due \in clock..(clock + Ahead)

(* Every hit was compared or waits for its second: the errors printed at   *)
(* the end are averages over all hits but those.                           *)
HitsAreCompared ==
  \A s \in Servers : hitPrediction[s] = numberElements[s] + Len(predictions[s])

(* Each prediction is compared once, in its second, or still waits for it. *)
PredictionsCompared == NoPredictionMissed /\ HitsAreCompared

(* The window holds the last samples, at most a full window, and no sample *)
(* between two of them or after the last is missing but for the seconds in *)
(* which the server was away.  (The regression takes them to be equally    *)
(* spaced nevertheless.)                                                   *)
WindowHasNoGap ==
  \A s \in Servers :
    LET w == temperatureServer[s]
    IN  /\ Len(w) <= SIZEWINDOWNPREDICTION
        /\ \A n \in DOMAIN w :
             LET next == IF n = Len(w) THEN clock ELSE w[n + 1].time
             IN  /\ w[n].time < next
                 /\ \A t \in (w[n].time + 1)..(next - 1) :
                      t % MONITORINGTIME = 0 => t \in missed[s]

=============================================================================
