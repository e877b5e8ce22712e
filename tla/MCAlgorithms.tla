---------------------------- MODULE MCAlgorithms ----------------------------
(* Four sequential parts of the simulator that share no state, each with    *)
(* all its inputs: one of them runs, the others are idle.                   *)
EXTENDS Prediction, Forecast, QuickSort, Options, TLC

(* Out of 420, which both temperatures divide. *)
MCRelativeError ==
  [p \in Predicted |-> [t \in Temperatures |->
     (IF p > t THEN p - t ELSE t - p) * (420 \div t)]]

(* Polynomials with coefficients 0 and 1, and a few series without a law.  *)
MCLaws == [Monomials -> {0, 1}]

(* From every start of the series. *)
Grown(l, first) ==
  FoldLeft(LAMBDA x, n : x @@ (Span + n :> Lawful(l, x, Span + n - 1)),
           first, [n \in 1..(LENGTH - 1 - Span) |-> n])

MCSeriesOf == [l \in MCLaws |-> {Grown(l, first) : first \in [0..Span -> Field]}]

MCHistories ==
  {[n \in 0..(LENGTH - 1) |-> (a * n * n + b * (n \div 2) + 2 * (n % c)) % P] :
     a, b \in {0, 1, 3}, c \in {2, 3}}

MCDrifts ==
  {[n \in 0..(CENTER - 1) |-> 0], [n \in 0..(CENTER - 1) |-> IF n = 0 THEN 3 ELSE 0]}

MCKernels == {[r \in Field |-> (3 ^ r) % P], [r \in Field |-> (r * r + 1) % P]}

MCArguments ==
  {[text |-> t, number |-> 0] :
     t \in {Capping, Aggressiveness, ServersInChassis, Chassis, "-SKIP_x_SECONDS",
            "-SCHEDULING_ALGORITHM", "-DIM", "word"}}
  \cup {[text |-> "number", number |-> n] : n \in {-3, 5, 15, 61}}

-----------------------------------------------------------------------------
PredictionIdle ==
  LET none == [s \in Servers |-> <<>>]
      zero == [s \in Servers |-> 0]
  IN  /\ pc = "exited" /\ clock = 0 /\ mode = none /\ inlet = none
      /\ temperatureServer = none /\ predictions = none
      /\ hitPrediction = zero /\ errorPrediction = zero
      /\ numberElements = zero /\ RMSE = zero /\ errorMean = zero
      /\ varianceErrorMean = none /\ missed = none

ForecastIdle ==
  /\ step = "exited" /\ method = "none" /\ law = <<>> /\ history = <<>>
  /\ scale = 1 /\ offset = 0 /\ series = <<>>
  /\ coding = <<>> /\ center = <<>> /\ kernel = <<>>
  /\ mat = <<>> /\ vec = <<>> /\ column = 0
  /\ cast = <<>> /\ PREDICTION = <<>>

SortIdle ==
  /\ at = "idle" /\ server = <<>> /\ given = <<>> /\ calls = <<>>
  /\ begin = 0 /\ end = 0 /\ i = 0 /\ j = 0 /\ half = Unordered

OptionsIdle == argv = <<>> /\ optind = 0 /\ setting = <<>> /\ outcome = "idle"

AlgorithmsInit ==
  \/ Init /\ ForecastIdle /\ SortIdle /\ OptionsIdle
  \/ PredictionIdle /\ ForecastInit /\ SortIdle /\ OptionsIdle
  \/ PredictionIdle /\ ForecastIdle /\ SortInit /\ OptionsIdle
  \/ PredictionIdle /\ ForecastIdle /\ SortIdle /\ OptionsInit

PredictionRuns ==
  OptionsIdle /\ at = "idle" /\ method = "none"

AlgorithmsNext ==
  \/ PredictionRuns /\ Next /\ UNCHANGED <<forecastVars, sortVars, optionVars>>
  \/ ForecastNext /\ UNCHANGED <<vars, sortVars, optionVars>>
  \/ SortNext /\ UNCHANGED <<vars, forecastVars, optionVars>>
  \/ OptionsNext /\ UNCHANGED <<vars, forecastVars, sortVars>>

AlgorithmsSpec ==
  AlgorithmsInit
    /\ [][AlgorithmsNext]_<<vars, forecastVars, sortVars, optionVars>>

=============================================================================
