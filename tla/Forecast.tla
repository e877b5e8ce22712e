------------------------------ MODULE Forecast ------------------------------
(* The two regressions of AlgorithmPrediction.cpp, taken from TISEAN:       *)
(* runPolynom, which predicts inlet temperatures, and runRBF, which was to  *)
(* predict arrivals of VMs.  Both scale the series, fit "next value = sum   *)
(* of coefficients times basis functions of the DIM values before it" by    *)
(* least squares (solvele, RoutinesTisean.cpp), and cast CLENGTH values,    *)
(* each from those before.                                                  *)
(*                                                                          *)
(* The numbers are those of the field of P elements, in which the algebra   *)
(* of the fit is exact, instead of doubles: a pivot is zero here far more   *)
(* often.  The scale of the series (its deviation or range), the width of   *)
(* the kernel and the drift of the centers, which only matter numerically,  *)
(* are picks.  STEP is 1 and INSAMPLE is LENGTH whenever this code runs.    *)
EXTENDS Integers, Sequences, FiniteSets, Functions, SequencesExt

CONSTANTS
  P,               \* a prime
  DIM, DELAY,      \* values a prediction is made from, and their distance
  N,               \* order of the polynomial
  CENTER,          \* centers of the radial basis
  Casts,           \* values to cast: CLENGTH
  LENGTH,          \* of the series
  Laws, SeriesOf,  \* functions on Monomials: recurrences, and series that follow each
  Histories,       \* series that follow none
  Scales, Offsets, Drifts, Kernels   \* what the picks are made from

Field == 0..(P - 1)

NotFinite == -1

Span == (DIM - 1) * DELAY

(* The exponents of the DIM values: all products of order at most N.       *)
Monomials == {m \in [0..(DIM - 1) -> 0..N] : SumFunction(m) <= N}

ASSUME ForecastAssumption ==
  /\ P \in Nat \ {0, 1} /\ \A a, b \in 1..(P - 1) : (a * b) % P # 0
  /\ DIM \in Nat \ {0} /\ DELAY \in Nat \ {0} /\ N \in Nat \ {0}
  /\ CENTER \in Nat \ {0, 1} /\ Casts \in Nat
  /\ LENGTH \in Nat /\ LENGTH > Span + 1
  /\ \A n \in {LENGTH, LENGTH - Span, LENGTH - Span - 1} : n % P # 0
  /\ Laws \subseteq [Monomials -> Field]
  /\ SeriesOf \in [Laws -> SUBSET [0..(LENGTH - 1) -> Field]]
  /\ Histories \subseteq [0..(LENGTH - 1) -> Field]
  /\ Scales \subseteq 1..(P - 1) /\ Offsets \subseteq Field
  /\ Drifts \subseteq [0..(CENTER - 1) -> Field] /\ Kernels \subseteq [Field -> Field]

VARIABLES
  step,                    \* where the run is
  method, law, history,    \* the input
  scale, offset, series,   \* std_dev, or interval and minimo; the scaled series
  coding, center, kernel,  \* the basis
  mat, vec, column,        \* the equations, and how far they are solved
  cast, PREDICTION

input == <<method, law, history>>
scaled == <<scale, offset, series>>
basis == <<coding, center, kernel>>
equations == <<mat, vec, column>>
forecastVars == <<step, input, scaled, basis, equations, cast, PREDICTION>>

-----------------------------------------------------------------------------
Total(f) == SumFunction(f) % P

Inverted == [a \in 1..(P - 1) |-> CHOOSE b \in Field : (a * b) % P = 1]

Over(a, b) == (a * Inverted[b]) % P

Power(a, n) ==
  LET p[k \in Nat] == IF k = 0 THEN 1 ELSE (p[k - 1] * a) % P
  IN  p[n]

(* The product of the values up to x[at], to the powers of m. *)
Product(x, at, m) ==
  LET p[dim \in 0..DIM] ==
        IF dim = 0 THEN 1
        ELSE (p[dim - 1] * Power(x[at - (dim - 1) * DELAY], m[dim - 1])) % P
  IN  p[DIM]

(* The value a law gives for the element after x[at]. *)
Lawful(l, x, at) == Total([m \in Monomials |-> l[m] * Product(x, at, m)])

Follows(x, l, first, last) == \A n \in first..last : x[n] = Lawful(l, x, n - 1)

ForecastInit ==
  /\ step = "start"
  /\ \/ /\ method = "Polynom"
        /\ law \in Laws
        /\ history \in SeriesOf[law] /\ Follows(history, law, Span + 1, LENGTH - 1)
     \/ /\ method = "RBF"
        /\ law = <<>>
        /\ history \in Histories
  /\ scale = 1 /\ offset = 0 /\ series = <<>>
  /\ coding = <<>> /\ center = <<>> /\ kernel = <<>>
  /\ mat = <<>> /\ vec = <<>> /\ column = 0
  /\ cast = <<>> /\ PREDICTION = <<>>

-----------------------------------------------------------------------------
(* variance: the program ends when all values are equal. *)
variance == Cardinality({history[n] : n \in DOMAIN history})

ZeroVariance ==
  /\ step = "start" /\ variance = 1
  /\ step' = "exited"
  /\ UNCHANGED <<input, scaled, basis, equations, cast, PREDICTION>>

rescale_data(s, o) ==
  /\ scale' = s /\ offset' = o
  /\ series' = [n \in DOMAIN history |-> Over(history[n] - o, s)]

(* Digits of a code to the base N + 1 are exponents. *)
decodePOLYNOM(cur) ==
  LET rest[d \in Nat] == IF d = 0 THEN cur ELSE rest[d - 1] \div (N + 1)
  IN  [d \in 0..(DIM - 1) |-> rest[d] % (N + 1)]

polynom(x, act, cur) == Product(x, act, decodePOLYNOM(cur))

number_parsPOLYNOM ==
  LET count[ord \in Nat] ==
        IF ord <= 1 THEN [start \in 1..DIM |-> DIM - start + 1]
        ELSE [start \in 1..DIM |-> SumFunctionOnSet(count[ord - 1], start..DIM)]
  IN  [ord \in 1..N |-> count[ord][1]]

pars == 1 + SumFunction(number_parsPOLYNOM)

(* Codes of d values; the exponent of the newest is the lowest digit. *)
make_codingPOLYNOM ==
  LET code[d \in Nat] ==
        IF d = 0 THEN [ord \in 0..N |-> <<0>>]
        ELSE [ord \in 0..N |-> FlattenSeq([j \in 1..(ord + 1) |->
               LET rest == code[d - 1][ord - (j - 1)]
               IN  [k \in DOMAIN rest |-> (j - 1) + (N + 1) * rest[k]]])]
  IN  code[DIM][N]

runPolynom ==
  /\ step = "start" /\ method = "Polynom" /\ variance > 1
  /\ \E s \in Scales : rescale_data(s, 0)
  /\ coding' = make_codingPOLYNOM
  /\ step' = "fit"
  /\ UNCHANGED <<input, center, kernel, equations, cast, PREDICTION>>

-----------------------------------------------------------------------------
(* The centers are windows of the series, from the first to the last, ...  *)
Centers == 0..((IF CENTER > LENGTH THEN LENGTH ELSE CENTER) - 1)

CenterAt(i, d) ==
  Span - d * DELAY + (i * (LENGTH - 1 - Span)) \div (Cardinality(Centers) - 1)

runRBF ==
  /\ step = "start" /\ method = "RBF" /\ variance > 1
  /\ \E s \in Scales, o \in Offsets : rescale_data(s, o)
  /\ center' = [i \in Centers |-> [d \in 0..(DIM - 1) |-> series'[CenterAt(i, d)]]]
  /\ step' = "drift"
  /\ UNCHANGED <<input, coding, kernel, equations, cast, PREDICTION>>

(* ... moved apart; the width of the kernel is their mean distance.        *)
driftRBF ==
  /\ step = "drift"
  /\ \E h1 \in Drifts :
       center' = [i \in Centers |-> [d \in 0..(DIM - 1) |-> (center[i][d] + h1[i]) % P]]
  /\ kernel' \in Kernels
  /\ step' = "fit"
  /\ UNCHANGED <<input, scaled, coding, equations, cast, PREDICTION>>

rbf(x, act, cen) ==
  kernel[Total([d \in 0..(DIM - 1) |->
                  (x[act - d * DELAY] - cen[d]) * (x[act - d * DELAY] - cen[d])])]

-----------------------------------------------------------------------------
Terms == 0..((IF method = "Polynom" THEN Len(coding) ELSE Cardinality(Centers) + 1) - 1)

Term(k, x, act) ==
  IF method = "Polynom" THEN polynom(x, act, coding[k + 1])
  ELSE IF k = 0 THEN 1 ELSE rbf(x, act, center[k - 1])

(* The positions whose next value is known. *)
Rows == Span..(LENGTH - 2)

(* The equations: means of the terms' products with each other and with    *)
(* the next value.                                                         *)
Equations(t) ==
  LET mean(f) == Over(Total(f), Cardinality(Rows) % P)
  IN  /\ mat' = [i \in Terms |-> [j \in Terms |->
                   mean([act \in Rows |-> t[act][i] * t[act][j]])]]
      /\ vec' = [i \in Terms |-> mean([act \in Rows |-> series[act + 1] * t[act][i]])]

make_fitPOLYNOM ==
  /\ step = "fit" /\ method = "Polynom"
  /\ Equations([act \in Rows |-> [k \in Terms |-> polynom(series, act, coding[k + 1])]])
  /\ step' = "solve"
  /\ UNCHANGED <<input, scaled, basis, column, cast, PREDICTION>>

make_fitRBF ==
  /\ step = "fit" /\ method = "RBF"
  /\ Equations([act \in Rows |-> [k \in Terms |->
       IF k = 0 THEN 1 ELSE rbf(series, act, center[k - 1])]])
  /\ step' = "solve"
  /\ UNCHANGED <<input, scaled, basis, column, cast, PREDICTION>>

-----------------------------------------------------------------------------
(* solvele: elimination, with the largest entry of a column as its pivot.  *)
LastRow == Cardinality(Terms) - 1

fabs(a) == IF 2 * a > P THEN P - a ELSE a

maxi ==
  CHOOSE j \in column..LastRow : \A k \in column..LastRow :
    /\ fabs(mat[k][column]) <= fabs(mat[j][column])
    /\ k < j => fabs(mat[k][column]) < fabs(mat[j][column])

Swap(f) == [f EXCEPT ![column] = f[maxi], ![maxi] = f[column]]

Singular ==
  /\ step = "solve" /\ column < LastRow
  /\ mat[maxi][column] = 0
  /\ step' = "exited"
  /\ UNCHANGED <<input, scaled, basis, equations, cast, PREDICTION>>

(* Mutant: the right hand side is not swapped. *)
EliminateRowsOnly ==
  /\ step = "solve" /\ column < LastRow
  /\ mat[maxi][column] # 0
  /\ LET m == Swap(mat)
         q(j) == Over(P - m[j][column], m[column][column])
     IN  /\ mat' = [j \in Terms |-> IF j <= column THEN m[j] ELSE
                      [k \in Terms |-> (m[j][k] + q(j) * m[column][k]) % P]]
         /\ vec' = [j \in Terms |-> IF j <= column THEN vec[j]
                      ELSE (vec[j] + q(j) * vec[column]) % P]
  /\ column' = column + 1
  /\ UNCHANGED <<step, input, scaled, basis, cast, PREDICTION>>

Eliminate ==
  /\ step = "solve" /\ column < LastRow
  /\ mat[maxi][column] # 0
  /\ LET m == Swap(mat)
         v == Swap(vec)
         q(j) == Over(P - m[j][column], m[column][column])
     IN  /\ mat' = [j \in Terms |-> IF j <= column THEN m[j] ELSE
                      [k \in Terms |-> (m[j][k] + q(j) * m[column][k]) % P]]
         /\ vec' = [j \in Terms |-> IF j <= column THEN v[j]
                      ELSE (v[j] + q(j) * v[column]) % P]
  /\ column' = column + 1
  /\ UNCHANGED <<step, input, scaled, basis, cast, PREDICTION>>

(* Back substitution.  The last pivot is not tested: the results are not   *)
(* finite when it is zero.                                                 *)
Solution ==
  LET x[i \in Terms] ==
        Over(vec[i] - Total([j \in (i + 1)..LastRow |-> mat[i][j] * x[j]]), mat[i][i])
  IN  x

BackSubstitute ==
  /\ step = "solve" /\ column = LastRow
  /\ vec' = IF mat[LastRow][LastRow] = 0 THEN [k \in Terms |-> NotFinite] ELSE Solution
  /\ cast' = [i \in 0..Span |-> series[LENGTH - Span - 1 + i]]
  /\ step' = "cast"
  /\ UNCHANGED <<input, scaled, basis, mat, column, PREDICTION>>

results == vec

Finite == results[0] # NotFinite

-----------------------------------------------------------------------------
Casted(x, act) == Total([k \in Terms |-> results[k] * Term(k, x, act)])

Residual(act) == series[act + 1] - Casted(series, act)

(* The squares of the errors printed with PRINTSCREEN: the first divides   *)
(* by one more than there are rows, the second by the deviation as well.   *)
make_errorPOLYNOM ==
  Over(Total([act \in Rows |-> Residual(act) * Residual(act)]), (LENGTH - Span) % P)

forecast_errorRBF ==
  Over(Total([act \in Rows |-> Residual(act) * Residual(act)]), Cardinality(Rows) % P)

sigma ==
  LET mean(f) == Over(Total(f), LENGTH % P)
      av == mean(series)
  IN  (mean([n \in DOMAIN series |-> series[n] * series[n]]) - av * av) % P

InsampleRBF == IF sigma = 0 THEN NotFinite ELSE Over(forecast_errorRBF, sigma)

(* The coefficients printed are those of the series before it was scaled.  *)
PrintedPOLYNOM(k) ==
  LET opar == decodePOLYNOM(coding[k + 1])
  IN  Over(results[k] * scale, Power(scale, SumFunction(opar)))

PrintedRBF(k) == (results[k] * scale + (IF k = 0 THEN offset ELSE 0)) % P

(* Mutant: the newest value is stored before the window moves. *)
SlidLate(x, new) == [i \in 0..Span |-> IF i = 0 THEN new ELSE x[i]]

Slid(x, new) == [i \in 0..Span |-> IF i = Span THEN new ELSE x[i + 1]]

make_castPOLYNOM ==
  /\ step = "cast" /\ method = "Polynom" /\ Len(PREDICTION) < Casts
  /\ LET casted == IF Finite THEN Casted(cast, Span) ELSE NotFinite
     IN  /\ PREDICTION' = Append(PREDICTION, IF Finite THEN (casted * scale) % P ELSE NotFinite)
         /\ cast' = Slid(cast, casted)
  /\ UNCHANGED <<step, input, scaled, basis, equations>>

make_castRBF ==
  /\ step = "cast" /\ method = "RBF" /\ Len(PREDICTION) < Casts
  /\ LET new_el == IF Finite THEN Casted(cast, Span) ELSE NotFinite
     IN  /\ PREDICTION' = Append(PREDICTION,
                            IF Finite THEN (new_el * scale + offset) % P ELSE NotFinite)
         /\ cast' = Slid(cast, new_el)
  /\ UNCHANGED <<step, input, scaled, basis, equations>>

ForecastNext ==
  \/ ZeroVariance
  \/ runPolynom
  \/ runRBF
  \/ driftRBF
  \/ make_fitPOLYNOM
  \/ make_fitRBF
  \/ Singular
  \/ Eliminate
  \/ BackSubstitute
  \/ make_castPOLYNOM
  \/ make_castRBF

ForecastSpec == ForecastInit /\ [][ForecastNext]_forecastVars

-----------------------------------------------------------------------------
(* The codes are the products of order at most N, each once, and as many   *)
(* as number_parsPOLYNOM counts: the array of pars codes is filled and not *)
(* overrun, although another recursion fills it than counts it.            *)
CodesAreMonomials ==
  coding # <<>> =>
    /\ Len(coding) = pars
    /\ {decodePOLYNOM(coding[k]) : k \in DOMAIN coding} = Monomials
    /\ Cardinality(Monomials) = pars

(* The series as it was scaled, and the values cast, scaled too. *)
Continued ==
  [n \in 0..(LENGTH - 1 + Len(PREDICTION)) |->
     IF n < LENGTH THEN series[n] ELSE Over(PREDICTION[n - LENGTH + 1] - offset, scale)]

(* A series that follows a recurrence of order at most N is continued by   *)
(* it, whatever the scale, whenever the equations have one solution; the   *)
(* basis has all the monomials it takes, each once.                        *)
LawIsFound ==
  /\ CodesAreMonomials
  /\ (method = "Polynom" /\ step = "cast" /\ Finite) =>
       LET last == LENGTH - 1 + Len(PREDICTION)
       IN  Follows([n \in 0..last |->
                      IF n < LENGTH THEN history[n] ELSE PREDICTION[n - LENGTH + 1]],
                   law, LENGTH, last)

(* No combination of the terms is left in what the fit does not explain. *)
NormalEquations ==
  \A k \in Terms : Total([act \in Rows |-> Residual(act) * Term(k, series, act)]) = 0

CastsFollow ==
  \A n \in LENGTH..(LENGTH - 1 + Len(PREDICTION)) : Continued[n] = Casted(Continued, n - 1)

(* What is left of the values, which the errors printed are made of. *)
ErrorsPrinted ==
  LET left == Total([act \in Rows |-> Residual(act) * series[act + 1]])
  IN  IF method = "Polynom"
      THEN (make_errorPOLYNOM * (Cardinality(Rows) + 1)) % P = left
      ELSE /\ (forecast_errorRBF * Cardinality(Rows)) % P = left
           /\ sigma # 0 => (InsampleRBF * sigma * Cardinality(Rows)) % P = left

CoefficientsPrinted ==
  \A act \in Rows :
    (Casted(series, act) * scale + offset) % P =
      IF method = "Polynom"
      THEN Total([k \in Terms |-> PrintedPOLYNOM(k) * polynom(history, act, coding[k + 1])])
      ELSE Total([k \in Terms |-> PrintedRBF(k) * Term(k, series, act)])

(* What is cast for any other series is the least squares fit, applied to  *)
(* the series followed by what was cast before; the errors printed are     *)
(* what the fit leaves of the values, and the coefficients printed foretell *)
(* the series before it was scaled.                                        *)
LeastSquares ==
  (step = "cast" /\ Finite) =>
    NormalEquations /\ CastsFollow /\ ErrorsPrinted /\ CoefficientsPrinted

=============================================================================
