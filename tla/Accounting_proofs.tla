--------------------------- MODULE Accounting_proofs ---------------------------
(* The books of the simulation agree, for every data center, interval of    *)
(* the log and number of seconds: the energy that is booked per interval is *)
(* that which is booked per chassis, the distribution of the loads is that  *)
(* of the average, and every VM is counted once.                            *)
EXTENDS Report, SumTheorems

-----------------------------------------------------------------------------
(* What servers draw.                                                       *)

LEMMA QuotientOfNat ==
  ASSUME NEW x \in Nat, NEW d \in Nat \ {0}
  PROVE  x \div d \in Nat
BY QuotientRounds

LEMMA QuotientOfInt ==
  ASSUME NEW x \in Int, NEW d \in Nat \ {0}
  PROVE  x \div d \in Int
OBVIOUS

LEMMA ProductIsNat ==
  ASSUME NEW x \in Nat, NEW y \in Nat
  PROVE  x * y \in Nat
OBVIOUS

LEMMA SquareGrows ==
  ASSUME NEW p \in Nat, NEW q \in Nat, p <= q
  PROVE  p * p <= q * q
<1>1. PICK d \in Nat : q = p + d
  <2>1. q - p \in Nat /\ q = p + (q - p)
    OBVIOUS
  <2> QED  BY <2>1
<1>2. q * q = p * p + d * p + p * d + d * d
  BY <1>1
<1>3. d * p \in Nat /\ p * d \in Nat /\ d * d \in Nat /\ p * p \in Nat
  OBVIOUS
<1> QED  BY <1>2, <1>3

(* The root that the performance is, is there.                              *)
LEMMA PerformanceIsThere ==
  ASSUME NEW hot \in Int, HasPerformance(hot)
  PROVE  /\ Performance(hot) \in 0..100
         /\ hot <= EMERGENCY_TEMPERATURE => Performance(hot) = 100
<1> DEFINE left == 30 - (hot - EMERGENCY_TEMPERATURE)
<1>1. EMERGENCY_TEMPERATURE \in Nat /\ EMERGENCY_TEMPERATURE >= 1
  BY PowerAssumption
<1>2. CASE ~ (TEMPERATURE_SENSING_PERFORMANCE_CAPPING /\ left < 30)
  <2>1. Performance(hot) = 100
    BY <1>2 DEF Performance
  <2> QED  BY <2>1
<1>3. CASE TEMPERATURE_SENSING_PERFORMANCE_CAPPING /\ left < 30
  <2>1. left \in Int /\ 0 <= left /\ left <= 29
    BY <1>1, <1>3 DEF HasPerformance
  <2>2. PICK l \in 0..29 : l = left
    BY <2>1
  <2> DEFINE A == {n \in Nat : 10000 * l < 30 * (n + 1) * (n + 1)}
             Root(p) == 30 * p * p <= 10000 * l /\ 10000 * l < 30 * (p + 1) * (p + 1)
  <2>3. 99 \in A
    OBVIOUS
  <2>4. PICK p \in A : \A m \in A : p <= m
    <3>1. A \subseteq Nat
      OBVIOUS
    <3> HIDE DEF A
    <3>2. A # {}
      BY <2>3
    <3> QED  BY <3>1, <3>2, LeastNumber
  <2>5. p \in 0..99
    BY <2>3, <2>4
  <2>6. 30 * p * p <= 10000 * l
    <3>1. CASE p = 0
      BY <3>1
    <3>2. CASE p # 0
      <4>1. p - 1 \in Nat
        BY <2>5, <3>2
      <4>2. p - 1 \notin A
        BY <2>4, <2>5, <4>1
      <4>3. ~ (10000 * l < 30 * ((p - 1) + 1) * ((p - 1) + 1))
        BY <4>1, <4>2
      <4>4. (p - 1) + 1 = p
        BY <2>5
      <4>5. ~ (10000 * l < 30 * p * p)
        BY <4>3, <4>4
      <4> QED  BY <2>5, <4>5
    <3> QED  BY <3>1, <3>2
  <2>7. Root(p)
    BY <2>4, <2>6
  <2>8. Performance(hot) = CHOOSE q \in 0..99 : Root(q)
    BY <1>3, <2>2 DEF Performance
  <2> HIDE DEF Root
  <2>9. Performance(hot) \in 0..99
    BY <2>5, <2>7, <2>8
  <2>10. ~ (hot <= EMERGENCY_TEMPERATURE)
    BY <1>1, <1>3
  <2> QED  BY <2>9, <2>10
<1> QED  BY <1>2, <1>3

LEMMA LoadOfVMs ==
  ASSUME NEW loads \in Seq(Loads)
  PROVE  SumFunction(loads) \in Nat
<1>1. Len(loads) \in Nat /\ \A i \in 1..Len(loads) : loads[i] \in Nat
  <2>1. Loads \subseteq Nat
    BY AccountingAssumption
  <2>2. Len(loads) \in Nat
    OBVIOUS
  <2>3. \A i \in 1..Len(loads) : loads[i] \in Loads
    BY ElementOfSeq
  <2> QED  BY <2>1, <2>2, <2>3
<1>2. loads \in Seq(Int)
  <2>1. Loads \subseteq Int
    BY AccountingAssumption
  <2> QED  BY <2>1, SeqMonotonic
<1>3. SumFunctionOnSet(loads, 1..Len(loads)) \in Nat
  BY <1>1, <1>2, SumOfSequence, SumIsNat
<1> QED  BY <1>2, <1>3, SumOfSequence

LEMMA UtilizationIsShare ==
  ASSUME NEW m \in Modes, NEW p \in 0..100, NEW loads \in Seq(Loads)
  PROVE  /\ MaxUtilization(m, p) \in 0..100
         /\ CurrentUtilization(m, p, loads) \in 0..100
<1>1. VMRequires(m, loads) \in Nat
  BY LoadOfVMs DEF VMRequires, Modes
<1>2. PICK r \in Nat : r = VMRequires(m, loads)
  BY <1>1
<1>3. PICK most \in 0..100 : most = MaxUtilization(m, p)
  BY DEF MaxUtilization
<1>4. CurrentUtilization(m, p, loads) = IF r > most THEN most ELSE r
  BY <1>2, <1>3 DEF CurrentUtilization
<1>5. (IF r > most THEN most ELSE r) \in 0..100
  OBVIOUS
<1> QED  BY <1>3, <1>4, <1>5, Zenon

LEMMA FanIsNat ==
  ASSUME NEW rpm \in Int
  PROVE  FanAt(Limited(rpm)) \in Nat
<1>1. PICK r \in Nat : r = Limited(rpm)
  BY DEF Limited, coolerMinRPM, coolerMaxRPM
<1>2. r * r * r \in Nat
  OBVIOUS
<1> QED  BY <1>1, <1>2, QuotientOfNat DEF FanAt

(* The CPU draws between the idle draw and twice that.                      *)
DrawSound(util, hot) ==
  /\ FanPower(util, hot) \in Nat
  /\ PowerDraw(util, hot) \in Nat
  /\ PowerDraw(util, hot) - (IF CONSTANT_FAN_POWER THEN 0 ELSE FanPower(util, hot))
       \in 1000..2000

LEMMA DrawIsSound ==
  ASSUME NEW util \in 0..100, NEW hot \in Int
  PROVE  DrawSound(util, hot)
<1> SUFFICES
         /\ FanPower(util, hot) \in Nat
         /\ PowerDraw(util, hot) \in Nat
         /\ PowerDraw(util, hot) - (IF CONSTANT_FAN_POWER THEN 0 ELSE FanPower(util, hot))
              \in 1000..2000
  BY DEF DrawSound
<1>1. EMERGENCY_TEMPERATURE \in Nat /\ EMERGENCY_TEMPERATURE >= 1 /\ EMERGENCY_TEMPERATURE <= 69
  BY PowerAssumption
<1>2. CPUFan(util, hot) \in Nat
  <2> DEFINE gap == coolerMaxDieTemperature - hot
             rpm == IF gap > 0
                    THEN (util * coolerMinTemperatureGap * coolerMaxRPM) \div (100 * gap) ELSE 0
  <2>1. rpm \in Int
    <3>1. CASE gap > 0
      <4>1. 100 * gap \in Nat \ {0}
        BY <3>1 DEF coolerMaxDieTemperature
      <4>2. coolerMinTemperatureGap \in Nat
        BY <1>1 DEF coolerMinTemperatureGap, coolerMaxDieTemperature
      <4>3. util * coolerMinTemperatureGap * coolerMaxRPM \in Nat
        BY <4>2 DEF coolerMaxRPM
      <4> QED  BY <4>1, <4>3, QuotientOfNat
    <3> QED  BY <3>1
  <2>2. CPUFan(util, hot) = FanAt(Limited(rpm))
    BY DEF CPUFan
  <2> QED  BY <2>1, <2>2, FanIsNat
<1>3. CaseFans(util, hot) \in Nat
  <2> DEFINE rpm == ((util * (coolerMaxRPM - coolerMinRPM) + 100 * coolerMinRPM) * hot)
                      \div (100 * EMERGENCY_TEMPERATURE)
  <2>1. rpm \in Int
    <3>1. 100 * EMERGENCY_TEMPERATURE \in Nat \ {0}
      BY <1>1
    <3>2. (util * (coolerMaxRPM - coolerMinRPM) + 100 * coolerMinRPM) \in Nat
      BY DEF coolerMaxRPM, coolerMinRPM
    <3>3. (util * (coolerMaxRPM - coolerMinRPM) + 100 * coolerMinRPM) * hot \in Int
      BY <3>2
    <3> QED  BY <3>1, <3>3, QuotientOfInt
  <2>2. CaseFans(util, hot) = 2 * FanAt(Limited(rpm))
    BY DEF CaseFans
  <2> HIDE DEF rpm
  <2>3. FanAt(Limited(rpm)) \in Nat
    BY <2>1, FanIsNat
  <2> QED  BY <2>2, <2>3
<1>4. FanPower(util, hot) \in Nat
  BY <1>2, <1>3 DEF FanPower, coolerMaxPower
<1>5. (1000 * util) \div 100 \in 0..1000
  OBVIOUS
<1>6. PowerDraw(util, hot)
        = 1000 + (1000 * util) \div 100 + IF CONSTANT_FAN_POWER THEN 0 ELSE FanPower(util, hot)
  BY DEF PowerDraw, cpuTDP
<1> QED  BY <1>4, <1>5, <1>6

-----------------------------------------------------------------------------
(* Totals.                                                                  *)

LEMMA TotalIsSum == ASSUME NEW f PROVE Total(f) = SumFunctionOnSet(f, DOMAIN f)
BY DEF Total, SumFunction

LEMMA RowIsSum ==
  ASSUME NEW I, NEW i \in I, NEW J, IsFiniteSet(J), NEW f, \A p \in I \X J : f[p] \in Int
  PROVE  /\ IsFiniteSet({i} \X J)
         /\ SumFunctionOnSet(f, {i} \X J) = SumFunctionOnSet([j \in J |-> f[<<i, j>>]], J)
<1> DEFINE row == [j \in J |-> f[<<i, j>>]]
           A == {S \in SUBSET J : /\ IsFiniteSet(S) /\ IsFiniteSet({i} \X S)
                                  /\ SumFunctionOnSet(f, {i} \X S) = SumFunctionOnSet(row, S)}
<1>1. {} \in A
  <2>1. {i} \X {} = {}
    OBVIOUS
  <2> QED  BY <2>1, SumOfNone, FS_EmptySet
<1>2. ASSUME NEW S \in SUBSET J, NEW x \in J, S \in A, x \notin S
      PROVE  S \cup {x} \in A
  <2>1. /\ {i} \X (S \cup {x}) = ({i} \X S) \cup {<<i, x>>}
        /\ <<i, x>> \notin {i} \X S
    BY <1>2
  <2>2. /\ \A p \in ({i} \X S) \cup {<<i, x>>} : f[p] \in Int
        /\ \A j \in S \cup {x} : row[j] \in Int
        /\ row[x] = f[<<i, x>>]
    OBVIOUS
  <2> HIDE DEF row
  <2>3. SumFunctionOnSet(f, ({i} \X S) \cup {<<i, x>>})
          = SumFunctionOnSet(f, {i} \X S) + f[<<i, x>>]
    <3> DEFINE line == {i} \X S
               pair == <<i, x>>
    <3>1. /\ IsFiniteSet(line) /\ pair \notin line
          /\ \A p \in line \cup {pair} : f[p] \in Int
      BY <1>2, <2>1, <2>2
    <3> HIDE DEF line, pair
    <3>2. SumFunctionOnSet(f, line \cup {pair}) = SumFunctionOnSet(f, line) + f[pair]
      BY ONLY <3>1, SumOfOneMore
    <3> QED  BY ONLY <3>2 DEF line, pair
  <2>4. SumFunctionOnSet(row, S \cup {x}) = SumFunctionOnSet(row, S) + row[x]
    BY <1>2, <2>2, SumOfOneMore
  <2>5. IsFiniteSet(S \cup {x}) /\ IsFiniteSet({i} \X (S \cup {x}))
    <3>1. IsFiniteSet(S) /\ IsFiniteSet({i} \X S)
      BY <1>2
    <3>2. IsFiniteSet(S \cup {x})
      BY <3>1, FS_AddElement
    <3>3. IsFiniteSet(({i} \X S) \cup {<<i, x>>})
      BY <3>1, FS_AddElement
    <3> QED  BY <2>1, <3>2, <3>3
  <2> QED  BY <1>2, <2>1, <2>2, <2>3, <2>4, <2>5
<1>3. J \in A
  <2> HIDE DEF A
  <2> QED  BY <1>1, <1>2, SubsetInduction
<1> QED  BY <1>3

(* A sum over pairs is the sum of the sums of the rows.                     *)
LEMMA SumOfRows ==
  ASSUME NEW I, IsFiniteSet(I), NEW J, IsFiniteSet(J), NEW f, \A p \in I \X J : f[p] \in Int
  PROVE  SumFunctionOnSet(f, I \X J)
           = SumFunctionOnSet([i \in I |-> SumFunctionOnSet([j \in J |-> f[<<i, j>>]], J)], I)
<1> DEFINE sums == [i \in I |-> SumFunctionOnSet([j \in J |-> f[<<i, j>>]], J)]
           A == {S \in SUBSET I : /\ IsFiniteSet(S) /\ IsFiniteSet(S \X J)
                                  /\ SumFunctionOnSet(f, S \X J) = SumFunctionOnSet(sums, S)}
<1>1. {} \in A
  <2>1. {} \X J = {}
    OBVIOUS
  <2> QED  BY <2>1, SumOfNone, FS_EmptySet
<1>2. ASSUME NEW S \in SUBSET I, NEW x \in I, S \in A, x \notin S
      PROVE  S \cup {x} \in A
  <2>1. /\ (S \cup {x}) \X J = (S \X J) \cup ({x} \X J)
        /\ (S \X J) \cap ({x} \X J) = {}
    BY <1>2
  <2>2. /\ IsFiniteSet({x} \X J)
        /\ SumFunctionOnSet(f, {x} \X J) = sums[x]
    <3>1. sums[x] = SumFunctionOnSet([j \in J |-> f[<<x, j>>]], J)
      OBVIOUS
    <3> HIDE DEF sums
    <3> QED  BY <3>1, RowIsSum
  <2>3. \A i \in S \cup {x} : sums[i] \in Int
    <3> SUFFICES ASSUME NEW i \in I PROVE SumFunctionOnSet([j \in J |-> f[<<i, j>>]], J) \in Int
      BY <1>2
    <3> QED  BY SumIsInt
  <2>4. \A p \in (S \X J) \cup ({x} \X J) : f[p] \in Int
    OBVIOUS
  <2> HIDE DEF sums
  <2>5. SumFunctionOnSet(f, (S \X J) \cup ({x} \X J))
          = SumFunctionOnSet(f, S \X J) + SumFunctionOnSet(f, {x} \X J)
    BY <1>2, <2>1, <2>2, <2>4, SumOfUnion
  <2>6. SumFunctionOnSet(sums, S \cup {x}) = SumFunctionOnSet(sums, S) + sums[x]
    BY <1>2, <2>3, SumOfOneMore
  <2>7. IsFiniteSet(S \cup {x}) /\ IsFiniteSet((S \cup {x}) \X J)
    <3>1. IsFiniteSet(S) /\ IsFiniteSet(S \X J)
      BY <1>2
    <3>2. IsFiniteSet(S \cup {x})
      BY <3>1, FS_AddElement
    <3>3. IsFiniteSet((S \X J) \cup ({x} \X J))
      BY <2>2, <3>1, FS_Union
    <3> QED  BY <2>1, <3>2, <3>3
  <2> QED  BY <1>2, <2>1, <2>2, <2>5, <2>6, <2>7
<1>3. I \in A
  <2> HIDE DEF A
  <2> QED  BY <1>1, <1>2, SubsetInduction
<1> QED  BY <1>3

-----------------------------------------------------------------------------
(* The arrays of counters.                                                  *)

IsArray(c) == IsFiniteSet(DOMAIN c) /\ DOMAIN c \subseteq Nat /\ c \in [DOMAIN c -> Nat]

(* The sum of the counters, each times what w says it weighs.               *)
Weighed(w, c) == SumFunctionOnSet([n \in DOMAIN c |-> w[n] * c[n]], DOMAIN c)

(* How many values of T are n, weighed.                                      *)
WeighedCounts(w, E, T, value) ==
  [n \in E |-> w[n] * Cardinality({s \in T : value[s] = n})]

Weights(w, T, value) == [s \in T |-> w[value[s]]]

WeighAlike(w, E, T, value) ==
  SumFunctionOnSet(WeighedCounts(w, E, T, value), E) = SumFunctionOnSet(Weights(w, T, value), T)

(* All of them weigh as much as the values do.                              *)
LEMMA WeightOfValues ==
  ASSUME NEW w \in [Nat -> Nat], NEW E, IsFiniteSet(E), E \subseteq Nat,
         NEW T, IsFiniteSet(T), NEW value \in [T -> E]
  PROVE  WeighAlike(w, E, T, value)
<1> DEFINE Of(S, n) == {s \in S : value[s] = n}
           count(S) == [n \in E |-> w[n] * Cardinality(Of(S, n))]
           weight == [s \in T |-> w[value[s]]]
           A == {S \in SUBSET T : /\ IsFiniteSet(S)
                                  /\ SumFunctionOnSet(count(S), E) = SumFunctionOnSet(weight, S)}
<1>1. {} \in A
  <2>1. \A n \in E : count({})[n] = 0
    <3> SUFFICES ASSUME NEW n \in E PROVE count({})[n] = 0
      OBVIOUS
    <3>1. Of({}, n) = {} /\ Cardinality({}) = 0
      BY FS_EmptySet
    <3>2. w[n] \in Nat
      OBVIOUS
    <3> QED  BY <3>1, <3>2
  <2>2. SumFunctionOnSet(count({}), E) = 0 * Cardinality(E)
    <3>1. PICK none : none = count({})
      OBVIOUS
    <3>2. \A n \in E : none[n] = 0
      BY <2>1, <3>1
    <3> HIDE DEF count
    <3>3. 0 \in Int
      OBVIOUS
    <3>4. SumFunctionOnSet(none, E) = 0 * Cardinality(E)
      BY <3>2, <3>3, SumOfSame
    <3> QED  BY <3>1, <3>4
  <2>3. Cardinality(E) \in Nat
    BY FS_CardinalityType
  <2> QED  BY <2>2, <2>3, SumOfNone, FS_EmptySet
<1>2. ASSUME NEW S \in SUBSET T, NEW x \in T, S \in A, x \notin S
      PROVE  S \cup {x} \in A
  <2>1. \A n \in E : IsFiniteSet(Of(S, n)) /\ Cardinality(Of(S, n)) \in Nat
    <3> SUFFICES ASSUME NEW n \in E PROVE IsFiniteSet(Of(S, n)) /\ Cardinality(Of(S, n)) \in Nat
      OBVIOUS
    <3>1. IsFiniteSet(S) /\ Of(S, n) \subseteq S
      BY <1>2
    <3> QED  BY <3>1, FS_Subset, FS_CardinalityType
  <2>2. \A n \in E \ {value[x]} : Of(S \cup {x}, n) = Of(S, n)
    OBVIOUS
  <2>3. /\ Of(S \cup {x}, value[x]) = Of(S, value[x]) \cup {x}
        /\ x \notin Of(S, value[x])
    BY <1>2
  <2>4. value[x] \in E
    OBVIOUS
  <2>5. Cardinality(Of(S \cup {x}, value[x])) = Cardinality(Of(S, value[x])) + 1
    BY <2>1, <2>3, <2>4, FS_AddElement
  <2>6. \A n \in E : count(S)[n] \in Int /\ w[n] \in Nat
    <3> SUFFICES ASSUME NEW n \in E PROVE count(S)[n] \in Int /\ w[n] \in Nat
      OBVIOUS
    <3>1. w[n] \in Nat
      OBVIOUS
    <3>2. w[n] * Cardinality(Of(S, n)) \in Nat
      BY <2>1, <3>1, ProductIsNat
    <3> QED  BY <3>1, <3>2
  <2>7. \A n \in E \ {value[x]} : count(S \cup {x})[n] = count(S)[n]
    BY <2>2
  <2>8. count(S \cup {x})[value[x]] = count(S)[value[x]] + w[value[x]]
    <3>1. PICK k \in Nat : k = Cardinality(Of(S, value[x]))
      BY <2>1, <2>4
    <3>2. PICK v \in Nat : v = w[value[x]]
      BY <2>4, <2>6
    <3>3. count(S \cup {x})[value[x]] = v * (k + 1)
      BY <2>4, <2>5, <3>1, <3>2
    <3>4. count(S)[value[x]] = v * k
      BY <2>4, <3>1, <3>2
    <3>5. v * (k + 1) = v * k + v
      OBVIOUS
    <3> QED  BY <3>2, <3>3, <3>4, <3>5
  <2>9. \A n \in E : count(S \cup {x})[n] \in Int
    <3> HIDE DEF count
    <3> SUFFICES ASSUME NEW n \in E PROVE count(S \cup {x})[n] \in Int
      OBVIOUS
    <3>1. CASE n = value[x]
      <4>1. count(S)[n] \in Int /\ w[n] \in Nat /\ count(S \cup {x})[n] = count(S)[n] + w[n]
        BY <2>6, <2>8, <3>1
      <4> QED  BY <4>1
    <3>2. CASE n # value[x]
      BY <2>6, <2>7, <3>2
    <3> QED  BY <3>1, <3>2
  <2>10. weight[x] = w[value[x]] /\ \A s \in S \cup {x} : weight[s] \in Int
    <3>1. \A s \in T : weight[s] = w[value[s]] /\ value[s] \in E
      OBVIOUS
    <3>2. \A n \in E : w[n] \in Int
      OBVIOUS
    <3> HIDE DEF weight
    <3> QED  BY <3>1, <3>2
  <2>11. PICK before, after : before = count(S) /\ after = count(S \cup {x})
    OBVIOUS
  <2>12. SumFunctionOnSet(after, E) = SumFunctionOnSet(before, E) + after[value[x]] - before[value[x]]
    <3> HIDE DEF count
    <3>1. \A n \in E : before[n] \in Int /\ after[n] \in Int
      BY <2>6, <2>9, <2>11
    <3>2. \A n \in E \ {value[x]} : after[n] = before[n]
      BY <2>7, <2>11
    <3>3. PICK v \in E : v = value[x]
      BY <2>4
    <3>4. \A n \in E \ {v} : after[n] = before[n]
      BY <3>2, <3>3
    <3>5. IsFiniteSet(E)
      OBVIOUS
    <3>6. SumFunctionOnSet(after, E) = SumFunctionOnSet(before, E) + after[v] - before[v]
      BY ONLY <3>1, <3>3, <3>4, <3>5, SumOfChanged
    <3> QED  BY ONLY <3>3, <3>6
  <2>13. SumFunctionOnSet(before, E) \in Int
    <3> HIDE DEF count
    <3> QED  BY <2>6, <2>11, SumIsInt
  <2>14. SumFunctionOnSet(after, E) = SumFunctionOnSet(before, E) + weight[x]
    <3> HIDE DEF count
    <3>1. after[value[x]] = before[value[x]] + w[value[x]] /\ before[value[x]] \in Int /\ w[value[x]] \in Nat
      BY <2>4, <2>6, <2>8, <2>11
    <3> QED  BY <2>10, <2>12, <2>13, <3>1
  <2>15. SumFunctionOnSet(weight, S \cup {x}) = SumFunctionOnSet(weight, S) + weight[x]
    <3> HIDE DEF weight, count
    <3> QED  BY <1>2, <2>10, SumOfOneMore
  <2> QED
    <3> HIDE DEF weight, count
    <3> QED  BY <1>2, <2>11, <2>14, <2>15, FS_AddElement
<1>3. T \in A
  <2> HIDE DEF A
  <2> QED  BY <1>1, <1>2, SubsetInduction
<1>4. SumFunctionOnSet(count(T), E) = SumFunctionOnSet(weight, T)
  BY <1>3
<1> QED  BY <1>4 DEF WeighAlike, WeighedCounts, Weights

LEMMA ValuesAreFinite ==
  ASSUME NEW T, IsFiniteSet(T), NEW value, DOMAIN value = T
  PROVE  IsFiniteSet(Range(value))
<1> DEFINE A == {S \in SUBSET T : IsFiniteSet({value[s] : s \in S})}
<1>1. {} \in A
  <2>1. {value[s] : s \in {}} = {}
    OBVIOUS
  <2> QED  BY <2>1, FS_EmptySet
<1>2. ASSUME NEW S \in SUBSET T, NEW x \in T, S \in A, x \notin S
      PROVE  S \cup {x} \in A
  <2>1. {value[s] : s \in S \cup {x}} = {value[s] : s \in S} \cup {value[x]}
    OBVIOUS
  <2>2. IsFiniteSet({value[s] : s \in S})
    BY <1>2
  <2>3. IsFiniteSet({value[s] : s \in S} \cup {value[x]})
    BY <2>2, FS_AddElement
  <2> QED  BY <2>1, <2>3
<1>3. T \in A
  <2> HIDE DEF A
  <2> QED  BY <1>1, <1>2, SubsetInduction
<1> QED  BY <1>3 DEF Range

(* Counting the values of T adds their weight. *)
LEMMA CountedWeighs ==
  ASSUME NEW w \in [Nat -> Nat], NEW c, IsArray(c),
         NEW T, IsFiniteSet(T), NEW value \in [T -> Nat]
  PROVE  /\ IsArray(Counted(c, value))
         /\ Weighed(w, Counted(c, value))
              = Weighed(w, c) + SumFunctionOnSet(Weights(w, T, value), T)
<1> DEFINE D == DOMAIN c
           E == D \cup Range(value)
           Now(n) == Cardinality({s \in T : value[s] = n})
           next == Counted(c, value)
           old == [n \in E |-> w[n] * Counter(c, n)]
           new == [n \in E |-> w[n] * Now(n)]
           both == [n \in E |-> w[n] * next[n]]
<1>1. IsFiniteSet(E) /\ E \subseteq Nat /\ IsFiniteSet(D) /\ D \subseteq E
  <2>1. IsFiniteSet(Range(value)) /\ Range(value) \subseteq Nat
    BY ValuesAreFinite DEF Range
  <2> QED  BY <2>1, FS_Union DEF IsArray
<1>2. \A n \in E : Counter(c, n) \in Nat /\ (n \in D => Counter(c, n) = c[n])
                   /\ (n \notin D => Counter(c, n) = 0)
  BY DEF Counter, IsArray
<1>3. \A n \in E : Now(n) \in Nat
  <2> SUFFICES ASSUME NEW n \in E PROVE Now(n) \in Nat
    OBVIOUS
  <2>1. {s \in T : value[s] = n} \subseteq T
    OBVIOUS
  <2> QED  BY <2>1, FS_Subset, FS_CardinalityType
<1>4. next = [n \in E |-> Counter(c, n) + Now(n)]
  BY DEF Counted
<1>5. IsArray(next)
  <2>1. \A n \in E : Counter(c, n) + Now(n) \in Nat
    BY <1>2, <1>3
  <2> QED  BY <1>1, <1>4, <2>1 DEF IsArray
<1>6. \A n \in E : old[n] \in Int /\ new[n] \in Int /\ both[n] = old[n] + new[n]
  <2> SUFFICES ASSUME NEW n \in E
               PROVE  old[n] \in Int /\ new[n] \in Int /\ both[n] = old[n] + new[n]
    OBVIOUS
  <2>1. PICK v \in Nat : v = w[n]
    BY <1>1
  <2>2. PICK x \in Nat : x = Counter(c, n)
    BY <1>2
  <2>3. PICK y \in Nat : y = Now(n)
    BY <1>3
  <2>4. old[n] = v * x /\ new[n] = v * y
    BY <2>1, <2>2, <2>3
  <2>5. both[n] = v * (x + y)
    BY <1>4, <2>1, <2>2, <2>3
  <2>6. v * x \in Int /\ v * y \in Int /\ v * (x + y) = v * x + v * y
    OBVIOUS
  <2> QED  BY <2>4, <2>5, <2>6
<1>7. Weighed(w, next) = SumFunctionOnSet(both, E)
  BY <1>4 DEF Weighed
<1>8. SumFunctionOnSet(new, E) = SumFunctionOnSet(Weights(w, T, value), T)
  <2>1. value \in [T -> E]
    BY DEF Range
  <2>2. PICK F : F = E
    OBVIOUS
  <2>3. IsFiniteSet(F) /\ F \subseteq Nat /\ value \in [T -> F]
    BY <1>1, <2>1, <2>2
  <2>4. SumFunctionOnSet(WeighedCounts(w, F, T, value), F)
          = SumFunctionOnSet(Weights(w, T, value), T)
    <3>1. WeighAlike(w, F, T, value)
      BY <2>3, WeightOfValues
    <3> QED  BY <3>1 DEF WeighAlike
  <2>5. new = WeighedCounts(w, F, T, value)
    BY <2>2 DEF WeighedCounts
  <2> QED  BY <2>2, <2>4, <2>5
<1>9. SumFunctionOnSet(old, E) = Weighed(w, c)
  <2> DEFINE R == E \ D
             weights == [n \in D |-> w[n] * c[n]]
  <2>1. IsFiniteSet(R) /\ E = D \cup R /\ D \cap R = {}
    BY <1>1, FS_Subset
  <2>2. \A n \in R : old[n] = 0
    <3> SUFFICES ASSUME NEW n \in R PROVE old[n] = 0
      OBVIOUS
    <3>1. w[n] \in Nat /\ Counter(c, n) = 0
      BY <1>1, <1>2
    <3> QED  BY <3>1
  <2>3. \A n \in D : old[n] = weights[n]
    <3> SUFFICES ASSUME NEW n \in D PROVE old[n] = weights[n]
      OBVIOUS
    <3>1. Counter(c, n) = c[n]
      BY DEF Counter
    <3> QED  BY <1>1, <3>1
  <2> HIDE DEF old, weights, E, D, R
  <2>4. SumFunctionOnSet(old, D \cup R) = SumFunctionOnSet(old, D) + SumFunctionOnSet(old, R)
    <3>1. \A n \in D \cup R : old[n] \in Int
      BY <1>6, <2>1
    <3> QED  BY <1>1, <2>1, <3>1, SumOfUnion
  <2>5. SumFunctionOnSet(old, R) = 0
    <3>1. 0 \in Int
      OBVIOUS
    <3>2. SumFunctionOnSet(old, R) = 0 * Cardinality(R)
      BY <2>1, <2>2, <3>1, SumOfSame
    <3>3. Cardinality(R) \in Nat
      BY <2>1, FS_CardinalityType
    <3> QED  BY <3>2, <3>3
  <2>6. SumFunctionOnSet(old, D) = SumFunctionOnSet(weights, D) /\ SumFunctionOnSet(old, D) \in Int
    <3>1. \A n \in D : old[n] \in Int /\ old[n] = weights[n]
      BY <1>1, <1>6, <2>3
    <3> QED  BY <1>1, <3>1, SumsAgree, SumIsInt
  <2>7. SumFunctionOnSet(weights, D) = Weighed(w, c)
    BY DEF weights, D, Weighed
  <2> QED  BY <2>1, <2>4, <2>5, <2>6, <2>7
<1>10. SumFunctionOnSet(both, E) = SumFunctionOnSet(old, E) + SumFunctionOnSet(new, E)
  <2> HIDE DEF old, new, both, E
  <2> QED  BY <1>1, <1>6, SumOfSums
<1> QED  BY <1>5, <1>7, <1>8, <1>9, <1>10

-----------------------------------------------------------------------------
(* The VMs of several servers, one after the other.                         *)

JoinStep(f, g, s) == IF s = {} THEN <<>> ELSE g[s \ {SumFirst(s)}] \o f[SumFirst(s)]

(* Joined, as the recursive function that Folds makes of it. *)
JoinRule(f, D, g) == g = [s \in SUBSET D |-> JoinStep(f, g, s)]

LEMMA JoinedIsChoice ==
  ASSUME NEW f
  PROVE  Joined(f) = (CHOOSE g : JoinRule(f, DOMAIN f, g))[DOMAIN f]
BY DEF Joined, FoldFunction, FoldFunctionOnSet, MapThenFoldSet, JoinRule, JoinStep, SumFirst

LEMMA JoinRuleExists ==
  ASSUME NEW D, IsFiniteSet(D), NEW E, NEW f \in [D -> Seq(E)]
  PROVE  \E g \in [SUBSET D -> Seq(E)] : JoinRule(f, D, g)
<1> DEFINE UpTo(g, n) == \A s \in SUBSET D : Cardinality(s) <= n => g[s] = JoinStep(f, g, s)
           N == {n \in Nat : \E g \in [SUBSET D -> Seq(E)] : UpTo(g, n)}
<1>1. \A s \in SUBSET D : IsFiniteSet(s) /\ Cardinality(s) \in Nat
  BY FS_Subset, FS_CardinalityType
<1>2. 0 \in N
  <2> DEFINE g == [s \in SUBSET D |-> <<>>]
  <2>1. g \in [SUBSET D -> Seq(E)]
    OBVIOUS
  <2>2. ASSUME NEW s \in SUBSET D, Cardinality(s) <= 0 PROVE g[s] = JoinStep(f, g, s)
    <3>1. s = {}
      BY <1>1, <2>2, FS_EmptySet
    <3> QED  BY <3>1 DEF JoinStep
  <2> HIDE DEF g
  <2>3. UpTo(g, 0)
    BY <2>2
  <2> QED  BY <2>1, <2>3
<1>3. ASSUME NEW n \in Nat, n \in N PROVE n + 1 \in N
  <2>1. PICK g \in [SUBSET D -> Seq(E)] : UpTo(g, n)
    BY <1>3
  <2> DEFINE h == [s \in SUBSET D |-> IF Cardinality(s) <= n THEN g[s] ELSE JoinStep(f, g, s)]
  <2>2. ASSUME NEW s \in SUBSET D PROVE JoinStep(f, g, s) \in Seq(E)
    <3>1. s # {} => SumFirst(s) \in D
      BY DEF SumFirst
    <3> QED  BY <3>1 DEF JoinStep
  <2>3. h \in [SUBSET D -> Seq(E)]
    BY <2>2
  <2>4. \A s \in SUBSET D : Cardinality(s) <= n + 1 => h[s] = JoinStep(f, g, s)
    BY <2>1
  <2>5. ASSUME NEW s \in SUBSET D, Cardinality(s) <= n + 1
        PROVE  JoinStep(f, g, s) = JoinStep(f, h, s)
    <3>1. CASE s = {}
      BY <3>1 DEF JoinStep
    <3>2. CASE s # {}
      <4>1. s \ {SumFirst(s)} \in SUBSET D /\ Cardinality(s \ {SumFirst(s)}) <= n
        <5>1. Cardinality(s) \in Nat /\ Cardinality(s \ {SumFirst(s)}) = Cardinality(s) - 1
          BY <1>1, <3>2, FirstIsTaken
        <5> QED  BY <2>5, <5>1
      <4>2. h[s \ {SumFirst(s)}] = g[s \ {SumFirst(s)}]
        BY <4>1
      <4> HIDE DEF h
      <4> QED  BY <4>2 DEF JoinStep
    <3> QED  BY <3>1, <3>2
  <2> HIDE DEF h
  <2>6. UpTo(h, n + 1)
    BY <2>4, <2>5
  <2> HIDE DEF UpTo
  <2> QED  BY <2>3, <2>6
<1>4. Nat \subseteq N
  <2> HIDE DEF N
  <2> QED  BY <1>2, <1>3, NumberInduction
<1>5. PICK g \in [SUBSET D -> Seq(E)] : UpTo(g, Cardinality(D))
  BY <1>1, <1>4
<1>6. ASSUME NEW s \in SUBSET D PROVE g[s] = JoinStep(f, g, s)
  BY <1>5, FS_Subset
<1>7. g = [s \in SUBSET D |-> JoinStep(f, g, s)]
  BY <1>6
<1> QED  BY <1>7 DEF JoinRule

LEMMA JoinedIsSeq ==
  ASSUME NEW D, IsFiniteSet(D), NEW E, NEW f \in [D -> Seq(E)]
  PROVE  Joined(f) \in Seq(E)
<1>1. PICK h \in [SUBSET D -> Seq(E)] : JoinRule(f, D, h)
  BY JoinRuleExists
<1> DEFINE g == CHOOSE k : JoinRule(f, D, k)
<1>2. JoinRule(f, D, g)
  BY <1>1
<1>3. Joined(f) = g[D]
  BY JoinedIsChoice
<1> HIDE DEF g
<1> DEFINE A == {s \in SUBSET D : g[s] = h[s]}
           N == {n \in Nat : \A s \in SUBSET D : Cardinality(s) <= n => s \in A}
<1>4. \A s \in SUBSET D : IsFiniteSet(s) /\ Cardinality(s) \in Nat
  BY FS_Subset, FS_CardinalityType
<1>5. \A s \in SUBSET D : g[s] = JoinStep(f, g, s) /\ h[s] = JoinStep(f, h, s)
  BY <1>1, <1>2 DEF JoinRule
<1>6. 0 \in N
  <2> SUFFICES ASSUME NEW s \in SUBSET D, Cardinality(s) <= 0 PROVE g[s] = h[s]
    OBVIOUS
  <2>1. s = {}
    BY <1>4, FS_EmptySet
  <2> QED  BY <1>5, <2>1 DEF JoinStep
<1>7. ASSUME NEW n \in Nat, n \in N PROVE n + 1 \in N
  <2> SUFFICES ASSUME NEW s \in SUBSET D, Cardinality(s) <= n + 1 PROVE g[s] = h[s]
    OBVIOUS
  <2>1. CASE s = {}
    BY <1>5, <2>1 DEF JoinStep
  <2>2. CASE s # {}
    <3>1. s \ {SumFirst(s)} \in SUBSET D /\ Cardinality(s \ {SumFirst(s)}) <= n
      <4>1. Cardinality(s) \in Nat /\ Cardinality(s \ {SumFirst(s)}) = Cardinality(s) - 1
        BY <1>4, <2>2, FirstIsTaken
      <4> QED  BY <4>1
    <3>2. g[s \ {SumFirst(s)}] = h[s \ {SumFirst(s)}]
      BY <1>7, <3>1
    <3> QED  BY <1>5, <3>2 DEF JoinStep
  <2> QED  BY <2>1, <2>2
<1>8. D \in A
  <2>1. Nat \subseteq N
    <3> HIDE DEF N
    <3> QED  BY <1>6, <1>7, NumberInduction
  <2> QED  BY <1>4, <2>1
<1> QED  BY <1>3, <1>8

-----------------------------------------------------------------------------
(* The invariant: what is in the books.                                     *)

LogEntry == [seconds: Nat, supply: Nat, machines: Nat, fans: Nat, crac: Nat, computing: Nat,
             utilization: Nat]

BooksOK ==
  /\ log \in LogEntry /\ sparse \in Seq(LogEntry)
  /\ perChassis \in [Chassis -> [power: Nat, computing: Nat, temperature: Int]]
  /\ perDataCenterUtilization \in Nat /\ peakPower \in Nat
  /\ IsArray(distribution.temperature) /\ IsArray(distribution.utilization)
  /\ migrations \in [log: Nat, sparse: Seq(Nat), total: Nat]
  /\ switches \in [log: [SwitchLevels -> Nat], sparse: Seq([SwitchLevels -> Nat]),
                   total: [SwitchLevels -> Nat]]

(* The servers have had the second that the clock does not count yet.       *)
Ahead == IF pc = "pool" THEN 1 ELSE 0

(* A server is hot, or changes its performance, once in a second.           *)
InTime ==
  /\ pc \in {"jobs", "assign", "policies", "servers", "pool"} => clock < MaxClock
  /\ \A s \in All : overEmergency[s] <= clock + Ahead /\ dvfs[s] <= clock + Ahead

DrawAs(m, s) == PowerDraw(CurrentUtilization(m, perf[s], vRunningVMs[s]), inlet[s[1]])

(* When all servers have computed their draw, it is that of what they do.   *)
Fresh == pc = "pool" => \A s \in All : mode[s] # "off" => draw[s] = DrawAs(mode[s], s)

VMsCounted == Uninitialized + totalVMs + reassigned = totalScheduling + Len(waiting)

EnergyBooked ==
  /\ Logged("machines") + log.machines = Total([i \in Chassis |-> perChassis[i].power])
  /\ Logged("computing") + log.computing = Total([i \in Chassis |-> perChassis[i].computing])
  /\ Logged("utilization") + log.utilization = perDataCenterUtilization

Numbers == [n \in Nat |-> n]

(* The loads of a second are counted before they are added to the average.  *)
LoadsCounted ==
  Weighed(Numbers, distribution.utilization)
    = perDataCenterUtilization + IF pc = "logs" THEN Total([s \in All |-> Utilization(s)]) ELSE 0

AccountingInv ==
  /\ TypeOK /\ BooksOK /\ InTime /\ Fresh /\ HeatIsOfTheVMs /\ VMsCounted /\ EnergyBooked
  /\ LoadsCounted


-----------------------------------------------------------------------------
(* Lemmas about the parts.                                                  *)

LEMMA AllIsFinite == IsFiniteSet(All) /\ Cardinality(All) \in Nat
<1>1. IsFiniteSet(Chassis) /\ IsFiniteSet(Servers)
  BY AccountingAssumption
<1>2. IsFiniteSet(All)
  BY <1>1, FS_Product DEF All
<1> QED  BY <1>2, FS_CardinalityType

LEMMA LowestSupply ==
  Min(Supplies) \in Supplies /\ \A t \in Supplies : Min(Supplies) <= t
<1>1. Supplies \subseteq Nat /\ Supplies # {}
  BY AccountingAssumption
<1>2. \E n \in Supplies : \A m \in Supplies : n <= m
  BY <1>1, LeastNumber
<1> QED  BY <1>2 DEF Min

LEMMA ZeroSum ==
  ASSUME NEW S, IsFiniteSet(S), NEW f, \A x \in S : f[x] = 0
  PROVE  SumFunctionOnSet(f, S) = 0
<1>1. 0 \in Int
  OBVIOUS
<1>2. SumFunctionOnSet(f, S) = 0 * Cardinality(S)
  BY <1>1, SumOfSame
<1> QED  BY <1>2, FS_CardinalityType

(* A field of the entries of a log.                                         *)
Column(s, field) == [n \in DOMAIN s |-> s[n][field]]

LEMMA ColumnIsSeq ==
  ASSUME NEW R, NEW field, \A e \in R : e[field] \in Nat, NEW s \in Seq(R)
  PROVE  /\ Column(s, field) \in Seq(Int) /\ Len(Column(s, field)) = Len(s)
         /\ \A n \in 1..Len(s) : Column(s, field)[n] = s[n][field] /\ s[n][field] \in Nat
         /\ Total(Column(s, field)) \in Nat
<1>1. Len(s) \in Nat /\ DOMAIN s = 1..Len(s)
  OBVIOUS
<1>2. \A n \in 1..Len(s) : s[n] \in R
  BY ElementOfSeq
<1>3. \A n \in 1..Len(s) : Column(s, field)[n] = s[n][field] /\ s[n][field] \in Nat
  BY <1>1, <1>2 DEF Column
<1>4. Column(s, field) \in [1..Len(s) -> Int]
  BY <1>1, <1>3 DEF Column
<1>5. Column(s, field) \in Seq(Int)
  BY <1>1, <1>4, SeqDef
<1>6. Len(Column(s, field)) = Len(s)
  BY <1>1, <1>5 DEF Column
<1>7. IsFiniteSet(1..Len(s))
  BY <1>1, FS_Interval
<1>8. SumFunctionOnSet(Column(s, field), 1..Len(s)) \in Nat
  BY <1>3, <1>7, SumIsNat
<1>9. Total(Column(s, field)) = SumFunctionOnSet(Column(s, field), 1..Len(s))
  BY <1>1, TotalIsSum DEF Column
<1> QED  BY <1>3, <1>5, <1>6, <1>8, <1>9

LEMMA ColumnOfAppend ==
  ASSUME NEW R, NEW field, \A e \in R : e[field] \in Nat, NEW s \in Seq(R), NEW e \in R
  PROVE  Total(Column(Append(s, e), field)) = Total(Column(s, field)) + e[field]
<1>1. Append(s, e) \in Seq(R) /\ Len(Append(s, e)) = Len(s) + 1 /\ Len(s) \in Nat
  OBVIOUS
<1>2. /\ Column(Append(s, e), field) \in Seq(Int)
      /\ Len(Column(Append(s, e), field)) = Len(s) + 1
      /\ \A n \in 1..(Len(s) + 1) : Column(Append(s, e), field)[n] = Append(s, e)[n][field]
  <2> DEFINE t == Append(s, e)
  <2>1. t \in Seq(R) /\ Len(t) = Len(s) + 1
    BY <1>1
  <2> HIDE DEF t
  <2>2. /\ Column(t, field) \in Seq(Int) /\ Len(Column(t, field)) = Len(t)
        /\ \A n \in 1..Len(t) : Column(t, field)[n] = t[n][field]
    <3>1. \A x \in R : x[field] \in Nat
      OBVIOUS
    <3>2. /\ Column(t, field) \in Seq(Int) /\ Len(Column(t, field)) = Len(t)
          /\ \A n \in 1..Len(t) : Column(t, field)[n] = t[n][field] /\ t[n][field] \in Nat
          /\ Total(Column(t, field)) \in Nat
      BY ONLY <2>1, <3>1, ColumnIsSeq
    <3> QED  BY ONLY <3>2
  <2> QED  BY ONLY <1>1, <2>1, <2>2 DEF t
<1>3. /\ Column(s, field) \in Seq(Int) /\ Len(Column(s, field)) = Len(s)
      /\ \A n \in 1..Len(s) : Column(s, field)[n] = s[n][field]
  BY ColumnIsSeq
<1>4. e[field] \in Int
  OBVIOUS
<1>5. Column(Append(s, e), field) = Append(Column(s, field), e[field])
  <2> DEFINE a == Column(Append(s, e), field)
             b == Append(Column(s, field), e[field])
  <2>1. a \in Seq(Int) /\ b \in Seq(Int) /\ Len(a) = Len(b) /\ Len(b) = Len(s) + 1
    BY <1>2, <1>3, <1>4
  <2>2. \A n \in 1..Len(s) : Append(s, e)[n] = s[n]
    OBVIOUS
  <2>3. Append(s, e)[Len(s) + 1] = e
    OBVIOUS
  <2>4. \A n \in 1..Len(s) : a[n] = b[n]
    <3> SUFFICES ASSUME NEW n \in 1..Len(s) PROVE a[n] = b[n]
      OBVIOUS
    <3>1. n \in 1..(Len(s) + 1) /\ n \in 1..Len(Column(s, field))
      BY <1>1, <1>3
    <3>2. a[n] = s[n][field]
      BY <1>2, <2>2, <3>1
    <3>3. b[n] = Column(s, field)[n]
      BY ONLY <1>3, <1>4, <3>1
    <3> QED  BY <1>3, <3>2, <3>3
  <2>5. a[Len(s) + 1] = b[Len(s) + 1]
    BY <1>1, <1>2, <1>3, <1>4, <2>3
  <2>6. \A n \in 1..Len(b) : a[n] = b[n]
    BY <1>1, <2>1, <2>4, <2>5
  <2> HIDE DEF a, b
  <2>7. a = b
    BY <2>1, <2>6, SeqEqual
  <2> QED  BY <2>7 DEF a, b
<1>6. SumFunction(Append(Column(s, field), e[field])) = SumFunction(Column(s, field)) + e[field]
  BY <1>3, <1>4, SumOfAppend
<1> QED  BY <1>5, <1>6 DEF Total

LEMMA LoggedIsColumn == ASSUME NEW field PROVE Logged(field) = Total(Column(sparse, field))
BY DEF Logged, Column

(* A draw that was computed anew is that of the server as it is now.        *)
LEMMA Recalculated ==
  ASSUME TypeOK, NEW S \in SUBSET All, NEW temperature,
         \A i \in Chassis : temperature[i] \in Int, RecalculateAt(S, temperature),
         mode' \in [All -> Modes], perf' \in [All -> 0..100], vRunningVMs' \in [All -> Seq(Loads)]
  PROVE  /\ draw' \in [All -> Nat] /\ fan' \in [All -> Nat]
         /\ \A s \in All :
              IF s \in S /\ mode'[s] # "off"
              THEN LET util == CurrentUtilization(mode'[s], perf'[s], vRunningVMs'[s])
                   IN  /\ draw'[s] = PowerDraw(util, temperature[s[1]])
                       /\ fan'[s] = FanPower(util, temperature[s[1]])
              ELSE draw'[s] = draw[s] /\ fan'[s] = fan[s]
<1> DEFINE util(s) == CurrentUtilization(mode'[s], perf'[s], vRunningVMs'[s])
           on == {s \in S : mode'[s] # "off"}
<1>1. /\ draw' = [s \in All |-> IF s \in on THEN PowerDraw(util(s), temperature[s[1]]) ELSE draw[s]]
      /\ fan' = [s \in All |-> IF s \in on THEN FanPower(util(s), temperature[s[1]]) ELSE fan[s]]
  BY DEF RecalculateAt
<1>2. \A s \in All : /\ PowerDraw(util(s), temperature[s[1]]) \in Nat
                    /\ FanPower(util(s), temperature[s[1]]) \in Nat
  <2> SUFFICES ASSUME NEW s \in All
               PROVE  /\ PowerDraw(util(s), temperature[s[1]]) \in Nat
                      /\ FanPower(util(s), temperature[s[1]]) \in Nat
    OBVIOUS
  <2>1. temperature[s[1]] \in Int
    BY DEF All
  <2>2. mode'[s] \in Modes /\ perf'[s] \in 0..100 /\ vRunningVMs'[s] \in Seq(Loads)
    BY SMTT(60)
  <2>3. util(s) \in 0..100
    BY <2>2, UtilizationIsShare
  <2> HIDE DEF util
  <2>4. PICK u \in 0..100 : u = util(s)
    BY <2>3
  <2>5. PICK hot \in Int : hot = temperature[s[1]]
    BY <2>1
  <2>6. PowerDraw(u, hot) \in Nat /\ FanPower(u, hot) \in Nat
    <3>1. DrawSound(u, hot)
      BY <2>4, <2>5, DrawIsSound
    <3> QED  BY <3>1 DEF DrawSound
  <2> QED  BY <2>4, <2>5, <2>6
<1>3. \A s \in All : draw[s] \in Nat /\ fan[s] \in Nat
  BY DEF TypeOK
<1> HIDE DEF util
<1>4. draw' \in [All -> Nat] /\ fan' \in [All -> Nat]
  BY <1>1, <1>2, <1>3
<1> QED  BY <1>1, <1>4 DEF util

(* The temperatures of the chassis.                                         *)
LEMMA Temperatures ==
  ASSUME TypeOK
  PROVE  \A i \in Chassis : inlet[i] \in Int /\ air[i] \in Int
<1>1. Inlets \cup {LOWEST_SUPPLY_TEMPERATURE} \subseteq Int /\ Supplies \subseteq Int
  BY AccountingAssumption
<1>2. inlet \in [Chassis -> Inlets \cup {LOWEST_SUPPLY_TEMPERATURE}] /\ air \in [Chassis -> Supplies]
  BY DEF TypeOK
<1> QED  BY <1>1, <1>2

(* What is copied or left are VMs.                                          *)
LEMMA SomeAreVMs ==
  ASSUME NEW loads \in Seq(Loads), NEW part \in Some(loads)
  PROVE  part \in Seq(Loads) /\ Len(part) \in Nat
<1>1. PICK n \in 0..Len(loads) : part \in [1..n -> Range(loads)]
  BY DEF Some
<1>2. n \in Nat
  OBVIOUS
<1>3. Range(loads) \subseteq Loads
  BY ElementOfSeq DEF Range
<1>4. part \in [1..n -> Loads]
  BY <1>1, <1>3
<1>5. part \in Seq(Loads)
  BY <1>2, <1>4, SeqDef
<1> QED  BY <1>5

LEMMA TakenIsSeq ==
  ASSUME TypeOK, NEW busy \in SUBSET All
  PROVE  Joined([s \in busy |-> TakeAVMs(s)]) \in Seq(Loads)
<1>1. IsFiniteSet(busy)
  BY AllIsFinite, FS_Subset
<1>2. [s \in busy |-> TakeAVMs(s)] \in [busy -> Seq(Loads)]
  <2> SUFFICES ASSUME NEW s \in busy PROVE TakeAVMs(s) \in Seq(Loads)
    OBVIOUS
  <2>1. vRunningVMs[s] \in Seq(Loads)
    BY DEF TypeOK
  <2>2. PICK v \in Seq(Loads) : v = vRunningVMs[s]
    BY <2>1
  <2>3. Len(v) \in Nat /\ \A i \in 1..Len(v) : v[(Len(v) - i) + 1] \in Loads
    <3>1. Len(v) \in Nat
      OBVIOUS
    <3>2. \A i \in 1..Len(v) : (Len(v) - i) + 1 \in 1..Len(v)
      BY <3>1
    <3> QED  BY <3>1, <3>2, ElementOfSeq
  <2>4. Reverse(v) = [i \in 1..Len(v) |-> v[(Len(v) - i) + 1]]
    BY DEF Reverse
  <2>5. Reverse(v) \in [1..Len(v) -> Loads]
    BY <2>3, <2>4
  <2>6. Reverse(v) \in Seq(Loads)
    BY <2>3, <2>5, SeqDef
  <2> QED  BY <2>2, <2>6 DEF TakeAVMs
<1> QED  BY <1>1, <1>2, JoinedIsSeq

-----------------------------------------------------------------------------
(* The types of servers and queue, and the seconds they count.              *)

LEMMA TypedByTakeFirst ==
  ASSUME AccountingInv, NEW load \in Loads, TakeFirst(load)
  PROVE  TypeOK' /\ InTime'
<1> USE DEF AccountingInv
<1>1. /\ waiting' = Append(waiting, load) /\ totalVMs' = totalVMs + 1 /\ totalVMs < MaxVMs
      /\ UNCHANGED <<pc, clock, mode, vRunningVMs, perf, draw, fan, overEmergency, dvfs, inlet,
                     air, supply, totalScheduling, reassigned>>
  BY DEF TakeFirst, server, atmosphere
<1>2. waiting' \in Seq(Loads) /\ totalVMs' \in 0..MaxVMs
  BY <1>1, AccountingAssumption DEF TypeOK
<1> QED  BY <1>1, <1>2 DEF TypeOK, InTime, Ahead

LEMMA TypedByJobsTaken ==
  ASSUME AccountingInv, JobsTaken
  PROVE  TypeOK' /\ InTime'
<1> USE DEF AccountingInv
<1>1. /\ pc = "jobs" /\ pc' = "assign"
      /\ UNCHANGED <<clock, inlet, air, supply>>
  BY DEF JobsTaken, atmosphere
<1>2. CASE REASSIGN_VMS /\ clock % ReassignPeriod = 0
  <2> DEFINE busy == {s \in All : mode[s] # "off" /\ vRunningVMs[s] # <<>>}
             taken == Joined([s \in busy |-> TakeAVMs(s)])
  <2>1. ReassignVMs
    BY <1>2 DEF JobsTaken
  <2>2. taken \in Seq(Loads) /\ Len(taken) \in Nat
    BY TakenIsSeq
  <2>3. /\ waiting' = waiting \o taken
        /\ vRunningVMs' = [s \in All |-> IF s \in busy THEN <<>> ELSE vRunningVMs[s]]
        /\ reassigned' = reassigned + Len(taken)
        /\ UNCHANGED <<mode, perf, overEmergency, dvfs, totalVMs, totalScheduling>>
        /\ RecalculateAt(busy, inlet)
    BY <2>1 DEF ReassignVMs, Recalculate
  <2> HIDE DEF taken
  <2>4. waiting' \in Seq(Loads) /\ reassigned' \in Nat
    BY <2>2, <2>3 DEF TypeOK
  <2>5. vRunningVMs' \in [All -> Seq(Loads)] /\ mode' \in [All -> Modes] /\ perf' \in [All -> 0..100]
    BY <2>3 DEF TypeOK
  <2>6. draw' \in [All -> Nat] /\ fan' \in [All -> Nat]
    <3>1. busy \in SUBSET All
      OBVIOUS
    <3> HIDE DEF busy
    <3> QED  BY <2>3, <2>5, <3>1, Recalculated, Temperatures
  <2> HIDE DEF busy
  <2> QED  BY <1>1, <2>3, <2>4, <2>5, <2>6 DEF TypeOK, InTime, Ahead
<1>3. CASE ~ (REASSIGN_VMS /\ clock % ReassignPeriod = 0)
  <2>1. UNCHANGED <<server, queue>>
    BY <1>3 DEF JobsTaken
  <2> QED  BY <1>1, <2>1 DEF TypeOK, InTime, Ahead, server, queue
<1> QED  BY <1>2, <1>3

LEMMA TypedByAssignOneVM ==
  ASSUME AccountingInv, NEW s \in All, AssignOneVM(s)
  PROVE  TypeOK' /\ InTime'
<1> USE DEF AccountingInv
<1>1. /\ pc = "assign" /\ waiting # <<>>
      /\ mode' = [mode EXCEPT ![s] = "active"]
      /\ vRunningVMs' = [vRunningVMs EXCEPT ![s] = Append(@, Head(waiting))]
      /\ waiting' = Tail(waiting) /\ totalScheduling' = totalScheduling + 1
      /\ UNCHANGED <<pc, clock, perf, overEmergency, dvfs, inlet, air, totalVMs, reassigned, supply>>
      /\ RecalculateAt({s}, inlet)
  BY DEF AssignOneVM, Recalculate, atmosphere
<1>2. Head(waiting) \in Loads /\ waiting' \in Seq(Loads) /\ totalScheduling' \in Nat
  BY <1>1 DEF TypeOK
<1>3. mode' \in [All -> Modes] /\ perf' \in [All -> 0..100] /\ vRunningVMs' \in [All -> Seq(Loads)]
  BY <1>1, <1>2 DEF TypeOK, Modes
<1>4. draw' \in [All -> Nat] /\ fan' \in [All -> Nat]
  BY <1>1, <1>3, Recalculated, Temperatures
<1> QED  BY <1>1, <1>2, <1>3, <1>4 DEF TypeOK, InTime, Ahead

LEMMA TypedByServerPowerON ==
  ASSUME AccountingInv, NEW s \in All, ServerPowerON(s)
  PROVE  TypeOK' /\ InTime'
BY DEF AccountingInv, ServerPowerON, TypeOK, InTime, Ahead, Modes, queue, atmosphere

LEMMA TypedByEnds ==
  ASSUME AccountingInv, EndAssign \/ EndPolicies
  PROVE  TypeOK' /\ InTime'
BY ZenonT(60) DEF AccountingInv, EndAssign, EndPolicies, TypeOK, InTime, Ahead, server, queue, atmosphere

LEMMA TypedByOverheated ==
  ASSUME AccountingInv, Overheated
  PROVE  TypeOK' /\ InTime'
BY DEF AccountingInv, Overheated, TypeOK, InTime, Ahead, server, queue, atmosphere

LEMMA TypedByMigrate ==
  ASSUME AccountingInv, NEW s \in All, NEW t \in All, NEW copies, Migrate(s, t, copies)
  PROVE  TypeOK' /\ InTime'
<1> USE DEF AccountingInv
<1>1. /\ mode' = [mode EXCEPT ![s] = "migrating", ![t] = IF @ = "pool" THEN "active" ELSE @]
      /\ copies \in Some(vRunningVMs[s])
      /\ vRunningVMs' = [vRunningVMs EXCEPT ![t] = @ \o copies]
      /\ UNCHANGED <<pc, clock, perf, overEmergency, dvfs, inlet, air, waiting, totalVMs,
                     totalScheduling, reassigned, supply>>
      /\ RecalculateAt({t}, inlet)
  BY DEF Migrate, Recalculate, queue, atmosphere
<1>2. mode' \in [All -> Modes] /\ perf' \in [All -> 0..100] /\ vRunningVMs' \in [All -> Seq(Loads)]
  <2>1. vRunningVMs[s] \in Seq(Loads) /\ vRunningVMs[t] \in Seq(Loads)
    BY DEF TypeOK
  <2>2. copies \in Seq(Loads)
    BY <1>1, <2>1, SomeAreVMs
  <2>3. vRunningVMs[t] \o copies \in Seq(Loads)
    BY <2>1, <2>2
  <2> QED  BY <1>1, <2>3 DEF TypeOK, Modes
<1>3. draw' \in [All -> Nat] /\ fan' \in [All -> Nat]
  BY <1>1, <1>2, Recalculated, Temperatures
<1> QED  BY <1>1, <1>2, <1>3 DEF TypeOK, InTime, Ahead

LEMMA TypedByPoliceIdle ==
  ASSUME AccountingInv, NEW s \in All, PoliceIdle(s)
  PROVE  TypeOK' /\ InTime'
BY DEF AccountingInv, PoliceIdle, TypeOK, InTime, Ahead, Modes, queue, atmosphere

LEMMA TypedByRunServers ==
  ASSUME AccountingInv, NEW ended \in SUBSET All, RunServers(ended)
  PROVE  TypeOK' /\ InTime'
<1> USE DEF AccountingInv
<1> DEFINE on == {s \in All : mode[s] # "off"}
           now == [i \in Chassis |-> Performance(inlet[i])]
<1>1. /\ pc = "servers" /\ pc' = "pool"
      /\ \A s \in ended : vRunningVMs[s] # <<>>
      /\ \A s \in on : HasPerformance(inlet[s[1]])
      /\ vRunningVMs' = [s \in All |-> IF s \in ended THEN Tail(vRunningVMs[s]) ELSE vRunningVMs[s]]
      /\ perf' = [s \in All |-> IF s \in on THEN now[s[1]] ELSE perf[s]]
      /\ overEmergency' = [s \in All |->
           overEmergency[s] + IF s \in on /\ inlet[s[1]] > EMERGENCY_TEMPERATURE THEN 1 ELSE 0]
      /\ dvfs' = [s \in All |-> dvfs[s] + IF perf'[s] # perf[s] THEN 1 ELSE 0]
      /\ UNCHANGED <<clock, mode, inlet, air, waiting, totalVMs, totalScheduling, reassigned, supply>>
      /\ RecalculateAt(All, inlet)
  BY DEF RunServers, Recalculate, queue, atmosphere
<1>2. vRunningVMs' \in [All -> Seq(Loads)]
  <2>1. \A s \in ended : Tail(vRunningVMs[s]) \in Seq(Loads)
    BY <1>1 DEF TypeOK
  <2> QED  BY <1>1, <2>1 DEF TypeOK
<1>3. perf' \in [All -> 0..100]
  <2> SUFFICES ASSUME NEW s \in All PROVE (IF s \in on THEN now[s[1]] ELSE perf[s]) \in 0..100
    BY <1>1
  <2>1. s[1] \in Chassis /\ inlet[s[1]] \in Int /\ perf[s] \in 0..100
    BY Temperatures DEF TypeOK, All
  <2>2. s \in on => Performance(inlet[s[1]]) \in 0..100
    <3>1. s \in on => HasPerformance(inlet[s[1]])
      BY <1>1
    <3> QED  BY ONLY <2>1, <3>1, PerformanceIsThere, ZenonT(60)
  <2> QED  BY <2>1, <2>2
<1>4. mode' \in [All -> Modes]
  BY <1>1 DEF TypeOK
<1>5. draw' \in [All -> Nat] /\ fan' \in [All -> Nat]
  BY <1>1, <1>2, <1>3, <1>4, Recalculated, Temperatures
<1>6. clock < MaxClock /\ clock \in Nat /\ MaxClock \in Nat
  BY <1>1, AccountingAssumption DEF InTime, TypeOK
<1>7. ASSUME NEW s \in All
      PROVE  /\ overEmergency'[s] \in 0..MaxClock /\ overEmergency'[s] <= clock + 1
             /\ dvfs'[s] \in 0..MaxClock /\ dvfs'[s] <= clock + 1
  <2>1. /\ overEmergency[s] \in Nat /\ overEmergency[s] <= clock
        /\ dvfs[s] \in Nat /\ dvfs[s] <= clock
    BY <1>1, <1>6 DEF TypeOK, InTime, Ahead
  <2>2. overEmergency'[s] \in {overEmergency[s], overEmergency[s] + 1}
    BY <1>1, <2>1
  <2>3. dvfs'[s] \in {dvfs[s], dvfs[s] + 1}
    BY <1>1, <2>1
  <2> QED  BY <1>6, <2>1, <2>2, <2>3
<1>8. overEmergency' \in [All -> 0..MaxClock] /\ dvfs' \in [All -> 0..MaxClock]
  BY <1>1, <1>7
<1>9. InTime'
  BY <1>1, <1>6, <1>7 DEF InTime, Ahead
<1> QED  BY <1>1, <1>2, <1>3, <1>4, <1>5, <1>8, <1>9 DEF TypeOK

LEMMA TypedByPoolEveryASecond ==
  ASSUME AccountingInv, NEW rest, NEW booted, NEW pooled, NEW off,
         PoolEveryASecond(rest, booted, pooled, off)
  PROVE  TypeOK' /\ InTime'
<1> USE DEF AccountingInv
<1>1. /\ pc = "pool" /\ pc' = "heat" /\ clock' = clock + 1
      /\ DOMAIN rest \subseteq All /\ \A s \in DOMAIN rest : rest[s] \in Some(vRunningVMs[s])
      /\ mode' = [s \in All |->
           IF s \in off \/ (s \in DOMAIN rest /\ vRunningVMs'[s] = <<>>) THEN "off"
           ELSE IF s \in booted \cup pooled THEN "pool" ELSE mode[s]]
      /\ vRunningVMs' = [s \in All |-> IF s \in DOMAIN rest THEN rest[s] ELSE vRunningVMs[s]]
      /\ UNCHANGED <<perf, overEmergency, dvfs, inlet, air, waiting, totalVMs, totalScheduling,
                     reassigned, supply>>
      /\ RecalculateAt(DOMAIN rest, air)
  BY DEF PoolEveryASecond, InMode, queue, atmosphere
<1>2. clock \in Nat /\ clock < MaxClock /\ MaxClock \in Nat
  BY <1>1, AccountingAssumption DEF TypeOK, InTime
<1>3. mode' \in [All -> Modes] /\ vRunningVMs' \in [All -> Seq(Loads)] /\ clock' \in 0..MaxClock
      /\ perf' \in [All -> 0..100]
  <2>1. \A s \in DOMAIN rest : rest[s] \in Seq(Loads)
    <3>1. \A s \in DOMAIN rest : vRunningVMs[s] \in Seq(Loads)
      BY <1>1 DEF TypeOK
    <3> QED  BY <1>1, <3>1, SomeAreVMs
  <2>2. vRunningVMs' \in [All -> Seq(Loads)]
    BY <1>1, <2>1 DEF TypeOK
  <2>3. mode' \in [All -> Modes]
    BY <1>1 DEF TypeOK, Modes
  <2>4. clock' \in 0..MaxClock /\ perf' \in [All -> 0..100]
    BY <1>1, <1>2 DEF TypeOK
  <2> QED  BY <2>2, <2>3, <2>4
<1>4. TypeOK'
  <2>1. draw' \in [All -> Nat] /\ fan' \in [All -> Nat]
    <3>1. DOMAIN rest \in SUBSET All
      BY <1>1
    <3> QED  BY <1>1, <1>3, <3>1, Recalculated, Temperatures
  <2> QED  BY <1>1, <1>3, <2>1 DEF TypeOK
<1>5. \A s \in All : overEmergency[s] <= clock + 1 /\ dvfs[s] <= clock + 1
  BY <1>1 DEF InTime, Ahead
<1>6. InTime'
  BY <1>1, <1>2, <1>5 DEF InTime, Ahead
<1> QED  BY <1>4, <1>6

LEMMA TypedByHeat ==
  ASSUME AccountingInv, Heat
  PROVE  TypeOK' /\ InTime'
<1> USE DEF AccountingInv
<1>1. /\ pc = "heat" /\ pc' \in {"logs", "undefined"}
      /\ supply' \in Supplies /\ inlet' \in [Chassis -> Inlets] /\ air' \in [Chassis -> Supplies]
      /\ UNCHANGED <<clock, mode, vRunningVMs, perf, draw, fan, overEmergency, dvfs, waiting,
                     totalVMs, totalScheduling, reassigned>>
  BY DEF Heat, server, queue
<1>2. inlet' \in [Chassis -> Inlets \cup {LOWEST_SUPPLY_TEMPERATURE}]
  BY <1>1
<1> QED  BY <1>1, <1>2, SMTT(60) DEF TypeOK, InTime, Ahead

LEMMA TypedByLogs ==
  ASSUME AccountingInv, Logs
  PROVE  TypeOK' /\ InTime'
<1> USE DEF AccountingInv
<1>1. /\ pc = "logs" /\ pc' = IF clock = MaxClock THEN "print" ELSE "jobs"
      /\ UNCHANGED <<clock, mode, vRunningVMs, perf, draw, fan, overEmergency, dvfs, inlet, air,
                     waiting, totalVMs, totalScheduling, reassigned, supply>>
  BY DEF Logs, server, queue, atmosphere
<1>2. clock \in 0..MaxClock /\ MaxClock \in Nat
  BY AccountingAssumption DEF TypeOK
<1>3. pc' \in {"print", "jobs"} /\ (pc' = "jobs" => clock < MaxClock)
  BY <1>1, <1>2
<1>4. TypeOK'
  BY <1>1, <1>3 DEF TypeOK
<1>5. InTime'
  BY <1>1, <1>3 DEF InTime, Ahead
<1> QED  BY <1>4, <1>5

LEMMA NextTyped ==
  ASSUME AccountingInv, Next
  PROVE  TypeOK' /\ InTime'
<1>1. ASSUME NEW load \in Loads, TakeFirst(load) PROVE TypeOK' /\ InTime'
  BY <1>1, TypedByTakeFirst
<1>2. CASE JobsTaken
  BY <1>2, TypedByJobsTaken
<1>3. ASSUME NEW s \in All, AssignOneVM(s) \/ ServerPowerON(s) \/ PoliceIdle(s)
      PROVE  TypeOK' /\ InTime'
  BY <1>3, TypedByAssignOneVM, TypedByServerPowerON, TypedByPoliceIdle
<1>4. CASE EndAssign \/ EndPolicies
  BY <1>4, TypedByEnds
<1>5. ASSUME NEW s \in All, NEW t \in All, NEW copies, Migrate(s, t, copies) PROVE TypeOK' /\ InTime'
  BY <1>5, TypedByMigrate
<1>6. ASSUME NEW ended \in SUBSET All, RunServers(ended) PROVE TypeOK' /\ InTime'
  BY <1>6, TypedByRunServers
<1>7. CASE Overheated
  BY <1>7, TypedByOverheated
<1>8. ASSUME NEW rest, NEW booted, NEW pooled, NEW off, PoolEveryASecond(rest, booted, pooled, off)
      PROVE  TypeOK' /\ InTime'
  BY <1>8, TypedByPoolEveryASecond
<1>9. CASE Heat
  BY <1>9, TypedByHeat
<1>10. CASE Logs
  BY <1>10, TypedByLogs
<1> QED  BY <1>1, <1>2, <1>3, <1>4, <1>5, <1>6, <1>7, <1>8, <1>9, <1>10 DEF Next

-----------------------------------------------------------------------------
(* What a second adds to the books.                                         *)

LEMMA CRACPowerIsNat ==
  ASSUME TypeOK, NEW machines \in Nat
  PROVE  CalculateCurrentCRACPower(machines) \in Nat
<1>1. PICK t \in Nat : t = supply
  BY AccountingAssumption DEF TypeOK
<1>2. t * t \in Nat
  BY ProductIsNat
<1>3. 68 * (t * t) + 8 * t + 4580 \in Nat \ {0}
  BY <1>2
<1>4. 68 * t * t = 68 * (t * t)
  OBVIOUS
<1>5. machines * 10000 \in Nat
  OBVIOUS
<1> QED  BY <1>1, <1>3, <1>4, <1>5, QuotientOfNat DEF CalculateCurrentCRACPower

LEMMA ServerAmounts ==
  ASSUME TypeOK, NEW s \in All
  PROVE  /\ GetPowerDraw(s) \in Nat /\ GetFanPower(s) \in Nat
         /\ MaxUtilization(mode[s], perf[s]) \in 0..100 /\ Utilization(s) \in 0..100
         /\ mode[s] = "off" => Utilization(s) = 0
<1>1. draw[s] \in Nat /\ fan[s] \in Nat /\ mode[s] \in Modes /\ perf[s] \in 0..100
      /\ vRunningVMs[s] \in Seq(Loads)
  BY SMTT(60) DEF TypeOK
<1>2. MaxUtilization(mode[s], perf[s]) \in 0..100 /\ Utilization(s) \in 0..100
  BY <1>1, UtilizationIsShare DEF Utilization
<1>3. mode[s] = "off" => Utilization(s) = 0
  BY DEF Utilization, CurrentUtilization, VMRequires, MaxUtilization
<1> QED  BY <1>1, <1>2, <1>3 DEF GetPowerDraw, GetFanPower

(* Totals over all servers. *)
LEMMA TotalOfServers ==
  ASSUME NEW f, DOMAIN f = All, \A s \in All : f[s] \in Nat
  PROVE  /\ Total(f) = SumFunctionOnSet(f, All)
         /\ Total(f) \in Nat
BY AllIsFinite, TotalIsSum, SumIsNat

LEMMA SampleIsEntry ==
  ASSUME TypeOK
  PROVE  Sample \in LogEntry
<1> DEFINE machines == Total([s \in All |-> GetPowerDraw(s)])
           fans == Total([s \in All |-> GetFanPower(s)])
           computing == Total([s \in All |-> MaxUtilization(mode[s], perf[s])])
           utilization == Total([s \in All |-> Utilization(s)])
<1>1. machines \in Nat
  BY ServerAmounts, TotalOfServers
<1>2. fans \in Nat
  BY ServerAmounts, TotalOfServers
<1>3. computing \in Nat
  BY ServerAmounts, TotalOfServers
<1>4. utilization \in Nat
  BY ServerAmounts, TotalOfServers
<1>5. CalculateCurrentCRACPower(machines) \in Nat
  BY <1>1, CRACPowerIsNat
<1>6. supply \in Nat
  BY AccountingAssumption DEF TypeOK
<1>7. Sample = [seconds |-> 1, supply |-> supply, machines |-> machines, fans |-> fans,
                crac |-> CalculateCurrentCRACPower(machines), computing |-> computing,
                utilization |-> utilization]
  BY DEF Sample
<1> HIDE DEF machines, fans, computing, utilization
<1> QED  BY <1>1, <1>2, <1>3, <1>4, <1>5, <1>6, <1>7 DEF LogEntry

LEMMA AddedEntries ==
  ASSUME NEW a \in LogEntry, NEW b \in LogEntry
  PROVE  /\ Add(a, b) \in LogEntry
         /\ \A field \in DOMAIN a : Add(a, b)[field] = a[field] + b[field]
         /\ DOMAIN a = {"seconds", "supply", "machines", "fans", "crac", "computing", "utilization"}
<1>1. DOMAIN a = {"seconds", "supply", "machines", "fans", "crac", "computing", "utilization"}
  BY DEF LogEntry
<1>2. \A field \in DOMAIN a : a[field] \in Nat /\ b[field] \in Nat
  BY <1>1 DEF LogEntry
<1>3. \A field \in DOMAIN a : Add(a, b)[field] = a[field] + b[field]
  BY DEF Add
<1>4. DOMAIN Add(a, b) = DOMAIN a
  BY DEF Add
<1>5. Add(a, b) = [seconds |-> Add(a, b).seconds, supply |-> Add(a, b).supply,
                   machines |-> Add(a, b).machines, fans |-> Add(a, b).fans,
                   crac |-> Add(a, b).crac, computing |-> Add(a, b).computing,
                   utilization |-> Add(a, b).utilization]
  BY <1>1, <1>4 DEF Add
<1>6. \A field \in DOMAIN a : Add(a, b)[field] \in Nat
  BY <1>2, <1>3
<1>7. Add(a, b) \in LogEntry
  BY <1>1, <1>5, <1>6 DEF LogEntry
<1> QED  BY <1>1, <1>3, <1>7

LEMMA NothingIsEntry == Nothing \in LogEntry /\ \A field \in DOMAIN Nothing : Nothing[field] = 0
BY DEF Nothing, LogEntry

-----------------------------------------------------------------------------
(* The steps that leave the books alone, but for the policies' accumulator. *)

(* The action is one of those that neither count nor log. *)
LeavesBooks ==
  /\ UNCHANGED <<accounts, distribution, switches>>
  /\ pc \notin {"heat", "logs"} /\ pc' # "logs"
  /\ \E n \in Nat : migrations' = [migrations EXCEPT !.log = @ + n]

Books == BooksOK /\ EnergyBooked /\ LoadsCounted

LEMMA NextLeavesBooks ==
  ASSUME TypeOK, BooksOK, Next, pc \notin {"heat", "logs"}
  PROVE  LeavesBooks
<1> USE DEF LeavesBooks, books
<1>0. UNCHANGED migrations => migrations' = [migrations EXCEPT !.log = @ + 0]
  BY DEF BooksOK
<1>1. ASSUME NEW load \in Loads, TakeFirst(load) PROVE LeavesBooks
  BY <1>0, <1>1 DEF TakeFirst
<1>2. CASE JobsTaken
  BY <1>0, <1>2 DEF JobsTaken
<1>3. ASSUME NEW s \in All, AssignOneVM(s) \/ ServerPowerON(s) PROVE LeavesBooks
  BY <1>0, <1>3 DEF AssignOneVM, ServerPowerON
<1>4. ASSUME NEW s \in All, PoliceIdle(s) PROVE LeavesBooks
  BY <1>4 DEF PoliceIdle
<1>5. CASE EndAssign \/ EndPolicies
  BY <1>0, <1>5 DEF EndAssign, EndPolicies
<1>6. ASSUME NEW s \in All, NEW t \in All, NEW copies, Migrate(s, t, copies) PROVE LeavesBooks
  <2>1. PICK n : n = Len(copies)
    OBVIOUS
  <2>2. n \in Nat
    <3>1. vRunningVMs[s] \in Seq(Loads) /\ copies \in Some(vRunningVMs[s])
      BY <1>6 DEF Migrate, TypeOK
    <3> QED  BY <2>1, <3>1, SomeAreVMs
  <2>3. migrations' = [migrations EXCEPT !.log = @ + n]
    BY <1>6, <2>1 DEF Migrate
  <2> QED  BY <1>6, <2>2, <2>3 DEF Migrate
<1>7. ASSUME NEW ended \in SUBSET All, RunServers(ended) PROVE LeavesBooks
  BY <1>0, <1>7 DEF RunServers
<1>8. CASE Overheated
  BY <1>0, <1>8 DEF Overheated
<1>9. ASSUME NEW rest, NEW booted, NEW pooled, NEW off, PoolEveryASecond(rest, booted, pooled, off)
      PROVE  LeavesBooks
  BY <1>0, <1>9 DEF PoolEveryASecond
<1>10. ~ Heat /\ ~ Logs
  BY DEF Heat, Logs
<1> QED  BY <1>1, <1>2, <1>3, <1>4, <1>5, <1>6, <1>7, <1>8, <1>9, <1>10 DEF Next

LEMMA BooksLeft ==
  ASSUME Books, LeavesBooks
  PROVE  Books'
<1>1. /\ UNCHANGED <<log, sparse, perChassis, perDataCenterUtilization, peakPower, distribution, switches>>
      /\ pc # "logs" /\ pc' # "logs"
      /\ \E n \in Nat : migrations' = [migrations EXCEPT !.log = @ + n]
  BY DEF LeavesBooks, accounts
<1>2. migrations' \in [log: Nat, sparse: Seq(Nat), total: Nat]
  <2>1. PICK n \in Nat : migrations' = [migrations EXCEPT !.log = @ + n]
    BY <1>1
  <2>2. migrations \in [log: Nat, sparse: Seq(Nat), total: Nat]
    BY DEF Books, BooksOK
  <2> QED  BY <2>1, <2>2, SMTT(60)
<1>3. BooksOK'
  BY <1>1, <1>2 DEF Books, BooksOK
<1>4. EnergyBooked'
  BY <1>1 DEF Books, EnergyBooked, Logged
<1>5. LoadsCounted'
  BY <1>1 DEF Books, LoadsCounted
<1> QED  BY <1>3, <1>4, <1>5 DEF Books

-----------------------------------------------------------------------------
(* Heat: the switches and the distributions.                                *)

LEMMA EnergiesAreNat == \A t \in SwitchLevels : ReturnsEnergyConsumption(t) \in Nat
<1>1. ActiveConnections \in Nat
  <2>1. {s \in All : mode[s] # "off"} \subseteq All
    OBVIOUS
  <2> QED  BY <2>1, AllIsFinite, FS_Subset, FS_CardinalityType DEF ActiveConnections
<1>2. AccessEnergy \in Nat
  BY <1>1 DEF AccessEnergy, Energy, EACCE
<1>3. AggregationEnergy \in Nat /\ CoreEnergy \in Nat
  BY DEF AggregationEnergy, CoreEnergy, Energy, EAGGR, ECORE
<1> QED  BY <1>2, <1>3 DEF ReturnsEnergyConsumption, SwitchLevels

LEMMA SwitchesTyped ==
  ASSUME BooksOK, SwitchesEveryASecond
  PROVE  switches' \in [log: [SwitchLevels -> Nat], sparse: Seq([SwitchLevels -> Nat]),
                        total: [SwitchLevels -> Nat]]
<1> DEFINE sum == [t \in SwitchLevels |-> switches.log[t] + ReturnsEnergyConsumption(t)]
           total == [t \in SwitchLevels |-> switches.total[t] + sum[t]]
           none == [t \in SwitchLevels |-> 0]
<1>1. /\ switches.log \in [SwitchLevels -> Nat] /\ switches.sparse \in Seq([SwitchLevels -> Nat])
      /\ switches.total \in [SwitchLevels -> Nat]
  BY DEF BooksOK
<1>2. sum \in [SwitchLevels -> Nat]
  BY <1>1, EnergiesAreNat
<1>3. total \in [SwitchLevels -> Nat] /\ none \in [SwitchLevels -> Nat]
  BY <1>1, <1>2
<1>4. switches' \in {[log |-> none, sparse |-> Append(switches.sparse, sum), total |-> total],
                     [switches EXCEPT !.log = sum]}
  BY DEF SwitchesEveryASecond
<1> HIDE DEF sum, total, none
<1>5. Append(switches.sparse, sum) \in Seq([SwitchLevels -> Nat])
  BY <1>1, <1>2
<1>6. [log |-> none, sparse |-> Append(switches.sparse, sum), total |-> total]
        \in [log: [SwitchLevels -> Nat], sparse: Seq([SwitchLevels -> Nat]), total: [SwitchLevels -> Nat]]
  BY <1>3, <1>5
<1>7. [switches EXCEPT !.log = sum]
        \in [log: [SwitchLevels -> Nat], sparse: Seq([SwitchLevels -> Nat]), total: [SwitchLevels -> Nat]]
  BY <1>2 DEF BooksOK
<1> QED  BY <1>4, <1>6, <1>7

On == {s \in All : mode[s] # "off"}

(* Both distributions count the servers that are on. *)
LEMMA Recorded ==
  ASSUME TypeOK, BooksOK, Record, \A s \in On : inlet'[s[1]] \in 0..100, NEW w \in [Nat -> Nat]
  PROVE  LET loads == [s \in On |-> Utilization(s)]
             inlets == [s \in On |-> inlet'[s[1]]]
         IN  /\ IsArray(distribution'.temperature) /\ IsArray(distribution'.utilization)
             /\ Weighed(w, distribution'.utilization)
                  = Weighed(w, distribution.utilization) + SumFunctionOnSet(Weights(w, On, loads), On)
             /\ Weighed(w, distribution'.temperature)
                  = Weighed(w, distribution.temperature) + SumFunctionOnSet(Weights(w, On, inlets), On)
<1> DEFINE loads == [s \in On |-> Utilization(s)]
           inlets == [s \in On |-> inlet'[s[1]]]
<1>1. IsFiniteSet(On)
  BY AllIsFinite, FS_Subset DEF On
<1>2. loads \in [On -> Nat]
  BY ServerAmounts DEF On
<1>3. inlets \in [On -> Nat]
  OBVIOUS
<1>4. IsArray(distribution.temperature) /\ IsArray(distribution.utilization)
  BY DEF BooksOK
<1>5. /\ distribution'.temperature = Counted(distribution.temperature, inlets)
      /\ distribution'.utilization = Counted(distribution.utilization, loads)
  BY DEF Record, On
<1> HIDE DEF loads, inlets
<1>6. /\ IsArray(Counted(distribution.utilization, loads))
      /\ Weighed(w, Counted(distribution.utilization, loads))
           = Weighed(w, distribution.utilization) + SumFunctionOnSet(Weights(w, On, loads), On)
  BY <1>1, <1>2, <1>4, CountedWeighs
<1>7. /\ IsArray(Counted(distribution.temperature, inlets))
      /\ Weighed(w, Counted(distribution.temperature, inlets))
           = Weighed(w, distribution.temperature) + SumFunctionOnSet(Weights(w, On, inlets), On)
  BY <1>1, <1>3, <1>4, CountedWeighs
<1> QED  BY <1>5, <1>6, <1>7 DEF loads, inlets

LEMMA LoadsOfTheServersOn ==
  ASSUME TypeOK
  PROVE  SumFunctionOnSet(Weights(Numbers, On, [s \in On |-> Utilization(s)]), On)
           = Total([s \in All |-> Utilization(s)])
<1> DEFINE f == [s \in All |-> Utilization(s)]
           g == Weights(Numbers, On, [s \in On |-> Utilization(s)])
           R == All \ On
<1>1. IsFiniteSet(On) /\ IsFiniteSet(R) /\ All = On \cup R /\ On \cap R = {}
  BY AllIsFinite, FS_Subset DEF On
<1>2. \A s \in All : f[s] \in Int /\ (s \in R => f[s] = 0)
  BY ServerAmounts DEF On
<1>3. \A s \in On : f[s] = g[s]
  <2> SUFFICES ASSUME NEW s \in On PROVE f[s] = g[s]
    OBVIOUS
  <2>1. Utilization(s) \in Nat /\ s \in All
    BY ServerAmounts DEF On
  <2> QED  BY <2>1 DEF Weights, Numbers
<1>4. Total(f) = SumFunctionOnSet(f, All)
  BY TotalIsSum
<1> HIDE DEF f, g, R
<1>5. SumFunctionOnSet(f, On \cup R) = SumFunctionOnSet(f, On) + SumFunctionOnSet(f, R)
  BY <1>1, <1>2, SumOfUnion
<1>6. SumFunctionOnSet(f, R) = 0
  BY <1>1, <1>2, ZeroSum
<1>7. SumFunctionOnSet(f, On) = SumFunctionOnSet(g, On) /\ SumFunctionOnSet(f, On) \in Int
  BY <1>1, <1>2, <1>3, SumsAgree, SumIsInt
<1>8. SumFunctionOnSet(g, On) = Total(f)
  BY <1>1, <1>4, <1>5, <1>6, <1>7, SMTT(60)
<1> QED  BY <1>8 DEF f, g

LEMMA BooksByHeat ==
  ASSUME TypeOK, Books, Heat, TypeOK'
  PROVE  Books'
<1>1. /\ pc = "heat" /\ SwitchesEveryASecond
      /\ UNCHANGED <<mode, perf, vRunningVMs, log, sparse, perChassis, perDataCenterUtilization,
                     peakPower, migrations>>
  BY DEF Heat, server, accounts, TypeOK
<1>2. switches' \in [log: [SwitchLevels -> Nat], sparse: Seq([SwitchLevels -> Nat]),
                     total: [SwitchLevels -> Nat]]
  BY <1>1, SwitchesTyped DEF Books
<1>3. EnergyBooked'
  BY <1>1 DEF Books, EnergyBooked, Logged
<1>4. CASE Record /\ pc' = "logs" /\ \A s \in On : inlet'[s[1]] \in 0..100
  <2>1. Numbers \in [Nat -> Nat]
    BY DEF Numbers
  <2>2. /\ IsArray(distribution'.temperature) /\ IsArray(distribution'.utilization)
        /\ Weighed(Numbers, distribution'.utilization)
             = Weighed(Numbers, distribution.utilization) + Total([s \in All |-> Utilization(s)])
    BY <1>1, <1>4, <2>1, Recorded, LoadsOfTheServersOn DEF Books
  <2>3. BooksOK'
    BY <1>1, <1>2, <2>2 DEF Books, BooksOK
  <2>4. Weighed(Numbers, distribution.utilization) = perDataCenterUtilization
    BY <1>1 DEF Books, LoadsCounted, BooksOK
  <2>5. Total([s \in All |-> Utilization(s)]) = Total([s \in All |-> Utilization(s)])'
    BY <1>1 DEF Utilization
  <2>6. LoadsCounted'
    BY <1>1, <1>4, <2>2, <2>4, <2>5 DEF LoadsCounted
  <2> QED  BY <1>3, <2>3, <2>6 DEF Books
<1>5. CASE UNCHANGED distribution /\ pc' = "undefined"
  <2>1. BooksOK'
    BY <1>1, <1>2, <1>5 DEF Books, BooksOK
  <2>2. LoadsCounted'
    BY <1>1, <1>5 DEF Books, LoadsCounted
  <2> QED  BY <1>3, <2>1, <2>2 DEF Books
<1> QED  BY <1>4, <1>5, ZenonT(60) DEF Heat, On

-----------------------------------------------------------------------------
(* Logs: the accumulators.                                                  *)

LEMMA GreaterOfTwo ==
  ASSUME NEW a \in Nat, NEW b \in Nat
  PROVE  Max({a, b}) \in Nat /\ Max({a, b}) >= a /\ Max({a, b}) >= b
<1>1. \E x \in {a, b} : \A y \in {a, b} : x >= y
  <2>1. CASE a >= b
    BY <2>1
  <2>2. CASE ~ (a >= b)
    BY <2>2
  <2> QED  BY <2>1, <2>2
<1>2. Max({a, b}) \in {a, b} /\ \A y \in {a, b} : Max({a, b}) >= y
  BY <1>1 DEF Max
<1> QED  BY <1>2

(* What a second changes in the accumulator and in the log. *)
LEMMA LogsOfSecond ==
  ASSUME BooksOK, TypeOK, Logs
  PROVE  \/ /\ clock % PERIODIC_LOG_INTERVAL = 0
            /\ sparse' = Append(sparse, log) /\ log' = Add(Nothing, Sample)
            /\ migrations' = [log |-> 0,
                              sparse |-> Append(migrations.sparse, migrations.log),
                              total |-> migrations.total + migrations.log]
         \/ /\ clock % PERIODIC_LOG_INTERVAL # 0
            /\ sparse' = sparse /\ log' = Add(log, Sample) /\ migrations' = migrations
BY DEF Logs, Flush

LEMMA LogsTyped ==
  ASSUME BooksOK, TypeOK, Logs
  PROVE  /\ log' \in LogEntry /\ sparse' \in Seq(LogEntry)
         /\ migrations' \in [log: Nat, sparse: Seq(Nat), total: Nat]
<1>1. log \in LogEntry /\ sparse \in Seq(LogEntry) /\ Sample \in LogEntry /\ Nothing \in LogEntry
      /\ migrations \in [log: Nat, sparse: Seq(Nat), total: Nat]
  BY SampleIsEntry, NothingIsEntry DEF BooksOK
<1>2. Add(log, Sample) \in LogEntry
  BY <1>1, AddedEntries
<1>3. Add(Nothing, Sample) \in LogEntry
  BY <1>1, AddedEntries
<1>4. Append(sparse, log) \in Seq(LogEntry)
  BY <1>1
<1>5. [log |-> 0, sparse |-> Append(migrations.sparse, migrations.log),
       total |-> migrations.total + migrations.log] \in [log: Nat, sparse: Seq(Nat), total: Nat]
  BY <1>1
<1> QED  BY <1>1, <1>2, <1>3, <1>4, <1>5, LogsOfSecond

(* Nothing is lost when an interval ends. *)
LEMMA LogsAdd ==
  ASSUME BooksOK, TypeOK, Logs,
         NEW field \in {"seconds", "supply", "machines", "fans", "crac", "computing", "utilization"}
  PROVE  /\ Logged(field)' + log'[field] = Logged(field) + log[field] + Sample[field]
         /\ Logged(field) \in Nat /\ log[field] \in Nat /\ Sample[field] \in Nat
<1>1. log \in LogEntry /\ sparse \in Seq(LogEntry) /\ Sample \in LogEntry /\ Nothing \in LogEntry
  BY SampleIsEntry, NothingIsEntry DEF BooksOK
<1>2. \A e \in LogEntry : e[field] \in Nat
  BY DEF LogEntry
<1>3. Logged(field) \in Nat /\ log[field] \in Nat /\ Sample[field] \in Nat
  BY <1>1, <1>2, ColumnIsSeq, LoggedIsColumn
<1>4. Logged(field)' = Total(Column(sparse', field))
  BY DEF Logged, Column
<1>5. Logged(field) = Total(Column(sparse, field))
  BY LoggedIsColumn
<1>6. CASE sparse' = Append(sparse, log) /\ log' = Add(Nothing, Sample)
  <2>1. Total(Column(sparse', field)) = Total(Column(sparse, field)) + log[field]
    BY <1>1, <1>2, <1>6, ColumnOfAppend
  <2>2. log'[field] = Nothing[field] + Sample[field] /\ Nothing[field] = 0
    BY <1>1, <1>6, AddedEntries, NothingIsEntry
  <2>3. log'[field] = Sample[field]
    BY <1>3, <2>2
  <2> QED  BY <1>3, <1>4, <1>5, <2>1, <2>3
<1>7. CASE sparse' = sparse /\ log' = Add(log, Sample)
  <2>1. log'[field] = log[field] + Sample[field]
    BY <1>1, <1>7, AddedEntries
  <2> QED  BY <1>3, <1>4, <1>5, <1>7, <2>1
<1> QED  BY <1>3, <1>6, <1>7, LogsOfSecond

(* The books of the chassis get what the servers of each have.              *)
LEMMA ChassisAdd ==
  ASSUME NEW old \in [Chassis -> Nat], NEW new, DOMAIN new = Chassis,
         NEW amount, DOMAIN amount = All, \A s \in All : amount[s] \in Nat,
         \A i \in Chassis : new[i] = old[i] + Total([j \in Servers |-> amount[<<i, j>>]])
  PROVE  /\ Total(new) = Total(old) + Total(amount)
         /\ \A i \in Chassis : new[i] \in Nat
<1> DEFINE row(i) == [j \in Servers |-> amount[<<i, j>>]]
           rows == [i \in Chassis |-> SumFunctionOnSet(row(i), Servers)]
<1>1. IsFiniteSet(Chassis) /\ IsFiniteSet(Servers)
  BY AccountingAssumption
<1>2. ASSUME NEW i \in Chassis
      PROVE  /\ rows[i] \in Nat /\ Total(row(i)) = rows[i]
  <2>1. \A j \in Servers : row(i)[j] \in Nat
    BY DEF All
  <2>2. SumFunctionOnSet(row(i), Servers) \in Nat
    <3> HIDE DEF row
    <3> QED  BY <1>1, <2>1, SumIsNat
  <2>3. DOMAIN row(i) = Servers
    OBVIOUS
  <2>4. Total(row(i)) = SumFunctionOnSet(row(i), Servers)
    BY <2>3, TotalIsSum
  <2> QED  BY <2>2, <2>4
<1>3. \A i \in Chassis : new[i] = old[i] + rows[i]
  BY <1>2
<1>4. SumFunctionOnSet(amount, All) = SumFunctionOnSet(rows, Chassis)
  <2>1. \A p \in Chassis \X Servers : amount[p] \in Int
    BY DEF All
  <2> QED  BY <1>1, <2>1, SumOfRows DEF All
<1> HIDE DEF rows, row
<1>5. \A i \in Chassis : old[i] \in Int /\ rows[i] \in Int /\ new[i] = old[i] + rows[i]
  BY <1>2, <1>3
<1>6. SumFunctionOnSet(new, Chassis) = SumFunctionOnSet(old, Chassis) + SumFunctionOnSet(rows, Chassis)
  BY <1>1, <1>5, SumOfSums
<1>7. \A i \in Chassis : new[i] \in Nat
  BY <1>2, <1>3
<1>8. DOMAIN old = Chassis
  OBVIOUS
<1> QED  BY <1>4, <1>6, <1>7, <1>8, TotalIsSum

LEMMA BooksByLogs ==
  ASSUME TypeOK, Books, Logs
  PROVE  Books'
<1> DEFINE draws == [s \in All |-> GetPowerDraw(s)]
           most == [s \in All |-> MaxUtilization(mode[s], perf[s])]
           power == [i \in Chassis |-> perChassis[i].power]
           computing == [i \in Chassis |-> perChassis[i].computing]
<1>1. /\ pc = "logs" /\ pc' # "logs"
      /\ perChassis' = [i \in Chassis |->
           [power |-> perChassis[i].power + Total([j \in Servers |-> GetPowerDraw(<<i, j>>)]),
            computing |-> perChassis[i].computing
                            + Total([j \in Servers |-> MaxUtilization(mode[<<i, j>>], perf[<<i, j>>])]),
            temperature |-> perChassis[i].temperature + inlet[i]]]
      /\ perDataCenterUtilization' = perDataCenterUtilization + Sample.utilization
      /\ peakPower' = Max({peakPower, Sample.machines + Sample.crac})
      /\ UNCHANGED <<distribution, switches>>
  BY DEF Logs
<1>2. BooksOK /\ EnergyBooked /\ LoadsCounted
  BY DEF Books
<1>3. \A i \in Chassis : perChassis[i] \in [power: Nat, computing: Nat, temperature: Int]
  BY <1>2 DEF BooksOK
<1>4. power \in [Chassis -> Nat] /\ computing \in [Chassis -> Nat]
  BY <1>3
<1>5. \A s \in All : draws[s] \in Nat /\ most[s] \in Nat
  BY ServerAmounts
<1>6. \A i \in Chassis : Total([j \in Servers |-> GetPowerDraw(<<i, j>>)])
                           = Total([j \in Servers |-> draws[<<i, j>>]])
  <2> SUFFICES ASSUME NEW i \in Chassis
               PROVE  [j \in Servers |-> GetPowerDraw(<<i, j>>)] = [j \in Servers |-> draws[<<i, j>>]]
    OBVIOUS
  <2> QED  BY DEF All
<1>7. \A i \in Chassis : Total([j \in Servers |-> MaxUtilization(mode[<<i, j>>], perf[<<i, j>>])])
                           = Total([j \in Servers |-> most[<<i, j>>]])
  <2> SUFFICES ASSUME NEW i \in Chassis
               PROVE  [j \in Servers |-> MaxUtilization(mode[<<i, j>>], perf[<<i, j>>])]
                        = [j \in Servers |-> most[<<i, j>>]]
    OBVIOUS
  <2> QED  BY DEF All
<1>8. PICK power2 : power2 = [i \in Chassis |-> perChassis'[i].power]
  OBVIOUS
<1>9. PICK computing2 : computing2 = [i \in Chassis |-> perChassis'[i].computing]
  OBVIOUS
<1>10. \A i \in Chassis : power2[i] = power[i] + Total([j \in Servers |-> draws[<<i, j>>]])
  BY <1>1, <1>6, <1>8
<1>11. \A i \in Chassis : computing2[i] = computing[i] + Total([j \in Servers |-> most[<<i, j>>]])
  BY <1>1, <1>7, <1>9
<1>12. Sample.machines = Total(draws) /\ Sample.computing = Total(most)
  BY DEF Sample
<1> HIDE DEF draws, most, power, computing
<1>13. Total(power2) = Total(power) + Total(draws) /\ \A i \in Chassis : power2[i] \in Nat
  <2>1. DOMAIN power2 = Chassis /\ DOMAIN draws = All
    BY <1>8 DEF draws
  <2> QED  BY <1>4, <1>5, <1>10, <2>1, ChassisAdd
<1>14. Total(computing2) = Total(computing) + Total(most) /\ \A i \in Chassis : computing2[i] \in Nat
  <2>1. DOMAIN computing2 = Chassis /\ DOMAIN most = All
    BY <1>9 DEF most
  <2> QED  BY <1>4, <1>5, <1>11, <2>1, ChassisAdd
<1>15. Sample \in LogEntry
  BY SampleIsEntry
<1>16. perDataCenterUtilization' \in Nat /\ peakPower' \in Nat
  <2>1. Sample.utilization \in Nat /\ Sample.machines + Sample.crac \in Nat
    BY <1>15 DEF LogEntry
  <2>2. perDataCenterUtilization \in Nat /\ peakPower \in Nat
    BY <1>2 DEF BooksOK
  <2> QED  BY <1>1, <2>1, <2>2, GreaterOfTwo
<1>17. perChassis' \in [Chassis -> [power: Nat, computing: Nat, temperature: Int]]
  <2> SUFFICES ASSUME NEW i \in Chassis
               PROVE  perChassis'[i] \in [power: Nat, computing: Nat, temperature: Int]
    BY <1>1
  <2>1. perChassis'[i].power \in Nat /\ perChassis'[i].computing \in Nat
    BY <1>8, <1>9, <1>13, <1>14
  <2>2. perChassis'[i].temperature \in Int
    <3>1. perChassis[i].temperature \in Int /\ inlet[i] \in Int
      BY <1>3, Temperatures
    <3>2. perChassis'[i].temperature = perChassis[i].temperature + inlet[i]
      BY <1>1
    <3> QED  BY <3>1, <3>2
  <2>3. perChassis'[i] = [power |-> perChassis'[i].power, computing |-> perChassis'[i].computing,
                          temperature |-> perChassis'[i].temperature]
    BY <1>1
  <2> QED  BY <2>1, <2>2, <2>3
<1>18. BooksOK'
  BY <1>1, <1>2, <1>16, <1>17, LogsTyped DEF BooksOK
<1>19. EnergyBooked'
  <2>1. /\ Logged("machines") + log.machines = Total(power)
        /\ Logged("computing") + log.computing = Total(computing)
        /\ Logged("utilization") + log.utilization = perDataCenterUtilization
    BY <1>2 DEF EnergyBooked, power, computing
  <2>2. /\ Logged("machines")' + log'.machines = Logged("machines") + log.machines + Sample.machines
        /\ Logged("computing")' + log'.computing = Logged("computing") + log.computing + Sample.computing
        /\ Logged("utilization")' + log'.utilization
             = Logged("utilization") + log.utilization + Sample.utilization
    BY <1>2, LogsAdd
  <2>3. /\ Logged("machines")' + log'.machines = Total(power2)
        /\ Logged("computing")' + log'.computing = Total(computing2)
        /\ Logged("utilization")' + log'.utilization = perDataCenterUtilization'
    BY <1>1, <1>12, <1>13, <1>14, <2>1, <2>2
  <2> QED  BY <1>8, <1>9, <2>3 DEF EnergyBooked
<1>20. LoadsCounted'
  <2>1. Sample.utilization = Total([s \in All |-> Utilization(s)])
    BY DEF Sample
  <2> QED  BY <1>1, <1>2, <2>1 DEF LoadsCounted
<1> QED  BY <1>18, <1>19, <1>20 DEF Books

-----------------------------------------------------------------------------
(* The draw of the servers.                                                 *)

LEMMA NextFresh ==
  ASSUME AccountingInv, Next, TypeOK'
  PROVE  Fresh'
<1> USE DEF AccountingInv
<1>1. CASE pc' # "pool"
  BY <1>1 DEF Fresh
<1>2. CASE pc' = "pool"
  <2>1. PICK ended \in SUBSET All : RunServers(ended)
    <3>1. CASE pc = "servers"
      <4>1. ~ Overheated
        BY <1>2 DEF Overheated
      <4> QED  BY <3>1, <4>1 DEF Next, TakeFirst, JobsTaken, AssignOneVM, ServerPowerON, PoliceIdle,
                                 EndAssign, Migrate, EndPolicies, PoolEveryASecond, Heat, Logs
    <3>2. CASE pc # "servers"
      <4>1. UNCHANGED pc \/ pc' # "pool"
        BY <3>2, ZenonT(60)
           DEF Next, TakeFirst, JobsTaken, AssignOneVM, ServerPowerON, PoliceIdle,
               EndAssign, Migrate, EndPolicies, PoolEveryASecond, Heat, Logs, RunServers, Overheated
      <4>2. pc = "pool"
        BY <1>2, <4>1
      <4> QED  BY <1>2, <4>2, SMTT(60)
                 DEF Next, TakeFirst, JobsTaken, AssignOneVM, ServerPowerON, PoliceIdle,
                     EndAssign, Migrate, EndPolicies, PoolEveryASecond, Heat, Logs, RunServers,
                     Overheated
    <3> QED  BY <3>1, <3>2
  <2>2. RecalculateAt(All, inlet) /\ inlet' = inlet
    BY <2>1 DEF RunServers, Recalculate, atmosphere
  <2>3. /\ mode' \in [All -> Modes] /\ perf' \in [All -> 0..100]
        /\ vRunningVMs' \in [All -> Seq(Loads)]
    BY DEF TypeOK
  <2>4. ASSUME NEW s \in All, mode'[s] # "off"
        PROVE  draw'[s] = PowerDraw(CurrentUtilization(mode'[s], perf'[s], vRunningVMs'[s]), inlet[s[1]])
    <3>1. All \in SUBSET All /\ \A i \in Chassis : inlet[i] \in Int
      BY Temperatures
    <3>2. \A p \in All :
            IF p \in All /\ mode'[p] # "off"
            THEN LET util == CurrentUtilization(mode'[p], perf'[p], vRunningVMs'[p])
                 IN  /\ draw'[p] = PowerDraw(util, inlet[p[1]])
                     /\ fan'[p] = FanPower(util, inlet[p[1]])
            ELSE draw'[p] = draw[p] /\ fan'[p] = fan[p]
      BY <2>2, <2>3, <3>1, Recalculated, ZenonT(60)
    <3> QED  BY <2>4, <3>2
  <2> QED  BY <2>2, <2>4 DEF Fresh, DrawAs
<1> QED  BY <1>1, <1>2

LEMMA NextHeatIsOfTheVMs ==
  ASSUME AccountingInv, Next, TypeOK'
  PROVE  HeatIsOfTheVMs'
<1> USE DEF AccountingInv
<1>1. CASE pc' # "heat"
  BY <1>1 DEF HeatIsOfTheVMs
<1>2. CASE pc' = "heat"
  <2>1. PICK rest, booted, pooled, off : PoolEveryASecond(rest, booted, pooled, off)
    <3>1. pc # "heat"
      BY <1>2 DEF Next, TakeFirst, JobsTaken, AssignOneVM, ServerPowerON, PoliceIdle, EndAssign,
                  Migrate, EndPolicies, PoolEveryASecond, Heat, Logs, RunServers, Overheated
    <3> QED  BY <1>2, <3>1 DEF Next, TakeFirst, JobsTaken, AssignOneVM, ServerPowerON, PoliceIdle,
                  EndAssign, Migrate, EndPolicies, Heat, Logs, RunServers, Overheated
  <2>2. /\ pc = "pool"
        /\ DOMAIN rest = InMode("migrating") /\ booted \subseteq InMode("initializing")
        /\ pooled \cup off \subseteq InMode("active")
        /\ mode' = [s \in All |->
             IF s \in off \/ (s \in DOMAIN rest /\ vRunningVMs'[s] = <<>>) THEN "off"
             ELSE IF s \in booted \cup pooled THEN "pool" ELSE mode[s]]
        /\ vRunningVMs' = [s \in All |-> IF s \in DOMAIN rest THEN rest[s] ELSE vRunningVMs[s]]
        /\ UNCHANGED <<perf, inlet, air>>
        /\ RecalculateAt(DOMAIN rest, air)
    BY <2>1 DEF PoolEveryASecond, InMode, atmosphere
  <2>8. \A s \in All :
          IF s \in DOMAIN rest /\ mode'[s] # "off"
          THEN draw'[s] = PowerDraw(CurrentUtilization(mode'[s], perf'[s], vRunningVMs'[s]), air[s[1]])
          ELSE draw'[s] = draw[s]
    <3>1. DOMAIN rest \in SUBSET All
      BY <2>2 DEF InMode
    <3>2. /\ mode' \in [All -> Modes] /\ perf' \in [All -> 0..100]
          /\ vRunningVMs' \in [All -> Seq(Loads)]
      BY DEF TypeOK
    <3> QED  BY <2>2, <3>1, <3>2, Recalculated, Temperatures
  <2> SUFFICES ASSUME NEW s \in All
               PROVE  LET sensed == IF mode'[s] = "migrating" THEN air'[s[1]] ELSE inlet'[s[1]]
                          At(m) == PowerDraw(CurrentUtilization(m, perf'[s], vRunningVMs'[s]), sensed)
                      IN  \/ GetPowerDraw(s)' = IF mode'[s] = "off" THEN 0 ELSE At(mode'[s])
                          \/ mode'[s] = "pool" /\ GetPowerDraw(s)' = At("initializing")
    BY DEF HeatIsOfTheVMs
  <2>3. mode[s] # "off" => draw[s] = DrawAs(mode[s], s)
    BY <2>2 DEF Fresh
  <2>4. CASE mode'[s] = "off"
    BY <2>4 DEF GetPowerDraw
  <2>5. CASE mode'[s] # "off" /\ s \in booted
    <3>1. mode[s] = "initializing" /\ mode'[s] = "pool" /\ vRunningVMs'[s] = vRunningVMs[s]
      BY <2>2, <2>5 DEF InMode
    <3>2. GetPowerDraw(s)' = draw[s] /\ draw[s] = DrawAs("initializing", s)
      BY <2>2, <2>3, <2>8, <3>1 DEF GetPowerDraw, InMode
    <3> QED  BY <2>2, <3>1, <3>2 DEF DrawAs
  <2>6. CASE mode'[s] # "off" /\ s \notin booted /\ s \in pooled
    <3>1. mode[s] = "active" /\ mode'[s] = "pool" /\ vRunningVMs'[s] = vRunningVMs[s]
      BY <2>2, <2>6 DEF InMode
    <3>2. GetPowerDraw(s)' = draw[s] /\ draw[s] = DrawAs("active", s)
      BY <2>2, <2>3, <2>8, <3>1 DEF GetPowerDraw, InMode
    <3>3. CurrentUtilization("pool", perf[s], vRunningVMs[s])
            = CurrentUtilization("active", perf[s], vRunningVMs[s])
      BY DEF CurrentUtilization, VMRequires, MaxUtilization
    <3> QED  BY <2>2, <3>1, <3>2, <3>3 DEF DrawAs
  <2>7. CASE mode'[s] # "off" /\ s \notin booted /\ s \notin pooled /\ mode[s] # "migrating"
    <3>1. mode'[s] = mode[s] /\ vRunningVMs'[s] = vRunningVMs[s] /\ s \notin DOMAIN rest
      BY <2>2, <2>7 DEF InMode
    <3> QED  BY <2>2, <2>3, <2>7, <2>8, <3>1 DEF GetPowerDraw, DrawAs
  <2>9. CASE mode'[s] # "off" /\ s \notin booted /\ s \notin pooled /\ mode[s] = "migrating"
    <3>1. mode'[s] = "migrating" /\ s \in DOMAIN rest
      BY <2>2, <2>9 DEF InMode
    <3> QED  BY <2>2, <2>8, <3>1 DEF GetPowerDraw
  <2> QED  BY <2>4, <2>5, <2>6, <2>7, <2>9
<1> QED  BY <1>1, <1>2

-----------------------------------------------------------------------------
(* The VMs.                                                                 *)

LEMMA NextVMsCounted ==
  ASSUME AccountingInv, Next
  PROVE  VMsCounted'
<1> USE DEF AccountingInv
<1>1. /\ waiting \in Seq(Loads) /\ Len(waiting) \in Nat /\ totalVMs \in Nat
      /\ totalScheduling \in Nat /\ reassigned \in Nat /\ Uninitialized \in Nat
  BY AccountingAssumption DEF TypeOK
<1>2. Uninitialized + totalVMs + reassigned = totalScheduling + Len(waiting)
  BY DEF VMsCounted
<1>3. ASSUME NEW load \in Loads, TakeFirst(load) PROVE VMsCounted'
  <2>1. /\ totalVMs' = totalVMs + 1 /\ UNCHANGED <<totalScheduling, reassigned>>
        /\ waiting' = Append(waiting, load)
    BY <1>3 DEF TakeFirst
  <2>2. Len(waiting') = Len(waiting) + 1
    BY <1>1, <2>1
  <2> QED  BY <1>1, <1>2, <2>1, <2>2 DEF VMsCounted
<1>4. CASE JobsTaken
  <2>1. CASE REASSIGN_VMS /\ clock % ReassignPeriod = 0
    <3> DEFINE busy == {s \in All : mode[s] # "off" /\ vRunningVMs[s] # <<>>}
    <3>1. PICK taken : /\ taken = Joined([s \in busy |-> TakeAVMs(s)])
                       /\ waiting' = waiting \o taken /\ reassigned' = reassigned + Len(taken)
                       /\ UNCHANGED <<totalVMs, totalScheduling>>
      BY <1>4, <2>1 DEF JobsTaken, ReassignVMs
    <3>2. taken \in Seq(Loads)
      BY <3>1, TakenIsSeq
    <3>3. Len(waiting') = Len(waiting) + Len(taken) /\ Len(taken) \in Nat
      BY <1>1, <3>1, <3>2
    <3>4. totalVMs' = totalVMs /\ totalScheduling' = totalScheduling
          /\ reassigned' = reassigned + Len(taken)
      BY <3>1
    <3>5. PICK c \in Nat : c = Len(taken)
      BY <3>3
    <3>6. Uninitialized + totalVMs' + reassigned' = totalScheduling' + Len(waiting')
      BY ONLY <1>1, <1>2, <3>3, <3>4, <3>5
    <3> QED  BY <3>6, Zenon DEF VMsCounted
  <2>2. CASE ~ (REASSIGN_VMS /\ clock % ReassignPeriod = 0)
    <3>1. UNCHANGED queue
      BY <1>4, <2>2 DEF JobsTaken
    <3> QED  BY <1>2, <3>1 DEF VMsCounted, queue
  <2> QED  BY <2>1, <2>2
<1>5. ASSUME NEW s \in All, AssignOneVM(s) PROVE VMsCounted'
  <2>1. /\ waiting # <<>> /\ waiting' = Tail(waiting) /\ totalScheduling' = totalScheduling + 1
        /\ UNCHANGED <<totalVMs, reassigned>>
    BY <1>5 DEF AssignOneVM
  <2>2. Len(waiting') = Len(waiting) - 1
    BY <1>1, <2>1
  <2> QED  BY <1>1, <1>2, <2>1, <2>2 DEF VMsCounted
<1>6. CASE UNCHANGED queue
  BY <1>2, <1>6 DEF VMsCounted, queue
<1>7. ASSUME NEW s \in All, ServerPowerON(s) \/ PoliceIdle(s) PROVE UNCHANGED queue
  BY <1>7 DEF ServerPowerON, PoliceIdle
<1>8. ASSUME NEW s \in All, NEW t \in All, NEW copies, Migrate(s, t, copies) PROVE UNCHANGED queue
  BY <1>8 DEF Migrate
<1>9. ASSUME NEW ended \in SUBSET All, RunServers(ended) PROVE UNCHANGED queue
  BY <1>9 DEF RunServers
<1>10. ASSUME NEW rest, NEW booted, NEW pooled, NEW off, PoolEveryASecond(rest, booted, pooled, off)
       PROVE  UNCHANGED queue
  BY <1>10, SMTT(60) DEF PoolEveryASecond
<1>11. EndAssign \/ EndPolicies \/ Overheated \/ Heat \/ Logs => UNCHANGED queue
  BY DEF EndAssign, EndPolicies, Overheated, Heat, Logs
<1> QED  BY <1>3, <1>4, <1>5, <1>6, <1>7, <1>8, <1>9, <1>10, <1>11 DEF Next

-----------------------------------------------------------------------------
(* The theorems.                                                            *)

LEMMA InitAccountingInv == Init => AccountingInv
<1> SUFFICES ASSUME Init PROVE AccountingInv
  OBVIOUS
<1>1. LOWEST_SUPPLY_TEMPERATURE \in Supplies /\ LOWEST_SUPPLY_TEMPERATURE \in Nat
  BY AccountingAssumption
<1>2. TypeOK
  BY <1>1, AccountingAssumption DEF Init, NewServers, TypeOK, Modes
<1>3. BooksOK
  <2>1. IsArray(<<>>)
    <3>1. DOMAIN <<>> = {}
      OBVIOUS
    <3>2. <<>> \in [{} -> Nat]
      OBVIOUS
    <3> QED  BY <3>1, <3>2, FS_EmptySet DEF IsArray
  <2>2. switches \in [log: [SwitchLevels -> Nat], sparse: Seq([SwitchLevels -> Nat]),
                      total: [SwitchLevels -> Nat]]
    BY DEF Init, NewTopology
  <2> QED  BY <2>1, <2>2, NothingIsEntry DEF Init, BooksOK
<1>4. InTime /\ Fresh /\ HeatIsOfTheVMs
  BY AccountingAssumption DEF Init, NewServers, InTime, Ahead, Fresh, HeatIsOfTheVMs
<1>5. VMsCounted
  BY AccountingAssumption DEF Init, VMsCounted
<1>6. EnergyBooked
  <2>1. \A field \in {"machines", "computing", "utilization"} : Logged(field) = 0
    <3> SUFFICES ASSUME NEW field \in {"machines", "computing", "utilization"} PROVE Logged(field) = 0
      OBVIOUS
    <3>1. Column(sparse, field) = <<>>
      BY DEF Init, Column
    <3> QED  BY <3>1, LoggedIsColumn, SumOfEmpty DEF Total
  <2>2. log.machines = 0 /\ log.computing = 0 /\ log.utilization = 0
    BY DEF Init, Nothing
  <2>3. Total([i \in Chassis |-> perChassis[i].power]) = 0
    <3> DEFINE f == [i \in Chassis |-> perChassis[i].power]
    <3>1. \A i \in Chassis : f[i] = 0
      BY DEF Init
    <3>2. DOMAIN f = Chassis
      OBVIOUS
    <3> HIDE DEF f
    <3>3. Total(f) = 0
      BY <3>1, <3>2, AccountingAssumption, TotalIsSum, ZeroSum
    <3> QED  BY <3>3 DEF f
  <2>4. Total([i \in Chassis |-> perChassis[i].computing]) = 0
    <3> DEFINE f == [i \in Chassis |-> perChassis[i].computing]
    <3>1. \A i \in Chassis : f[i] = 0
      BY DEF Init
    <3>2. DOMAIN f = Chassis
      OBVIOUS
    <3> HIDE DEF f
    <3>3. Total(f) = 0
      BY <3>1, <3>2, AccountingAssumption, TotalIsSum, ZeroSum
    <3> QED  BY <3>3 DEF f
  <2>5. perDataCenterUtilization = 0
    BY DEF Init
  <2> QED  BY <2>1, <2>2, <2>3, <2>4, <2>5 DEF EnergyBooked
<1>7. LoadsCounted
  <2>1. DOMAIN distribution.utilization = {}
    BY DEF Init
  <2>2. Weighed(Numbers, distribution.utilization) = 0
    BY <2>1, SumOfNone DEF Weighed
  <2> QED  BY <2>2 DEF Init, LoadsCounted
<1> QED  BY <1>2, <1>3, <1>4, <1>5, <1>6, <1>7 DEF AccountingInv

LEMMA NextAccountingInv == AccountingInv /\ [Next]_vars => AccountingInv'
<1> SUFFICES ASSUME AccountingInv, [Next]_vars PROVE AccountingInv'
  OBVIOUS
<1>1. CASE Next
  <2>1. TypeOK' /\ InTime'
    BY <1>1, NextTyped
  <2>2. Fresh' /\ HeatIsOfTheVMs' /\ VMsCounted'
    BY <1>1, <2>1, NextFresh, NextHeatIsOfTheVMs, NextVMsCounted
  <2>3. TypeOK /\ Books
    BY DEF AccountingInv, Books
  <2>4. Books'
    <3>1. CASE pc \notin {"heat", "logs"}
      BY <1>1, <2>3, <3>1, NextLeavesBooks, BooksLeft DEF Books
    <3>2. CASE pc = "heat"
      <4>1. Heat
        BY <1>1, <3>2 DEF Next, TakeFirst, JobsTaken, AssignOneVM, ServerPowerON, PoliceIdle,
                          EndAssign, Migrate, EndPolicies, Logs, RunServers, Overheated
      <4> QED  BY <2>1, <2>3, <4>1, BooksByHeat
    <3>3. CASE pc = "logs"
      <4>1. Logs
        BY <1>1, <3>3 DEF Next, TakeFirst, JobsTaken, AssignOneVM, ServerPowerON, PoliceIdle,
                          EndAssign, Migrate, EndPolicies, Heat, RunServers, Overheated
      <4> QED  BY <2>3, <4>1, BooksByLogs
    <3> QED  BY <3>1, <3>2, <3>3
  <2> QED  BY <2>1, <2>2, <2>4 DEF AccountingInv, Books
<1>2. CASE UNCHANGED vars
  BY <1>2 DEF vars, server, queue, atmosphere, books, accounts, AccountingInv, TypeOK, BooksOK, InTime, Ahead,
              Fresh, DrawAs, HeatIsOfTheVMs, GetPowerDraw, VMsCounted, EnergyBooked, Logged,
              LoadsCounted, Utilization
<1> QED  BY <1>1, <1>2

THEOREM AccountsAreKept == Spec => []AccountingInv
BY InitAccountingInv, NextAccountingInv, PTL DEF Spec

(* The heat that is spread in a second is that of the VMs that run then     *)
(* (DataCenter.cpp:328, Server.cpp:479), for every choice of the schedulers,*)
(* policies and pool, with the fans of a server that migrates already at    *)
(* the air of the next second (PoolServers.cpp:222, Server.cpp:347).        *)
THEOREM HeatFollowsTheVMs == Spec => []HeatIsOfTheVMs
<1>1. AccountingInv => HeatIsOfTheVMs
  BY DEF AccountingInv
<1> QED  BY <1>1, AccountsAreKept, PTL

(* No second, load or VM is lost or counted twice between the accumulators, *)
(* the logs, the books of the chassis and the totals (DataCenter.cpp:361).  *)
THEOREM BothAccountsAgree == Spec => []TwoAccountsAgree
<1>1. AccountingInv => TwoAccountsAgree
  <2> SUFFICES ASSUME AccountingInv PROVE TwoAccountsAgree
    OBVIOUS
  <2>1. /\ TypeOK /\ BooksOK /\ VMsCounted /\ EnergyBooked /\ LoadsCounted
    BY DEF AccountingInv
  <2> DEFINE counters == distribution.utilization
  <2>2. Weighed(Numbers, counters) = Total([load \in DOMAIN counters |-> load * counters[load]])
    <3>1. \A load \in DOMAIN counters : Numbers[load] = load
      BY <2>1 DEF BooksOK, IsArray, Numbers
    <3>2. [load \in DOMAIN counters |-> Numbers[load] * counters[load]]
            = [load \in DOMAIN counters |-> load * counters[load]]
      BY <3>1
    <3> QED  BY <3>2, TotalIsSum DEF Weighed
  <2>3. pc # "logs" =>
          Total([load \in DOMAIN counters |-> load * counters[load]]) = perDataCenterUtilization
    BY <2>1, <2>2 DEF LoadsCounted, BooksOK
  <2> QED  BY <2>1, <2>3 DEF TwoAccountsAgree, VMsCounted, EnergyBooked
<1> QED  BY <1>1, AccountsAreKept, PTL

-----------------------------------------------------------------------------
(* The report.                                                               *)

(* Seconds that the logs of the switches, and of the servers, have.         *)
SwitchTime == IF pc = "heat" THEN clock - 1 ELSE clock

LogTime == IF pc \in {"heat", "logs"} THEN clock - 1 ELSE clock

Started == IF sparse = <<>> THEN 0 ELSE 1

Constant == {"aggregation", "core"}

SecondsLogged ==
  pc # "undefined" =>
    /\ pc \in {"heat", "logs"} => clock > 0
    /\ Len(sparse) = LogTime \div PERIODIC_LOG_INTERVAL
    /\ log.seconds = (LogTime % PERIODIC_LOG_INTERVAL) + Started
    /\ \A n \in 1..Len(sparse) :
         sparse[n].seconds = PERIODIC_LOG_INTERVAL - IF n = 1 THEN 1 ELSE 0

SwitchesLogged ==
  pc # "undefined" =>
    /\ Len(switches.sparse) = SwitchTime \div PERIODIC_LOG_INTERVAL
    /\ \A t \in Constant :
         /\ switches.log[t] = (SwitchTime % PERIODIC_LOG_INTERVAL) * ReturnsEnergyConsumption(t)
         /\ \A n \in 1..Len(switches.sparse) :
              switches.sparse[n][t] = PERIODIC_LOG_INTERVAL * ReturnsEnergyConsumption(t)

TotalsKept ==
  /\ \A t \in SwitchLevels : switches.total[t] = SwitchLog(t)
  /\ migrations.total = Total(migrations.sparse)
  /\ Len(migrations.sparse) = Len(sparse)

(* What holds of an entry of the log.                                       *)
Sound(entry, peak) ==
  /\ entry.machines + entry.crac <= entry.seconds * peak
  /\ entry.fans <= entry.machines
  /\ entry.machines - entry.fans <= 2000 * Cardinality(All) * entry.seconds
  /\ Min(Supplies) * entry.seconds <= entry.supply
  /\ entry.supply <= Max(Supplies) * entry.seconds

EntriesSound ==
  Sound(log, peakPower) /\ \A n \in 1..Len(sparse) : Sound(sparse[n], peakPower)

(* What is not of the fans is between nothing and twice the idle draw.      *)
DrawsSound == \A s \in All : fan[s] <= draw[s] /\ draw[s] - fan[s] <= 2000

(* This second will be one above the emergency temperature.                 *)
HotAhead(i) ==
  IF pc \in {"jobs", "assign", "policies", "servers", "print"} /\ inlet[i] > EMERGENCY_TEMPERATURE
  THEN 1 ELSE 0

Slow(s) == IF perf[s] = 100 THEN 0 ELSE 1

(* The most that seconds below zero may have taken from a sum.              *)
Coldest == Min({0} \cup Inlets)
Chilled == Coldest * LogTime

HotSeconds ==
  \A s \in All :
    /\ (EMERGENCY_TEMPERATURE + 1) * (overEmergency[s] + HotAhead(s[1])) + Chilled
         <= perChassis[s[1]].temperature
    /\ dvfs[s] + Slow(s) <= 2 * overEmergency[s]

Ones == [n \in Nat |-> 1]

ServersCounted ==
  Weighed(Ones, distribution.utilization) = Weighed(Ones, distribution.temperature)

ReportInv ==
  /\ AccountingInv /\ SecondsLogged /\ SwitchesLogged /\ TotalsKept /\ EntriesSound
  /\ DrawsSound /\ HotSeconds /\ ServersCounted

-----------------------------------------------------------------------------
(* The clock and its quotient.                                              *)

LEMMA NextSecond ==
  ASSUME NEW n \in Nat, NEW d \in Nat \ {0}
  PROVE  /\ n \div d \in Nat /\ n % d \in 0..(d - 1)
         /\ IF (n + 1) % d = 0
            THEN n % d = d - 1 /\ (n + 1) \div d = (n \div d) + 1
            ELSE (n + 1) % d = (n % d) + 1 /\ (n + 1) \div d = n \div d
<1>1. PICK q \in Nat, r \in 0..(d - 1) : n = d * q + r /\ q = n \div d /\ r = n % d
  BY QuotientRounds
<1>2. PICK q2 \in Nat, r2 \in 0..(d - 1) : n + 1 = d * q2 + r2 /\ q2 = (n + 1) \div d /\ r2 = (n + 1) % d
  BY QuotientRounds
<1>3. d * q2 + r2 = d * q + r + 1
  BY <1>1, <1>2
<1>4. q <= q2
  <2> SUFFICES ASSUME q2 < q PROVE FALSE
    OBVIOUS
  <2>1. d * q2 + d <= d * q
    BY TimesMonotone
  <2>2. d * q2 \in Nat /\ d * q \in Nat
    OBVIOUS
  <2> QED  BY <1>3, <2>1, <2>2
<1>5. q2 <= q + 1
  <2> SUFFICES ASSUME q + 1 < q2 PROVE FALSE
    OBVIOUS
  <2>1. d * (q + 1) + d <= d * q2
    BY TimesMonotone
  <2>2. d * q2 \in Nat /\ d * q \in Nat /\ d * (q + 1) = d * q + d
    OBVIOUS
  <2> QED  BY <1>3, <2>1, <2>2
<1>6. ASSUME q2 = q PROVE r2 = r + 1 /\ q2 = q /\ r2 # 0
  <2>1. r2 = r + 1
    <3>1. PICK p \in Nat : p = d * q
      OBVIOUS
    <3> QED  BY <1>3, <1>6, <3>1
  <2> QED  BY <1>6, <2>1
<1>7. ASSUME q2 = q + 1 PROVE r2 = 0 /\ r = d - 1 /\ q2 = q + 1
  <2>1. r2 = 0 /\ r = d - 1
    <3>1. PICK p \in Nat : p = d * q
      OBVIOUS
    <3>2. d * q2 = p + d
      BY <1>7, <3>1
    <3> QED  BY <1>3, <3>1, <3>2
  <2> QED  BY <1>7, <2>1
<1>8. q2 = q \/ q2 = q + 1
  BY <1>4, <1>5
<1>9. IF r2 = 0 THEN r = d - 1 /\ q2 = q + 1 ELSE r2 = r + 1 /\ q2 = q
  BY <1>6, <1>7, <1>8
<1>10. q \in Nat /\ r \in 0..(d - 1)
  OBVIOUS
<1> QED  BY <1>1, <1>2, <1>9, <1>10, Zenon

SameTimes ==
  /\ pc # "undefined" /\ LogTime' = LogTime /\ SwitchTime' = SwitchTime
  /\ pc' \in {"heat", "logs"} => clock' > 0

LEMMA NextTimes ==
  ASSUME AccountingInv, Next, pc \notin {"heat", "logs"}, pc' # "undefined"
  PROVE  SameTimes
<1>1. clock \in Nat
  BY AccountingAssumption DEF AccountingInv, TypeOK
<1>2. ASSUME clock' = clock, pc # "undefined", pc' \notin {"heat", "logs"} PROVE SameTimes
  BY <1>2 DEF SameTimes, LogTime, SwitchTime
<1>3. ASSUME NEW load \in Loads, TakeFirst(load) PROVE SameTimes
  BY <1>2, <1>3 DEF TakeFirst
<1>4. CASE JobsTaken
  BY <1>2, <1>4 DEF JobsTaken
<1>5. ASSUME NEW s \in All, AssignOneVM(s) \/ ServerPowerON(s) \/ PoliceIdle(s) PROVE SameTimes
  BY <1>2, <1>5 DEF AssignOneVM, ServerPowerON, PoliceIdle
<1>6. CASE EndAssign \/ EndPolicies
  BY <1>2, <1>6 DEF EndAssign, EndPolicies
<1>7. ASSUME NEW s \in All, NEW t \in All, NEW copies, Migrate(s, t, copies) PROVE SameTimes
  BY <1>2, <1>7 DEF Migrate
<1>8. ASSUME NEW ended \in SUBSET All, RunServers(ended) PROVE SameTimes
  BY <1>2, <1>8 DEF RunServers
<1>9. ~ Overheated /\ ~ Heat /\ ~ Logs
  BY DEF Overheated, Heat, Logs
<1>10. ASSUME NEW rest, NEW booted, NEW pooled, NEW off, PoolEveryASecond(rest, booted, pooled, off)
       PROVE  SameTimes
  BY <1>1, <1>10 DEF PoolEveryASecond, SameTimes, LogTime, SwitchTime
<1> QED  BY <1>3, <1>4, <1>5, <1>6, <1>7, <1>8, <1>9, <1>10 DEF Next

LEMMA OnlyHeat == Next /\ pc = "heat" => Heat
BY DEF Next, TakeFirst, JobsTaken, AssignOneVM, ServerPowerON, PoliceIdle, EndAssign, Migrate,
       EndPolicies, Logs, RunServers, Overheated

LEMMA OnlyLogs == Next /\ pc = "logs" => Logs
BY DEF Next, TakeFirst, JobsTaken, AssignOneVM, ServerPowerON, PoliceIdle, EndAssign, Migrate,
       EndPolicies, Heat, RunServers, Overheated

LEMMA HeatTimes ==
  ASSUME AccountingInv, Heat, clock > 0, pc' # "undefined"
  PROVE  /\ pc = "heat" /\ pc' = "logs" /\ clock' = clock /\ clock \in Nat
         /\ LogTime' = LogTime /\ SwitchTime \in Nat /\ clock = SwitchTime + 1 /\ SwitchTime' = clock
<1>1. clock \in Nat
  BY AccountingAssumption DEF AccountingInv, TypeOK
<1>2. pc = "heat" /\ pc' = "logs" /\ clock' = clock
  BY DEF Heat
<1> QED  BY <1>1, <1>2 DEF LogTime, SwitchTime

LEMMA LogsTimes ==
  ASSUME AccountingInv, Logs, clock > 0
  PROVE  /\ pc = "logs" /\ pc' \in {"print", "jobs"} /\ clock' = clock /\ clock \in Nat
         /\ SwitchTime' = SwitchTime /\ LogTime \in Nat /\ clock = LogTime + 1 /\ LogTime' = clock
<1>1. clock \in Nat
  BY AccountingAssumption DEF AccountingInv, TypeOK
<1>2. pc = "logs" /\ pc' \in {"print", "jobs"} /\ clock' = clock
  BY DEF Logs
<1> QED  BY <1>1, <1>2 DEF LogTime, SwitchTime

-----------------------------------------------------------------------------
(* The intervals.                                                           *)

LEMMA SecondsByLogs ==
  ASSUME AccountingInv, SecondsLogged, Logs
  PROVE  SecondsLogged'
<1> USE DEF AccountingInv
<1>1. /\ clock > 0 /\ pc = "logs"
      /\ Len(sparse) = LogTime \div PERIODIC_LOG_INTERVAL
      /\ log.seconds = (LogTime % PERIODIC_LOG_INTERVAL) + Started
      /\ \A n \in 1..Len(sparse) :
           sparse[n].seconds = PERIODIC_LOG_INTERVAL - IF n = 1 THEN 1 ELSE 0
  BY DEF SecondsLogged, Logs
<1>2. /\ pc' \in {"print", "jobs"} /\ LogTime \in Nat /\ clock = LogTime + 1 /\ LogTime' = clock
  BY <1>1, LogsTimes
<1>3. PICK P \in Nat \ {0} : P = PERIODIC_LOG_INTERVAL
  BY AccountingAssumption
<1>4. PICK n0 \in Nat : n0 = LogTime
  BY <1>2
<1>5. /\ n0 \div P \in Nat /\ n0 % P \in 0..(P - 1)
      /\ IF (n0 + 1) % P = 0
         THEN n0 % P = P - 1 /\ (n0 + 1) \div P = (n0 \div P) + 1
         ELSE (n0 + 1) % P = (n0 % P) + 1 /\ (n0 + 1) \div P = n0 \div P
  BY NextSecond
<1>6. /\ LogTime' = n0 + 1 /\ clock = n0 + 1
  BY <1>2, <1>4
<1>7. log \in LogEntry /\ sparse \in Seq(LogEntry) /\ Sample \in LogEntry /\ Nothing \in LogEntry
  BY SampleIsEntry, NothingIsEntry DEF BooksOK
<1>8. Sample.seconds = 1 /\ Nothing.seconds = 0 /\ log.seconds \in Nat /\ Len(sparse) \in Nat
  BY <1>7 DEF Sample, Nothing, LogEntry
<1>9. /\ Add(Nothing, Sample).seconds = 1 /\ Add(log, Sample).seconds = log.seconds + 1
  <2>1. \A field \in DOMAIN Nothing : Add(Nothing, Sample)[field] = Nothing[field] + Sample[field]
    BY <1>7, AddedEntries
  <2>2. \A field \in DOMAIN log : Add(log, Sample)[field] = log[field] + Sample[field]
    BY <1>7, AddedEntries
  <2>3. "seconds" \in DOMAIN Nothing /\ "seconds" \in DOMAIN log
    BY <1>7, AddedEntries, ZenonT(60)
  <2> QED  BY <1>8, <2>1, <2>2, <2>3
<1>10. Started = IF Len(sparse) = 0 THEN 0 ELSE 1
  BY <1>7 DEF Started
<1> SUFFICES /\ Len(sparse') = (n0 + 1) \div P
             /\ log'.seconds = ((n0 + 1) % P) + Started'
             /\ \A n \in 1..Len(sparse') : sparse'[n].seconds = P - IF n = 1 THEN 1 ELSE 0
  BY <1>2, <1>3, <1>6 DEF SecondsLogged
<1>11. CASE (n0 + 1) % P = 0
  <2>1. sparse' = Append(sparse, log) /\ log' = Add(Nothing, Sample)
    BY <1>3, <1>6, <1>11, LogsOfSecond
  <2>2. Len(sparse') = Len(sparse) + 1 /\ Started' = 1
    BY <1>7, <2>1 DEF Started
  <2>3. Len(sparse') = (n0 + 1) \div P
    BY <1>1, <1>3, <1>4, <1>5, <1>11, <2>2
  <2>4. log'.seconds = ((n0 + 1) % P) + Started'
    BY <1>9, <1>11, <2>1, <2>2
  <2>5. ASSUME NEW n \in 1..Len(sparse')
        PROVE  sparse'[n].seconds = P - IF n = 1 THEN 1 ELSE 0
    <3>1. CASE n \in 1..Len(sparse)
      <4>1. sparse'[n] = sparse[n]
        BY <1>7, <2>1, <3>1
      <4> QED  BY <1>1, <1>3, <3>1, <4>1
    <3>2. CASE n = Len(sparse) + 1
      <4>1. sparse'[n] = log
        BY <1>7, <2>1, <3>2
      <4>2. log.seconds = (P - 1) + Started
        BY <1>1, <1>3, <1>4, <1>5, <1>11
      <4> QED  BY <1>8, <1>10, <3>2, <4>1, <4>2
    <3> QED  BY <1>8, <2>2, <3>1, <3>2
  <2> QED  BY <2>3, <2>4, <2>5
<1>12. CASE (n0 + 1) % P # 0
  <2>1. sparse' = sparse /\ log' = Add(log, Sample)
    BY <1>3, <1>6, <1>12, LogsOfSecond
  <2>2. Started' = Started /\ Started \in Nat
    BY <2>1 DEF Started
  <2>3. log.seconds = (n0 % P) + Started
    BY <1>1, <1>3, <1>4
  <2>4. log'.seconds = ((n0 % P) + Started) + 1
    BY <1>9, <2>1, <2>3
  <2>5. log'.seconds = ((n0 + 1) % P) + Started'
    BY <1>5, <1>12, <2>2, <2>4
  <2>6. Len(sparse') = (n0 + 1) \div P
    BY <1>1, <1>3, <1>4, <1>5, <1>12, <2>1
  <2> QED  BY <1>1, <1>3, <2>1, <2>5, <2>6
<1> QED  BY <1>11, <1>12

LEMMA ConstantEnergy ==
  ASSUME NEW t \in Constant
  PROVE  /\ ReturnsEnergyConsumption(t) \in Nat /\ t \in SwitchLevels
         /\ ReturnsEnergyConsumption(t)' = ReturnsEnergyConsumption(t)
BY DEF Constant, SwitchLevels, ReturnsEnergyConsumption, AggregationEnergy, CoreEnergy, Energy,
       EAGGR, ECORE

SwitchTypes == [log: [SwitchLevels -> Nat], sparse: Seq([SwitchLevels -> Nat]),
                total: [SwitchLevels -> Nat]]

(* What a second changes in the books of the switches. *)
LEMMA SwitchesOfSecond ==
  ASSUME switches \in SwitchTypes, SwitchesEveryASecond
  PROVE  \E sum \in [SwitchLevels -> Nat] :
           /\ \A t \in SwitchLevels : sum[t] = switches.log[t] + ReturnsEnergyConsumption(t)
           /\ \/ /\ clock % PERIODIC_LOG_INTERVAL = 0
                 /\ \A t \in SwitchLevels : switches'.log[t] = 0
                 /\ switches'.sparse = Append(switches.sparse, sum)
                 /\ \A t \in SwitchLevels : switches'.total[t] = switches.total[t] + sum[t]
              \/ /\ clock % PERIODIC_LOG_INTERVAL # 0
                 /\ switches'.log = sum
                 /\ switches'.sparse = switches.sparse /\ switches'.total = switches.total
<1> DEFINE sum == [t \in SwitchLevels |-> switches.log[t] + ReturnsEnergyConsumption(t)]
<1>1. switches.log \in [SwitchLevels -> Nat]
  BY DEF SwitchTypes
<1>2. sum \in [SwitchLevels -> Nat] /\ \A t \in SwitchLevels : sum[t] = switches.log[t] + ReturnsEnergyConsumption(t)
  BY <1>1, EnergiesAreNat
<1>3. switches' = IF clock % PERIODIC_LOG_INTERVAL = 0
        THEN [log |-> [t \in SwitchLevels |-> 0],
              sparse |-> Append(switches.sparse, sum),
              total |-> [t \in SwitchLevels |-> switches.total[t] + sum[t]]]
        ELSE [switches EXCEPT !.log = sum]
  BY DEF SwitchesEveryASecond
<1> HIDE DEF sum
<1>4. CASE clock % PERIODIC_LOG_INTERVAL = 0
  BY <1>2, <1>3, <1>4
<1>5. CASE clock % PERIODIC_LOG_INTERVAL # 0
  <2>1. switches' = [switches EXCEPT !.log = sum]
    BY <1>3, <1>5
  <2>2. switches'.log = sum /\ switches'.sparse = switches.sparse /\ switches'.total = switches.total
    BY <2>1 DEF SwitchTypes
  <2> QED  BY <1>2, <1>5, <2>2
<1> QED  BY <1>4, <1>5

LEMMA SwitchesByHeat ==
  ASSUME AccountingInv, SecondsLogged, SwitchesLogged, Heat
  PROVE  SwitchesLogged'
<1> USE DEF AccountingInv
<1> SUFFICES ASSUME pc' # "undefined" PROVE SwitchesLogged'
  BY DEF SwitchesLogged
<1>1. pc = "heat" /\ clock > 0 /\ SwitchesEveryASecond
  BY DEF SecondsLogged, Heat
<1>2. SwitchTime \in Nat /\ clock = SwitchTime + 1 /\ SwitchTime' = clock
  BY <1>1, HeatTimes
<1>3. PICK P \in Nat \ {0} : P = PERIODIC_LOG_INTERVAL
  BY AccountingAssumption
<1>4. PICK n0 \in Nat : n0 = SwitchTime
  BY <1>2
<1>5. /\ n0 \div P \in Nat /\ n0 % P \in 0..(P - 1)
      /\ IF (n0 + 1) % P = 0
         THEN n0 % P = P - 1 /\ (n0 + 1) \div P = (n0 \div P) + 1
         ELSE (n0 + 1) % P = (n0 % P) + 1 /\ (n0 + 1) \div P = n0 \div P
  BY NextSecond
<1>6. SwitchTime' = n0 + 1 /\ clock = n0 + 1
  BY <1>2, <1>4
<1>7. /\ Len(switches.sparse) = n0 \div P
      /\ \A t \in Constant :
           /\ switches.log[t] = (n0 % P) * ReturnsEnergyConsumption(t)
           /\ \A n \in 1..Len(switches.sparse) :
                switches.sparse[n][t] = P * ReturnsEnergyConsumption(t)
  BY <1>1, <1>3, <1>4 DEF SwitchesLogged
<1>8. switches \in SwitchTypes
  BY DEF BooksOK, SwitchTypes
<1>9. switches.sparse \in Seq([SwitchLevels -> Nat]) /\ Len(switches.sparse) \in Nat
  BY <1>8 DEF SwitchTypes
<1>10. PICK sum \in [SwitchLevels -> Nat] :
           /\ \A t \in SwitchLevels : sum[t] = switches.log[t] + ReturnsEnergyConsumption(t)
           /\ \/ /\ (n0 + 1) % P = 0
                 /\ \A t \in SwitchLevels : switches'.log[t] = 0
                 /\ switches'.sparse = Append(switches.sparse, sum)
              \/ /\ (n0 + 1) % P # 0
                 /\ switches'.log = sum
                 /\ switches'.sparse = switches.sparse
  BY <1>1, <1>3, <1>6, <1>8, SwitchesOfSecond
<1>11. \A t \in Constant : sum[t] = ((n0 % P) + 1) * ReturnsEnergyConsumption(t)
  <2> SUFFICES ASSUME NEW t \in Constant
               PROVE  sum[t] = ((n0 % P) + 1) * ReturnsEnergyConsumption(t)
    OBVIOUS
  <2>1. PICK e \in Nat : e = ReturnsEnergyConsumption(t)
    BY ConstantEnergy
  <2>2. PICK r \in Nat : r = n0 % P
    BY <1>5
  <2>3. sum[t] = r * e + e
    BY <1>7, <1>10, <2>1, <2>2, ConstantEnergy
  <2>4. (r + 1) * e = r * e + e
    OBVIOUS
  <2> QED  BY <2>1, <2>2, <2>3, <2>4
<1> SUFFICES /\ Len(switches'.sparse) = (n0 + 1) \div P
             /\ \A t \in Constant :
                  /\ switches'.log[t] = ((n0 + 1) % P) * ReturnsEnergyConsumption(t)
                  /\ \A n \in 1..Len(switches'.sparse) :
                       switches'.sparse[n][t] = P * ReturnsEnergyConsumption(t)
  BY <1>3, <1>6, ConstantEnergy DEF SwitchesLogged
<1>12. CASE (n0 + 1) % P = 0
  <2>1. switches'.sparse = Append(switches.sparse, sum) /\ \A t \in SwitchLevels : switches'.log[t] = 0
    BY <1>10, <1>12
  <2>2. Len(switches'.sparse) = Len(switches.sparse) + 1
    BY <1>9, <2>1
  <2>3. Len(switches'.sparse) = (n0 + 1) \div P
    BY <1>5, <1>7, <1>12, <2>2
  <2>4. ASSUME NEW t \in Constant
        PROVE  /\ switches'.log[t] = ((n0 + 1) % P) * ReturnsEnergyConsumption(t)
               /\ \A n \in 1..Len(switches'.sparse) :
                    switches'.sparse[n][t] = P * ReturnsEnergyConsumption(t)
    <3>1. ReturnsEnergyConsumption(t) \in Nat /\ t \in SwitchLevels
      BY ConstantEnergy
    <3>2. switches'.log[t] = ((n0 + 1) % P) * ReturnsEnergyConsumption(t)
      BY <1>12, <2>1, <3>1
    <3>3. sum[t] = P * ReturnsEnergyConsumption(t)
      <4>1. (n0 % P) + 1 = P
        BY <1>5, <1>12
      <4> QED  BY <1>11, <4>1
    <3>4. ASSUME NEW n \in 1..Len(switches'.sparse)
          PROVE  switches'.sparse[n][t] = P * ReturnsEnergyConsumption(t)
      <4>1. CASE n \in 1..Len(switches.sparse)
        <5>1. switches'.sparse[n] = switches.sparse[n]
          BY <1>9, <2>1, <4>1
        <5> QED  BY <1>7, <4>1, <5>1
      <4>2. CASE n = Len(switches.sparse) + 1
        <5>1. switches'.sparse[n] = sum
          BY <1>9, <2>1, <4>2
        <5> QED  BY <3>3, <5>1
      <4> QED  BY <1>9, <2>2, <4>1, <4>2
    <3> QED  BY <3>2, <3>4
  <2> QED  BY <2>3, <2>4
<1>13. CASE (n0 + 1) % P # 0
  <2>1. switches'.sparse = switches.sparse /\ switches'.log = sum
    BY <1>10, <1>13
  <2>2. Len(switches'.sparse) = (n0 + 1) \div P
    BY <1>5, <1>7, <1>13, <2>1
  <2>3. (n0 + 1) % P = (n0 % P) + 1
    BY <1>5, <1>13
  <2> QED  BY <1>7, <1>11, <2>1, <2>2, <2>3
<1> QED  BY <1>12, <1>13

LEMMA SecondsByHeat ==
  ASSUME AccountingInv, SecondsLogged, Heat
  PROVE  SecondsLogged'
<1> SUFFICES ASSUME pc' # "undefined" PROVE SecondsLogged'
  BY DEF SecondsLogged
<1>1. pc = "heat" /\ clock > 0 /\ UNCHANGED <<clock, log, sparse>>
  BY DEF SecondsLogged, Heat, accounts
<1>2. LogTime' = LogTime
  BY <1>1, HeatTimes
<1> QED  BY <1>1, <1>2 DEF SecondsLogged, Started

LEMMA SwitchesByLogs ==
  ASSUME AccountingInv, SecondsLogged, SwitchesLogged, Logs
  PROVE  SwitchesLogged'
<1>1. pc = "logs" /\ clock > 0 /\ switches' = switches
  BY DEF SecondsLogged, Logs
<1>2. SwitchTime' = SwitchTime
  BY <1>1, LogsTimes
<1> QED  BY <1>1, <1>2, ConstantEnergy DEF SwitchesLogged

LEMMA IntervalsLeft ==
  ASSUME AccountingInv, SecondsLogged, SwitchesLogged, Next, pc \notin {"heat", "logs"}
  PROVE  SecondsLogged' /\ SwitchesLogged'
<1> SUFFICES ASSUME pc' # "undefined" PROVE SecondsLogged' /\ SwitchesLogged'
  BY DEF SecondsLogged, SwitchesLogged
<1>1. UNCHANGED <<log, sparse, switches>>
  BY NextLeavesBooks DEF LeavesBooks, accounts, AccountingInv
<1>2. SameTimes
  BY NextTimes
<1>3. SecondsLogged'
  BY <1>1, <1>2 DEF SameTimes, SecondsLogged, Started
<1>4. SwitchesLogged'
  BY <1>1, <1>2, ConstantEnergy DEF SameTimes, SwitchesLogged
<1> QED  BY <1>3, <1>4

-----------------------------------------------------------------------------
(* The totals beside the logs.                                              *)

LEMMA SwitchLogIsColumn == \A t \in SwitchLevels : SwitchLog(t) = Total(Column(switches.sparse, t))
BY DEF SwitchLog, Column

LEMMA TotalsByHeat ==
  ASSUME AccountingInv, TotalsKept, Heat
  PROVE  TotalsKept'
<1> USE DEF AccountingInv
<1>1. SwitchesEveryASecond /\ UNCHANGED <<migrations, sparse>>
  BY DEF Heat, accounts
<1>2. switches \in SwitchTypes
  BY DEF BooksOK, SwitchTypes
<1>3. switches.sparse \in Seq([SwitchLevels -> Nat])
  BY <1>2 DEF SwitchTypes
<1>4. PICK sum \in [SwitchLevels -> Nat] :
        \/ /\ switches'.sparse = Append(switches.sparse, sum)
           /\ \A t \in SwitchLevels : switches'.total[t] = switches.total[t] + sum[t]
        \/ switches'.sparse = switches.sparse /\ switches'.total = switches.total
  BY <1>1, <1>2, SwitchesOfSecond
<1>5. ASSUME NEW t \in SwitchLevels PROVE switches'.total[t] = SwitchLog(t)'
  <2>1. switches.total[t] = Total(Column(switches.sparse, t))
    BY SwitchLogIsColumn DEF TotalsKept
  <2>2. SwitchLog(t)' = Total(Column(switches'.sparse, t))
    BY DEF SwitchLog, Column
  <2>3. CASE /\ switches'.sparse = Append(switches.sparse, sum)
             /\ switches'.total[t] = switches.total[t] + sum[t]
    <3>1. \A e \in [SwitchLevels -> Nat] : e[t] \in Nat
      OBVIOUS
    <3>2. Total(Column(Append(switches.sparse, sum), t)) = Total(Column(switches.sparse, t)) + sum[t]
      BY <1>3, <3>1, ColumnOfAppend
    <3> QED  BY <2>1, <2>2, <2>3, <3>2
  <2>4. CASE switches'.sparse = switches.sparse /\ switches'.total = switches.total
    BY <2>1, <2>2, <2>4
  <2> QED  BY <1>4, <2>3, <2>4
<1>6. migrations'.total = Total(migrations'.sparse) /\ Len(migrations'.sparse) = Len(sparse')
  BY <1>1 DEF TotalsKept
<1> QED  BY <1>5, <1>6 DEF TotalsKept

LEMMA TotalsByLogs ==
  ASSUME AccountingInv, TotalsKept, Logs
  PROVE  TotalsKept'
<1> USE DEF AccountingInv
<1>1. switches' = switches
  BY DEF Logs
<1>2. \A t \in SwitchLevels : switches'.total[t] = SwitchLog(t)'
  BY <1>1 DEF TotalsKept, SwitchLog
<1>3. /\ migrations \in [log: Nat, sparse: Seq(Nat), total: Nat] /\ sparse \in Seq(LogEntry)
      /\ migrations.total = Total(migrations.sparse) /\ Len(migrations.sparse) = Len(sparse)
      /\ log \in LogEntry
  BY DEF TotalsKept, BooksOK
<1>4. CASE sparse' = sparse /\ migrations' = migrations
  BY <1>2, <1>3, <1>4 DEF TotalsKept
<1>5. CASE /\ sparse' = Append(sparse, log)
           /\ migrations' = [log |-> 0, sparse |-> Append(migrations.sparse, migrations.log),
                             total |-> migrations.total + migrations.log]
  <2>1. /\ migrations.sparse \in Seq(Nat) /\ migrations.log \in Nat
        /\ migrations'.sparse = Append(migrations.sparse, migrations.log)
        /\ migrations'.total = migrations.total + migrations.log
    BY <1>3, <1>5
  <2>2. migrations.sparse \in Seq(Int) /\ migrations.log \in Int
    <3>1. Nat \subseteq Int
      OBVIOUS
    <3> QED  BY <2>1, <3>1, SeqMonotonic
  <2>3. SumFunction(Append(migrations.sparse, migrations.log)) = SumFunction(migrations.sparse) + migrations.log
    BY <2>2, SumOfAppend
  <2>4. migrations'.total = Total(migrations'.sparse)
    BY <1>3, <2>1, <2>3 DEF Total
  <2>5. Len(migrations'.sparse) = Len(sparse')
    BY <1>3, <1>5, <2>1
  <2> QED  BY <1>2, <2>4, <2>5 DEF TotalsKept
<1> QED  BY <1>4, <1>5, LogsOfSecond

LEMMA TotalsLeft ==
  ASSUME AccountingInv, TotalsKept, Next, pc \notin {"heat", "logs"}
  PROVE  TotalsKept'
<1>1. /\ UNCHANGED <<sparse, switches>>
      /\ \E n \in Nat : migrations' = [migrations EXCEPT !.log = @ + n]
  BY NextLeavesBooks DEF LeavesBooks, accounts, AccountingInv
<1>2. migrations \in [log: Nat, sparse: Seq(Nat), total: Nat]
  BY DEF AccountingInv, BooksOK
<1>3. migrations'.sparse = migrations.sparse /\ migrations'.total = migrations.total
  BY <1>1, <1>2
<1> QED  BY <1>1, <1>3 DEF TotalsKept, SwitchLog

-----------------------------------------------------------------------------
(* What the entries of the log are bounded by.                              *)

LEMMA HighestOf ==
  ASSUME NEW S, IsFiniteSet(S), S \subseteq Nat, S # {}
  PROVE  Max(S) \in S /\ \A t \in S : t <= Max(S)
<1> DEFINE A == {s \in SUBSET S : s = {} \/ \E x \in s : \A y \in s : x >= y}
<1>1. {} \in A
  OBVIOUS
<1>2. ASSUME NEW s \in SUBSET S, NEW z \in S, s \in A, z \notin s
      PROVE  s \cup {z} \in A
  <2>1. CASE s = {}
    BY <2>1
  <2>2. CASE s # {}
    <3>1. PICK x \in s : \A y \in s : x >= y
      BY <1>2, <2>2
    <3>2. x \in Nat /\ z \in Nat /\ \A y \in s : y \in Nat
      OBVIOUS
    <3>3. CASE x >= z
      <4>1. \A y \in s \cup {z} : x >= y
        BY <3>1, <3>3
      <4> QED  BY <4>1
    <3>4. CASE ~ (x >= z)
      <4>1. \A y \in s \cup {z} : z >= y
        BY <3>1, <3>2, <3>4
      <4> QED  BY <4>1
    <3> QED  BY <3>3, <3>4
  <2> QED  BY <2>1, <2>2
<1>3. S \in A
  <2> HIDE DEF A
  <2> QED  BY <1>1, <1>2, SubsetInduction
<1>4. \E x \in S : \A y \in S : x >= y
  BY <1>3
<1> QED  BY <1>4 DEF Max

(* The supply is between the lowest and the highest. *)
LEMMA SuppliesBetween ==
  /\ Min(Supplies) \in Nat /\ Max(Supplies) \in Nat
  /\ \A t \in Supplies : t \in Nat /\ Min(Supplies) <= t /\ t <= Max(Supplies)
<1>1. Supplies \subseteq Nat /\ Supplies # {} /\ IsFiniteSet(Supplies)
  BY AccountingAssumption
<1>2. Max(Supplies) \in Supplies /\ \A t \in Supplies : t <= Max(Supplies)
  BY <1>1, HighestOf
<1>3. Min(Supplies) \in Supplies /\ \A t \in Supplies : Min(Supplies) <= t
  BY LowestSupply
<1> QED  BY <1>1, <1>2, <1>3

LEMMA SupplyIsBetween ==
  ASSUME TypeOK
  PROVE  /\ supply \in Nat /\ Min(Supplies) \in Nat /\ Max(Supplies) \in Nat
         /\ Min(Supplies) <= supply /\ supply <= Max(Supplies)
BY SuppliesBetween DEF TypeOK

LEMMA SoundAdd ==
  ASSUME NEW a \in LogEntry, NEW b \in LogEntry, NEW peak \in Nat, Sound(a, peak), Sound(b, peak)
  PROVE  Sound(Add(a, b), peak)
<1>1. PICK c \in LogEntry : c = Add(a, b)
  BY AddedEntries
<1>2. /\ c.seconds = a.seconds + b.seconds /\ c.supply = a.supply + b.supply
      /\ c.machines = a.machines + b.machines /\ c.fans = a.fans + b.fans
      /\ c.crac = a.crac + b.crac
  BY <1>1, AddedEntries
<1>3. PICK low \in Nat, high \in Nat, most \in Nat :
        low = Min(Supplies) /\ high = Max(Supplies) /\ most = 2000 * Cardinality(All)
  <2>1. Min(Supplies) \in Nat /\ Max(Supplies) \in Nat
    BY SuppliesBetween
  <2>2. 2000 * Cardinality(All) \in Nat
    BY AllIsFinite
  <2> QED  BY <2>1, <2>2
<1>4. \A e \in {a, b} : /\ e.seconds \in Nat /\ e.supply \in Nat /\ e.machines \in Nat
                        /\ e.fans \in Nat /\ e.crac \in Nat
  BY DEF LogEntry
<1>5. PICK x \in Nat, y \in Nat : x = a.seconds /\ y = b.seconds
  BY <1>4
<1>6. /\ a.machines + a.crac <= x * peak /\ b.machines + b.crac <= y * peak
      /\ a.fans <= a.machines /\ b.fans <= b.machines
      /\ a.machines - a.fans <= most * x /\ b.machines - b.fans <= most * y
      /\ low * x <= a.supply /\ low * y <= b.supply
      /\ a.supply <= high * x /\ b.supply <= high * y
  BY <1>3, <1>5 DEF Sound
<1>7. /\ (x + y) * peak = x * peak + y * peak /\ most * (x + y) = most * x + most * y
      /\ low * (x + y) = low * x + low * y /\ high * (x + y) = high * x + high * y
  OBVIOUS
<1>8. /\ x * peak \in Nat /\ y * peak \in Nat /\ most * x \in Nat /\ most * y \in Nat
      /\ low * x \in Nat /\ low * y \in Nat /\ high * x \in Nat /\ high * y \in Nat
  OBVIOUS
<1>9. c.seconds = x + y
  BY <1>2, <1>5
<1>10. /\ c.machines + c.crac <= (x + y) * peak /\ c.fans <= c.machines
       /\ c.machines - c.fans <= most * (x + y)
       /\ low * (x + y) <= c.supply /\ c.supply <= high * (x + y)
  BY <1>2, <1>4, <1>6, <1>7, <1>8
<1>11. Sound(c, peak)
  BY <1>3, <1>9, <1>10 DEF Sound
<1> QED  BY <1>1, <1>11

LEMMA SoundUp ==
  ASSUME NEW e \in LogEntry, NEW p \in Nat, NEW q \in Nat, p <= q, Sound(e, p)
  PROVE  Sound(e, q)
<1>1. PICK n \in Nat : n = e.seconds
  BY DEF LogEntry
<1>2. n * p <= n * q
  <2>1. PICK d \in Nat : q = p + d
    <3>1. q - p \in Nat /\ q = p + (q - p)
      OBVIOUS
    <3> QED  BY <3>1
  <2>2. n * q = n * p + n * d /\ n * d \in Nat /\ n * p \in Nat
    BY <2>1
  <2> QED  BY <2>2
<1>3. e.machines + e.crac <= n * p /\ e.machines + e.crac \in Nat /\ n * p \in Nat /\ n * q \in Nat
  BY <1>1 DEF Sound, LogEntry
<1>4. e.machines + e.crac <= n * q
  BY <1>2, <1>3
<1> QED  BY <1>1, <1>4 DEF Sound

LEMMA NothingSound == ASSUME NEW peak \in Nat PROVE Sound(Nothing, peak)
<1>1. PICK low \in Nat, high \in Nat, count \in Nat :
        low = Min(Supplies) /\ high = Max(Supplies) /\ count = Cardinality(All)
  BY SuppliesBetween, AllIsFinite
<1>2. /\ Nothing.seconds = 0 /\ Nothing.supply = 0 /\ Nothing.machines = 0 /\ Nothing.fans = 0
      /\ Nothing.crac = 0
  BY DEF Nothing
<1>3. low * 0 <= 0 /\ 0 <= high * 0 /\ 0 - 0 <= 2000 * count * 0 /\ 0 + 0 <= 0 * peak
  OBVIOUS
<1> QED  BY <1>1, <1>2, <1>3 DEF Sound

(* No server draws more than twice the idle draw, but for its fans.         *)
LEMMA DrawsOfServers ==
  ASSUME TypeOK, DrawsSound
  PROVE  /\ Sample.fans <= Sample.machines
         /\ Sample.machines - Sample.fans <= 2000 * Cardinality(All)
<1> DEFINE machines == [s \in All |-> GetPowerDraw(s)]
           fans == [s \in All |-> GetFanPower(s)]
           rest == [s \in All |-> machines[s] - fans[s]]
           most == [s \in All |-> 2000]
<1>1. \A s \in All : /\ machines[s] \in Int /\ fans[s] \in Int /\ rest[s] \in Int /\ most[s] \in Int
                     /\ machines[s] = fans[s] + rest[s] /\ fans[s] <= machines[s]
                     /\ rest[s] <= most[s] /\ most[s] = 2000
  <2> SUFFICES ASSUME NEW s \in All
               PROVE  /\ GetPowerDraw(s) \in Int /\ GetFanPower(s) \in Int
                      /\ GetFanPower(s) <= GetPowerDraw(s)
                      /\ GetPowerDraw(s) - GetFanPower(s) <= 2000
    OBVIOUS
  <2>1. draw[s] \in Nat /\ fan[s] \in Nat
    BY DEF TypeOK
  <2> QED  BY <2>1 DEF GetPowerDraw, GetFanPower, DrawsSound
<1>2. Sample.machines = Total(machines) /\ Sample.fans = Total(fans)
  BY DEF Sample
<1>3. DOMAIN machines = All /\ DOMAIN fans = All
  OBVIOUS
<1> HIDE DEF machines, fans, rest, most
<1>4. /\ Sample.machines = SumFunctionOnSet(machines, All)
      /\ Sample.fans = SumFunctionOnSet(fans, All)
  BY <1>2, <1>3, TotalIsSum
<1>5. SumFunctionOnSet(fans, All) <= SumFunctionOnSet(machines, All)
  BY <1>1, AllIsFinite, SumAtMost
<1>6. SumFunctionOnSet(machines, All) = SumFunctionOnSet(fans, All) + SumFunctionOnSet(rest, All)
  BY <1>1, AllIsFinite, SumOfSums
<1>7. SumFunctionOnSet(rest, All) <= SumFunctionOnSet(most, All)
  BY <1>1, AllIsFinite, SumAtMost
<1>8. SumFunctionOnSet(most, All) = 2000 * Cardinality(All)
  <2>1. 2000 \in Int
    OBVIOUS
  <2> QED  BY <1>1, <2>1, AllIsFinite, SumOfSame
<1>9. SumFunctionOnSet(fans, All) \in Int /\ SumFunctionOnSet(rest, All) \in Int
  BY <1>1, AllIsFinite, SumIsInt
<1> QED  BY <1>4, <1>5, <1>6, <1>7, <1>8, <1>9, AllIsFinite

LEMMA SampleSound ==
  ASSUME TypeOK, DrawsSound, NEW peak \in Nat, peak >= Sample.machines + Sample.crac
  PROVE  Sound(Sample, peak)
<1>1. Sample.seconds = 1 /\ Sample.supply = supply
  BY DEF Sample
<1>2. Sample \in LogEntry
  BY SampleIsEntry
<1>3. Sample.machines \in Nat /\ Sample.crac \in Nat /\ Sample.fans \in Nat
  BY <1>2 DEF LogEntry
<1>4. PICK most \in Nat : most = 2000 * Cardinality(All)
  BY AllIsFinite
<1>5. Sample.fans <= Sample.machines /\ Sample.machines - Sample.fans <= most * 1
  BY <1>3, <1>4, DrawsOfServers
<1>6. Min(Supplies) * 1 <= supply /\ supply <= Max(Supplies) * 1
  BY SupplyIsBetween
<1>7. Sample.machines + Sample.crac <= 1 * peak
  BY <1>3
<1> QED  BY <1>1, <1>4, <1>5, <1>6, <1>7 DEF Sound

LEMMA EntriesByLogs ==
  ASSUME AccountingInv, EntriesSound, DrawsSound, Logs
  PROVE  EntriesSound'
<1> USE DEF AccountingInv
<1>1. log \in LogEntry /\ sparse \in Seq(LogEntry) /\ Sample \in LogEntry /\ Nothing \in LogEntry
      /\ peakPower \in Nat
  BY SampleIsEntry, NothingIsEntry DEF BooksOK
<1>2. PICK top \in Nat : top = Sample.machines + Sample.crac
  <2>1. Sample.machines \in Nat /\ Sample.crac \in Nat
    BY <1>1 DEF LogEntry
  <2> QED  BY <2>1
<1>3. peakPower' = Max({peakPower, top})
  <2>1. peakPower' = Max({peakPower, Sample.machines + Sample.crac})
    BY DEF Logs
  <2> QED  BY <1>2, <2>1
<1>4. peakPower' \in Nat /\ peakPower' >= peakPower /\ peakPower' >= top
  BY <1>1, <1>3, GreaterOfTwo
<1>5. PICK peak \in Nat : peak = peakPower'
  BY <1>4
<1>6. Sound(Sample, peak) /\ Sound(Nothing, peak)
  BY <1>2, <1>4, <1>5, SampleSound, NothingSound
<1>7. Sound(log, peak)
  BY <1>1, <1>4, <1>5, SoundUp DEF EntriesSound
<1>8. \A n \in 1..Len(sparse) : Sound(sparse[n], peak)
  <2> SUFFICES ASSUME NEW n \in 1..Len(sparse) PROVE Sound(sparse[n], peak)
    OBVIOUS
  <2>1. PICK e \in LogEntry : e = sparse[n]
    BY <1>1, ElementOfSeq
  <2>2. Sound(e, peakPower)
    BY <2>1 DEF EntriesSound
  <2>3. Sound(e, peak)
    BY <1>1, <1>4, <1>5, <2>2, SoundUp
  <2> QED  BY <2>1, <2>3
<1>9. Sound(Add(log, Sample), peak) /\ Sound(Add(Nothing, Sample), peak)
  BY <1>1, <1>6, <1>7, SoundAdd
<1>10. Sound(log', peak) /\ \A n \in 1..Len(sparse') : Sound(sparse'[n], peak)
  <2>1. CASE sparse' = sparse /\ log' = Add(log, Sample)
    BY <1>8, <1>9, <2>1
  <2>2. CASE sparse' = Append(sparse, log) /\ log' = Add(Nothing, Sample)
    <3>1. Len(sparse') = Len(sparse) + 1 /\ Len(sparse) \in Nat
      BY <1>1, <2>2
    <3>2. ASSUME NEW n \in 1..Len(sparse') PROVE Sound(sparse'[n], peak)
      <4>1. sparse'[n] = IF n \in 1..Len(sparse) THEN sparse[n] ELSE log
        BY <1>1, <2>2, <3>1
      <4> QED  BY <1>7, <1>8, <4>1
    <3> QED  BY <1>9, <2>2, <3>2
  <2> QED  BY <2>1, <2>2, LogsOfSecond
<1> QED  BY <1>5, <1>10 DEF EntriesSound, Sound

LEMMA EntriesLeft ==
  ASSUME EntriesSound, UNCHANGED <<log, sparse, peakPower>>
  PROVE  EntriesSound'
BY DEF EntriesSound, Sound

-----------------------------------------------------------------------------
(* The draws and the hot seconds.                                           *)

LEMMA DrawIsOfTheCPU ==
  ASSUME NEW util \in 0..100, NEW hot \in Int
  PROVE  /\ FanPower(util, hot) <= PowerDraw(util, hot)
         /\ PowerDraw(util, hot) - FanPower(util, hot) <= 2000
<1>1. DrawSound(util, hot)
  BY DrawIsSound
<1>2. PICK f \in Nat, d \in Nat : f = FanPower(util, hot) /\ d = PowerDraw(util, hot)
  BY <1>1 DEF DrawSound
<1>3. d - (IF CONSTANT_FAN_POWER THEN 0 ELSE f) \in 1000..2000
  BY <1>1, <1>2 DEF DrawSound
<1>4. CONSTANT_FAN_POWER => f = 300
  BY <1>2 DEF FanPower, coolerMaxPower
<1>5. f <= d /\ d - f <= 2000
  BY <1>3, <1>4
<1> QED  BY <1>2, <1>5

LEMMA DrawsAnew ==
  ASSUME TypeOK, TypeOK', DrawsSound, NEW S \in SUBSET All, NEW temperature,
         \A i \in Chassis : temperature[i] \in Int, RecalculateAt(S, temperature)
  PROVE  DrawsSound'
<1>1. mode' \in [All -> Modes] /\ perf' \in [All -> 0..100] /\ vRunningVMs' \in [All -> Seq(Loads)]
  BY DEF TypeOK
<1> SUFFICES ASSUME NEW s \in All PROVE fan'[s] <= draw'[s] /\ draw'[s] - fan'[s] <= 2000
  BY DEF DrawsSound
<1>2. CASE s \in S /\ mode'[s] # "off"
  <2>1. PICK util \in 0..100 : util = CurrentUtilization(mode'[s], perf'[s], vRunningVMs'[s])
    <3>1. mode'[s] \in Modes /\ perf'[s] \in 0..100 /\ vRunningVMs'[s] \in Seq(Loads)
      BY <1>1, SMTT(60)
    <3>2. CurrentUtilization(mode'[s], perf'[s], vRunningVMs'[s]) \in 0..100
      BY <3>1, UtilizationIsShare
    <3> QED  BY <3>2
  <2>2. PICK hot \in Int : hot = temperature[s[1]]
    BY DEF All
  <2>3. draw'[s] = PowerDraw(util, hot) /\ fan'[s] = FanPower(util, hot)
    <3>1. \A p \in All :
            IF p \in S /\ mode'[p] # "off"
            THEN LET load == CurrentUtilization(mode'[p], perf'[p], vRunningVMs'[p])
                 IN  /\ draw'[p] = PowerDraw(load, temperature[p[1]])
                     /\ fan'[p] = FanPower(load, temperature[p[1]])
            ELSE draw'[p] = draw[p] /\ fan'[p] = fan[p]
      BY <1>1, Recalculated
    <3> QED  BY <1>2, <2>1, <2>2, <3>1
  <2> QED  BY <2>3, DrawIsOfTheCPU
<1>3. CASE ~ (s \in S /\ mode'[s] # "off")
  <2>1. draw'[s] = draw[s] /\ fan'[s] = fan[s]
    BY <1>1, <1>3, Recalculated
  <2> QED  BY <2>1 DEF DrawsSound
<1> QED  BY <1>2, <1>3

LEMMA NextDraws ==
  ASSUME TypeOK, TypeOK', DrawsSound, Next
  PROVE  DrawsSound'
<1>1. ASSUME UNCHANGED <<draw, fan>> PROVE DrawsSound'
  BY <1>1 DEF DrawsSound
<1>2. ASSUME NEW load \in Loads, TakeFirst(load) PROVE DrawsSound'
  BY <1>1, <1>2 DEF TakeFirst, server
<1>3. CASE JobsTaken
  <2>1. CASE UNCHANGED server
    BY <1>1, <2>1 DEF server
  <2>2. CASE ReassignVMs
    <3> DEFINE busy == {s \in All : mode[s] # "off" /\ vRunningVMs[s] # <<>>}
    <3>1. RecalculateAt(busy, inlet) /\ busy \in SUBSET All
      BY <2>2 DEF ReassignVMs, Recalculate
    <3> QED  BY <3>1, DrawsAnew, Temperatures
  <2> QED  BY <1>3, <2>1, <2>2 DEF JobsTaken
<1>4. ASSUME NEW s \in All, AssignOneVM(s) PROVE DrawsSound'
  <2>1. RecalculateAt({s}, inlet) /\ {s} \in SUBSET All
    BY <1>4 DEF AssignOneVM, Recalculate
  <2> QED  BY <2>1, DrawsAnew, Temperatures
<1>5. ASSUME NEW s \in All, ServerPowerON(s) \/ PoliceIdle(s) PROVE DrawsSound'
  BY <1>1, <1>5 DEF ServerPowerON, PoliceIdle
<1>6. CASE EndAssign \/ EndPolicies
  BY <1>1, <1>6 DEF EndAssign, EndPolicies, server
<1>7. ASSUME NEW s \in All, NEW t \in All, NEW copies, Migrate(s, t, copies) PROVE DrawsSound'
  <2>1. RecalculateAt({t}, inlet) /\ {t} \in SUBSET All
    BY <1>7 DEF Migrate, Recalculate
  <2> QED  BY <2>1, DrawsAnew, Temperatures
<1>8. ASSUME NEW ended \in SUBSET All, RunServers(ended) PROVE DrawsSound'
  <2>1. RecalculateAt(All, inlet) /\ All \in SUBSET All
    BY <1>8, SMTT(60) DEF RunServers, Recalculate
  <2> QED  BY <2>1, DrawsAnew, Temperatures
<1>9. CASE Overheated \/ Heat \/ Logs
  BY <1>1, <1>9 DEF Overheated, Heat, Logs, server
<1>10. ASSUME NEW rest, NEW booted, NEW pooled, NEW off, PoolEveryASecond(rest, booted, pooled, off)
       PROVE  DrawsSound'
  <2>1. RecalculateAt(DOMAIN rest, air) /\ DOMAIN rest \in SUBSET All
    BY <1>10 DEF PoolEveryASecond, InMode
  <2> QED  BY <2>1, DrawsAnew, Temperatures
<1> QED  BY <1>2, <1>3, <1>4, <1>5, <1>6, <1>7, <1>8, <1>9, <1>10 DEF Next

BeforeHeat == {"jobs", "assign", "policies", "servers", "print"}

LEMMA LowestOf ==
  ASSUME NEW S, IsFiniteSet(S), S \subseteq Int, S # {}
  PROVE  Min(S) \in S /\ \A t \in S : Min(S) <= t
<1> DEFINE A == {s \in SUBSET S : s = {} \/ \E x \in s : \A y \in s : x <= y}
<1>1. {} \in A
  OBVIOUS
<1>2. ASSUME NEW s \in SUBSET S, NEW z \in S, s \in A, z \notin s
      PROVE  s \cup {z} \in A
  <2>1. CASE s = {}
    BY <2>1
  <2>2. CASE s # {}
    <3>1. PICK x \in s : \A y \in s : x <= y
      BY <1>2, <2>2
    <3>2. x \in Int /\ z \in Int /\ \A y \in s : y \in Int
      OBVIOUS
    <3>3. CASE x <= z
      <4>1. \A y \in s \cup {z} : x <= y
        BY <3>1, <3>3
      <4> QED  BY <4>1
    <3>4. CASE ~ (x <= z)
      <4>1. \A y \in s \cup {z} : z <= y
        BY <3>1, <3>2, <3>4
      <4> QED  BY <4>1
    <3> QED  BY <3>3, <3>4
  <2> QED  BY <2>1, <2>2
<1>3. S \in A
  <2> HIDE DEF A
  <2> QED  BY <1>1, <1>2, SubsetInduction
<1>4. \E x \in S : \A y \in S : x <= y
  BY <1>3
<1> QED  BY <1>4 DEF Min

LEMMA ColdestIsLeast ==
  /\ Coldest \in Int /\ Coldest <= 0
  /\ \A i \in Inlets : Coldest <= i
<1> DEFINE S == {0} \cup Inlets
<1>1. S \subseteq Int /\ S # {} /\ IsFiniteSet(S)
  <2>1. IsFiniteSet({0}) /\ IsFiniteSet(Inlets)
    BY FS_Singleton, AccountingAssumption
  <2>2. IsFiniteSet(S)
    BY <2>1, FS_Union
  <2> QED  BY <2>2, AccountingAssumption
<1>2. Min(S) \in S /\ \A m \in S : Min(S) <= m
  <2> HIDE DEF S
  <2> QED  BY <1>1, LowestOf
<1>3. Min(S) \in Int /\ Min(S) <= 0 /\ \A i \in Inlets : Min(S) <= i
  BY <1>1, <1>2
<1> QED  BY <1>3 DEF Coldest

LEMMA ChilledMore ==
  ASSUME LogTime \in Nat, LogTime' \in Nat
  PROVE  /\ Chilled \in Int /\ Chilled' \in Int
         /\ LogTime' >= LogTime => Chilled' <= Chilled
         /\ LogTime' = LogTime + 1 => Chilled' = Chilled + Coldest
<1>1. PICK c \in Int, m \in Nat, n \in Nat : c = Coldest /\ c <= 0 /\ m = LogTime /\ n = LogTime'
  BY ColdestIsLeast
<1>2. Chilled = c * m /\ Chilled' = c * n
  BY <1>1 DEF Chilled, Coldest
<1>3. c * m \in Int /\ c * n \in Int
  OBVIOUS
<1>4. ASSUME n >= m PROVE c * n <= c * m
  <2>1. PICK d \in Nat : n = m + d
    <3>1. n - m \in Nat /\ n = m + (n - m)
      BY <1>4
    <3> QED  BY <3>1
  <2>2. c * n = c * m + c * d
    BY <2>1
  <2>3. c * d <= 0 /\ c * d \in Int
    BY <1>1
  <2> QED  BY <1>3, <2>2, <2>3
<1>5. n = m + 1 => c * n = c * m + c
  OBVIOUS
<1> QED  BY <1>1, <1>2, <1>3, <1>4, <1>5

LEMMA HotTyped ==
  ASSUME TypeOK, BooksOK, NEW s \in All
  PROVE  /\ EMERGENCY_TEMPERATURE \in Nat /\ s[1] \in Chassis
         /\ inlet[s[1]] \in Int /\ perChassis[s[1]].temperature \in Int
         /\ overEmergency[s] \in Nat /\ dvfs[s] \in Nat
         /\ HotAhead(s[1]) \in {0, 1} /\ Slow(s) \in {0, 1}
<1>1. EMERGENCY_TEMPERATURE \in Nat
  BY PowerAssumption
<1>2. s[1] \in Chassis
  BY DEF All
<1>3. MaxClock \in Nat
  BY AccountingAssumption
<1>4. inlet[s[1]] \in Int
  BY <1>2, Temperatures
<1>5. perChassis[s[1]].temperature \in Int
  BY <1>2 DEF BooksOK
<1>6. overEmergency[s] \in Nat /\ dvfs[s] \in Nat
  <2>1. overEmergency[s] \in 0..MaxClock /\ dvfs[s] \in 0..MaxClock
    BY DEF TypeOK
  <2> QED  BY <1>3, <2>1
<1>7. HotAhead(s[1]) \in {0, 1} /\ Slow(s) \in {0, 1}
  BY ONLY DEF HotAhead, Slow
<1> QED  BY ONLY <1>1, <1>2, <1>4, <1>5, <1>6, <1>7

LEMMA HotLeft ==
  ASSUME TypeOK, BooksOK, HotSeconds, UNCHANGED <<perf, overEmergency, dvfs, perChassis>>,
         inlet' = inlet \/ pc' \notin BeforeHeat,
         pc \in BeforeHeat \/ pc' \notin BeforeHeat,
         LogTime \in Nat, LogTime' \in Nat, LogTime' >= LogTime
  PROVE  HotSeconds'
<1> SUFFICES ASSUME NEW s \in All
             PROVE  /\ (EMERGENCY_TEMPERATURE + 1) * (overEmergency[s] + HotAhead(s[1])') + Chilled'
                         <= perChassis[s[1]].temperature
                    /\ dvfs[s] + Slow(s) <= 2 * overEmergency[s]
  BY DEF HotSeconds, Slow
<1>1. PICK e \in Nat, over \in Nat, was \in {0, 1}, warm \in Int, cold \in Int, cold2 \in Int :
        /\ e = EMERGENCY_TEMPERATURE + 1 /\ over = overEmergency[s] /\ was = HotAhead(s[1])
        /\ warm = perChassis[s[1]].temperature
        /\ cold = Chilled /\ cold2 = Chilled' /\ cold2 <= cold
  <2>1. EMERGENCY_TEMPERATURE + 1 \in Nat
    BY HotTyped
  <2> QED  BY <2>1, HotTyped, ChilledMore
<1>2. HotAhead(s[1])' \in {0, was}
  BY <1>1 DEF HotAhead, BeforeHeat
<1>3. e * (over + was) + cold <= warm /\ dvfs[s] + Slow(s) <= 2 * overEmergency[s]
  BY <1>1 DEF HotSeconds
<1>4. e * (over + 0) <= e * (over + was) /\ e * (over + 0) \in Nat /\ e * (over + was) \in Nat
  <2>1. e * (over + was) = e * over + e * was /\ e * was \in Nat /\ e * over \in Nat /\ over + 0 = over
    OBVIOUS
  <2> QED  BY <2>1
<1>5. \A ahead \in {0, was} : e * (over + ahead) + cold2 <= warm
  BY <1>1, <1>3, <1>4
<1>6. e * (over + HotAhead(s[1])') + cold2 <= warm
  BY <1>2, <1>5
<1> QED  BY <1>1, <1>3, <1>6

LEMMA HotByServers ==
  ASSUME TypeOK, BooksOK, HotSeconds, LogTime \in Nat, NEW ended \in SUBSET All, RunServers(ended)
  PROVE  HotSeconds'
<1> DEFINE on == {s \in All : mode[s] # "off"}
           now == [i \in Chassis |-> Performance(inlet[i])]
<1>1. /\ pc = "servers" /\ pc' = "pool"
      /\ \A s \in on : HasPerformance(inlet[s[1]])
      /\ perf' = [s \in All |-> IF s \in on THEN now[s[1]] ELSE perf[s]]
      /\ overEmergency' = [s \in All |->
           overEmergency[s] + IF s \in on /\ inlet[s[1]] > EMERGENCY_TEMPERATURE THEN 1 ELSE 0]
      /\ dvfs' = [s \in All |-> dvfs[s] + IF perf'[s] # perf[s] THEN 1 ELSE 0]
      /\ UNCHANGED <<clock, inlet, perChassis>>
  BY DEF RunServers, books, accounts, atmosphere
<1>7. LogTime' = LogTime
  BY <1>1 DEF LogTime
<1>8. Chilled' = Chilled /\ Chilled \in Int
  <2>1. Chilled' = Chilled
    BY <1>7 DEF Chilled, Coldest
  <2> QED  BY <1>7, <2>1, ChilledMore
<1> SUFFICES ASSUME NEW s \in All
             PROVE  /\ (EMERGENCY_TEMPERATURE + 1) * (overEmergency'[s] + 0) + Chilled
                         <= perChassis[s[1]].temperature
                    /\ dvfs'[s] + Slow(s)' <= 2 * overEmergency'[s]
  BY <1>1, <1>8 DEF HotSeconds, HotAhead
<1>2. /\ EMERGENCY_TEMPERATURE \in Nat /\ s[1] \in Chassis
      /\ inlet[s[1]] \in Int /\ perChassis[s[1]].temperature \in Int
      /\ overEmergency[s] \in Nat /\ dvfs[s] \in Nat
      /\ HotAhead(s[1]) \in {0, 1} /\ Slow(s) \in {0, 1}
  BY HotTyped
<1>3. PICK e \in Nat, over \in Nat, warm \in Int, changed \in Nat, cold \in Int :
        /\ e = EMERGENCY_TEMPERATURE + 1 /\ over = overEmergency[s]
        /\ warm = perChassis[s[1]].temperature /\ changed = dvfs[s] /\ cold = Chilled
  <2>1. EMERGENCY_TEMPERATURE + 1 \in Nat
    BY <1>2
  <2> QED  BY <1>2, <1>8, <2>1
<1>4. e * (over + HotAhead(s[1])) + cold <= warm /\ changed + Slow(s) <= 2 * over
  BY <1>3 DEF HotSeconds
<1>5. CASE s \in on /\ inlet[s[1]] > EMERGENCY_TEMPERATURE
  <2>1. overEmergency'[s] = over + 1
    BY <1>1, <1>3, <1>5
  <2>2. HotAhead(s[1]) = 1
    BY <1>1, <1>5 DEF HotAhead
  <2>3. e * (overEmergency'[s] + 0) + cold <= warm
    BY <1>4, <2>1, <2>2
  <2>4. dvfs'[s] + Slow(s)' <= 2 * (over + 1)
    <3>1. CASE perf'[s] = perf[s]
      <4>1. dvfs'[s] = changed /\ Slow(s)' = Slow(s)
        BY <1>1, <1>3, <3>1 DEF Slow
      <4> QED  BY <1>2, <1>4, <4>1
    <3>2. CASE perf'[s] # perf[s]
      <4>1. dvfs'[s] = changed + 1 /\ Slow(s)' \in {0, 1}
        BY <1>1, <1>3, <3>2 DEF Slow
      <4> QED  BY <1>2, <1>4, <4>1
    <3> QED  BY <3>1, <3>2
  <2> QED  BY <1>3, <2>1, <2>3, <2>4
<1>6. CASE ~ (s \in on /\ inlet[s[1]] > EMERGENCY_TEMPERATURE)
  <2>1. overEmergency'[s] = over
    BY <1>1, <1>3, <1>6
  <2>2. e * (over + 0) <= e * (over + HotAhead(s[1]))
    <3>1. PICK ahead \in {0, 1} : ahead = HotAhead(s[1])
      BY <1>2
    <3>2. e * (over + ahead) = e * over + e * ahead /\ e * ahead \in Nat /\ e * over \in Nat
      OBVIOUS
    <3> QED  BY <3>1, <3>2
  <2>3. e * (overEmergency'[s] + 0) + cold <= warm
    <3>1. PICK ahead \in {0, 1} : ahead = HotAhead(s[1])
      BY <1>2
    <3>2. e * (over + 0) \in Nat /\ e * (over + ahead) \in Nat
      OBVIOUS
    <3> QED  BY <1>4, <2>1, <2>2, <3>1, <3>2
  <2>4. dvfs'[s] + Slow(s)' <= 2 * over
    <3>1. CASE s \in on
      <4>1. perf'[s] = 100
        <5>1. inlet[s[1]] <= EMERGENCY_TEMPERATURE
          BY <1>2, <1>6, <3>1
        <5>2. Performance(inlet[s[1]]) = 100
          BY <1>1, <1>2, <3>1, <5>1, PerformanceIsThere
        <5>3. perf'[s] = Performance(inlet[s[1]])
          BY <1>1, <1>2, <3>1
        <5> QED  BY <5>2, <5>3
      <4>2. Slow(s)' = 0
        BY <4>1 DEF Slow
      <4>3. CASE perf[s] = 100
        <5>1. dvfs'[s] = changed /\ Slow(s) = 0
          BY <1>1, <1>3, <4>1, <4>3 DEF Slow
        <5> QED  BY <1>4, <4>2, <5>1
      <4>4. CASE perf[s] # 100
        <5>1. dvfs'[s] = changed + 1 /\ Slow(s) = 1
          BY <1>1, <1>3, <4>1, <4>4 DEF Slow
        <5> QED  BY <1>4, <4>2, <5>1
      <4> QED  BY <4>3, <4>4
    <3>2. CASE s \notin on
      <4>1. perf'[s] = perf[s]
        BY <1>1, <3>2
      <4>2. dvfs'[s] = changed /\ Slow(s)' = Slow(s)
        BY <1>1, <1>3, <4>1 DEF Slow
      <4> QED  BY <1>4, <4>2
    <3> QED  BY <3>1, <3>2
  <2> QED  BY <1>3, <2>1, <2>3, <2>4
<1> QED  BY <1>5, <1>6

LEMMA HotByLogs ==
  ASSUME TypeOK, BooksOK, HotSeconds, Logs, LogTime \in Nat, LogTime' = LogTime + 1
  PROVE  HotSeconds'
<1>1. /\ pc = "logs" /\ UNCHANGED <<perf, overEmergency, dvfs, inlet>>
      /\ perChassis' = [i \in Chassis |->
           [power |-> perChassis[i].power + Total([j \in Servers |-> GetPowerDraw(<<i, j>>)]),
            computing |-> perChassis[i].computing
                            + Total([j \in Servers |-> MaxUtilization(mode[<<i, j>>], perf[<<i, j>>])]),
            temperature |-> perChassis[i].temperature + inlet[i]]]
  BY DEF Logs, server, atmosphere
<1>2. \A i \in Chassis : perChassis'[i].temperature = perChassis[i].temperature + inlet[i]
  BY <1>1
<1> SUFFICES ASSUME NEW s \in All
             PROVE  /\ (EMERGENCY_TEMPERATURE + 1) * (overEmergency[s] + HotAhead(s[1])') + Chilled'
                         <= perChassis'[s[1]].temperature
                    /\ dvfs[s] + Slow(s) <= 2 * overEmergency[s]
  BY <1>1 DEF HotSeconds, Slow
<1>3. /\ EMERGENCY_TEMPERATURE \in Nat /\ s[1] \in Chassis
      /\ inlet[s[1]] \in Int /\ perChassis[s[1]].temperature \in Int
      /\ overEmergency[s] \in Nat
  BY HotTyped
<1>4. PICK e \in Nat, over \in Nat, warm \in Int, hot \in Int, cold \in Int, least \in Int :
        /\ e = EMERGENCY_TEMPERATURE + 1 /\ over = overEmergency[s]
        /\ warm = perChassis[s[1]].temperature /\ hot = inlet[s[1]]
        /\ cold = Chilled /\ Chilled' = cold + least /\ least <= hot /\ least <= 0
  <2>1. EMERGENCY_TEMPERATURE + 1 \in Nat
    BY <1>3
  <2>2. Chilled \in Int /\ Chilled' = Chilled + Coldest
    BY ChilledMore
  <2>3. inlet[s[1]] \in Inlets \cup {LOWEST_SUPPLY_TEMPERATURE}
    BY <1>3 DEF TypeOK
  <2>4. Coldest <= inlet[s[1]] /\ Coldest \in Int /\ Coldest <= 0
    <3>1. LOWEST_SUPPLY_TEMPERATURE \in Nat /\ Inlets \subseteq Int
      BY AccountingAssumption
    <3>2. PICK c \in Int : c = Coldest /\ c <= 0 /\ \A i \in Inlets : c <= i
      BY ColdestIsLeast
    <3>3. PICK h \in Inlets \cup {LOWEST_SUPPLY_TEMPERATURE} : h = inlet[s[1]]
      BY <2>3
    <3>4. CASE h \in Inlets
      BY <3>1, <3>2, <3>3, <3>4
    <3>5. CASE h = LOWEST_SUPPLY_TEMPERATURE
      BY ONLY <3>1, <3>2, <3>3, <3>5
    <3> QED  BY <3>3, <3>4, <3>5
  <2> QED  BY <1>3, <2>1, <2>2, <2>4
<1>5. HotAhead(s[1]) = 0
  BY <1>1 DEF HotAhead
<1>6. e * (over + 0) + cold <= warm /\ dvfs[s] + Slow(s) <= 2 * overEmergency[s]
  BY <1>4, <1>5 DEF HotSeconds
<1>7. HotAhead(s[1])' = 0 \/ (HotAhead(s[1])' = 1 /\ hot >= e)
  BY <1>1, <1>3, <1>4 DEF HotAhead
<1>8. /\ e * (over + 0) + cold + least <= warm + hot
      /\ hot >= e => e * (over + 1) + cold + least <= warm + hot
  <2>1. e * (over + 1) = e * over + e /\ e * over \in Nat /\ e * (over + 0) = e * over
    OBVIOUS
  <2>2. PICK product \in Nat : product = e * over
    BY <2>1
  <2>3. product + cold <= warm
    BY <1>6, <2>1, <2>2
  <2>4. product + cold + least <= warm + hot /\ (hot >= e => product + e + cold + least <= warm + hot)
    BY <1>4, <2>3
  <2> QED  BY <2>1, <2>2, <2>4
<1>9. e * (over + HotAhead(s[1])') + cold + least <= warm + hot
  BY <1>7, <1>8
<1>10. perChassis'[s[1]].temperature = warm + hot
  BY <1>2, <1>3, <1>4
<1>11. e * (over + HotAhead(s[1])') + Chilled' <= warm + hot
  <2>1. PICK ahead \in {0, 1} : ahead = HotAhead(s[1])'
    BY <1>7
  <2>2. PICK product \in Int : product = e * (over + ahead)
    OBVIOUS
  <2>3. product + cold + least <= warm + hot
    BY <1>9, <2>1, <2>2
  <2>4. Chilled' = cold + least
    BY <1>4
  <2>5. product + Chilled' <= warm + hot
    BY <2>3, <2>4
  <2> QED  BY <2>1, <2>2, <2>5
<1> QED  BY <1>4, <1>6, <1>10, <1>11

LEMMA LogTimeGrows ==
  ASSUME AccountingInv, SecondsLogged, Next
  PROVE  /\ LogTime \in Nat /\ LogTime' \in Nat /\ LogTime' >= LogTime
         /\ Logs => LogTime' = LogTime + 1
<1>1. clock \in Nat /\ clock' \in Nat
  <2>1. TypeOK /\ TypeOK'
    BY NextTyped DEF AccountingInv
  <2> QED  BY <2>1, AccountingAssumption DEF TypeOK
<1>2. CASE pc = "heat"
  <2>1. Heat
    BY <1>2, OnlyHeat
  <2>2. pc' \in {"logs", "undefined"} /\ clock' = clock /\ clock > 0
    BY <1>2, <2>1 DEF Heat, SecondsLogged
  <2> QED  BY <1>1, <1>2, <2>2 DEF LogTime, Logs
<1>3. CASE pc = "logs"
  <2>1. Logs
    BY <1>3, OnlyLogs
  <2>2. pc' \in {"print", "jobs"} /\ clock' = clock /\ clock > 0
    BY <1>3, <2>1 DEF Logs, SecondsLogged
  <2> QED  BY <1>1, <1>3, <2>2 DEF LogTime
<1>4. CASE pc = "pool"
  <2>1. pc' = "heat" /\ clock' = clock + 1
    BY <1>4 DEF Next, TakeFirst, JobsTaken, AssignOneVM, ServerPowerON, PoliceIdle, EndAssign,
                EndPolicies, RunServers, Overheated, PoolEveryASecond, Heat, Logs
  <2> QED  BY <1>1, <1>4, <2>1 DEF LogTime, Logs
<1>5. CASE pc \notin {"heat", "logs", "pool"}
  <2>1. clock' = clock /\ pc' \notin {"heat", "logs"}
    BY <1>5 DEF Next, TakeFirst, JobsTaken, AssignOneVM, ServerPowerON, PoliceIdle, EndAssign,
                Migrate, EndPolicies, RunServers, Overheated, Heat, Logs, PoolEveryASecond
  <2> QED  BY <1>1, <1>5, <2>1, SMTT(60) DEF LogTime, Logs
<1> QED  BY <1>2, <1>3, <1>4, <1>5

LEMMA NextHot ==
  ASSUME AccountingInv, SecondsLogged, HotSeconds, Next
  PROVE  HotSeconds'
<1>0. /\ TypeOK /\ BooksOK /\ LogTime \in Nat /\ LogTime' \in Nat /\ LogTime' >= LogTime
      /\ Logs => LogTime' = LogTime + 1
  BY LogTimeGrows DEF AccountingInv
<1>1. ASSUME NEW ended \in SUBSET All, RunServers(ended) PROVE HotSeconds'
  BY <1>0, <1>1, HotByServers
<1>2. CASE Logs
  BY <1>0, <1>2, HotByLogs
<1>3. CASE Heat
  BY <1>0, <1>3, HotLeft DEF Heat, server, accounts, BeforeHeat
<1>4. ASSUME NEW load \in Loads, TakeFirst(load) PROVE HotSeconds'
  BY <1>0, <1>4, HotLeft DEF TakeFirst, server, atmosphere, books, accounts, BeforeHeat
<1>5. CASE JobsTaken
  <2>1. UNCHANGED <<perf, overEmergency, dvfs>>
    BY <1>5 DEF JobsTaken, ReassignVMs, server
  <2> QED  BY <1>0, <1>5, <2>1, HotLeft DEF JobsTaken, atmosphere, books, accounts, BeforeHeat
<1>6. ASSUME NEW s \in All, AssignOneVM(s) \/ ServerPowerON(s) PROVE HotSeconds'
  BY <1>0, <1>6, HotLeft DEF AssignOneVM, ServerPowerON, atmosphere, books, accounts, BeforeHeat
<1>7. ASSUME NEW s \in All, PoliceIdle(s) PROVE HotSeconds'
  BY <1>0, <1>7, HotLeft DEF PoliceIdle, atmosphere, accounts, BeforeHeat
<1>8. CASE EndAssign \/ EndPolicies
  BY <1>0, <1>8, HotLeft DEF EndAssign, EndPolicies, server, atmosphere, books, accounts, BeforeHeat
<1>9. ASSUME NEW s \in All, NEW t \in All, NEW copies, Migrate(s, t, copies) PROVE HotSeconds'
  BY <1>0, <1>9, HotLeft DEF Migrate, atmosphere, accounts, BeforeHeat
<1>10. CASE Overheated
  BY <1>0, <1>10, HotLeft DEF Overheated, server, atmosphere, books, accounts, BeforeHeat
<1>11. ASSUME NEW rest, NEW booted, NEW pooled, NEW off, PoolEveryASecond(rest, booted, pooled, off)
       PROVE  HotSeconds'
  BY <1>0, <1>11, HotLeft, SMTT(60) DEF PoolEveryASecond, atmosphere, books, accounts, BeforeHeat
<1> QED  BY <1>1, <1>2, <1>3, <1>4, <1>5, <1>6, <1>7, <1>8, <1>9, <1>10, <1>11 DEF Next

-----------------------------------------------------------------------------
(* Both distributions count as many servers.                                *)

LEMMA ServersCountedByHeat ==
  ASSUME AccountingInv, TypeOK', ServersCounted, Heat
  PROVE  ServersCounted'
<1> USE DEF AccountingInv
<1>1. CASE UNCHANGED distribution
  BY <1>1 DEF ServersCounted
<1>2. CASE Record /\ \A s \in On : inlet'[s[1]] \in 0..100
  <2> DEFINE loads == [s \in On |-> Utilization(s)]
             inlets == [s \in On |-> inlet'[s[1]]]
  <2>1. Ones \in [Nat -> Nat] /\ \A s \in On : inlets[s] \in Nat
    BY <1>2 DEF Ones
  <2>2. /\ Weighed(Ones, distribution'.utilization)
             = Weighed(Ones, distribution.utilization) + SumFunctionOnSet(Weights(Ones, On, loads), On)
        /\ Weighed(Ones, distribution'.temperature)
             = Weighed(Ones, distribution.temperature) + SumFunctionOnSet(Weights(Ones, On, inlets), On)
    BY <1>2, <2>1, Recorded
  <2>3. \A s \in On : /\ Weights(Ones, On, loads)[s] = 1
                      /\ Weights(Ones, On, inlets)[s] = 1
    <3> SUFFICES ASSUME NEW s \in On PROVE Ones[loads[s]] = 1 /\ Ones[inlets[s]] = 1
      BY DEF Weights
    <3>1. loads[s] \in Nat
      BY ServerAmounts DEF On
    <3>2. inlets[s] \in Nat
      BY <2>1
    <3> QED  BY <3>1, <3>2 DEF Ones
  <2>4. IsFiniteSet(On)
    BY AllIsFinite, FS_Subset DEF On
  <2>5. PICK a, b : a = Weights(Ones, On, loads) /\ b = Weights(Ones, On, inlets)
    OBVIOUS
  <2>6. SumFunctionOnSet(a, On) = SumFunctionOnSet(b, On)
    <3>1. \A s \in On : a[s] = 1 /\ b[s] = 1
      BY <2>3, <2>5, Zenon
    <3>2. \A s \in On : a[s] \in Int /\ a[s] = b[s]
      BY <3>1
    <3> QED  BY <2>4, <3>2, SumsAgree
  <2> HIDE DEF loads, inlets
  <2> QED  BY <2>2, <2>5, <2>6 DEF ServersCounted
<1> QED  BY <1>1, <1>2 DEF Heat, On

-----------------------------------------------------------------------------
(* The invariant of the report.                                             *)

LEMMA InitReportInv == Init => ReportInv
<1> SUFFICES ASSUME Init PROVE ReportInv
  OBVIOUS
<1>1. AccountingInv
  BY InitAccountingInv
<1>2. PERIODIC_LOG_INTERVAL \in Nat \ {0}
  BY AccountingAssumption
<1>3. 0 \div PERIODIC_LOG_INTERVAL = 0 /\ 0 % PERIODIC_LOG_INTERVAL = 0
  <2>1. PICK d \in Nat \ {0} : d = PERIODIC_LOG_INTERVAL
    BY <1>2
  <2>2. 0 \div d = 0 /\ 0 % d = 0
    OBVIOUS
  <2> QED  BY <2>1, <2>2
<1>4. pc = "jobs" /\ clock = 0 /\ LogTime = 0 /\ SwitchTime = 0
  BY DEF Init, LogTime, SwitchTime
<1>5. sparse = <<>> /\ Len(sparse) = 0 /\ log = Nothing /\ log.seconds = 0
  BY DEF Init, Nothing
<1>6. SecondsLogged
  BY <1>3, <1>4, <1>5 DEF SecondsLogged, Started
<1>7. /\ switches.sparse = <<>> /\ Len(switches.sparse) = 0
      /\ \A t \in SwitchLevels : switches.log[t] = 0 /\ switches.total[t] = 0
  BY DEF Init, NewTopology
<1>8. SwitchesLogged
  <2> SUFFICES ASSUME NEW t \in Constant
               PROVE  switches.log[t] = 0 * ReturnsEnergyConsumption(t)
    BY <1>3, <1>4, <1>7 DEF SwitchesLogged
  <2> QED  BY <1>7, ConstantEnergy
<1>9. TotalsKept
  <2>1. \A t \in SwitchLevels : SwitchLog(t) = 0
    <3> SUFFICES ASSUME NEW t \in SwitchLevels PROVE SwitchLog(t) = 0
      OBVIOUS
    <3>1. Column(switches.sparse, t) = <<>>
      BY <1>7 DEF Column
    <3> QED  BY <3>1, SwitchLogIsColumn, SumOfEmpty DEF Total
  <2>2. migrations.sparse = <<>> /\ migrations.total = 0
    BY DEF Init
  <2> QED  BY <1>5, <1>7, <2>1, <2>2, SumOfEmpty DEF TotalsKept, Total
<1>10. EntriesSound
  <2>1. peakPower = 0
    BY DEF Init
  <2> QED  BY <1>5, <2>1, NothingSound DEF EntriesSound
<1>11. DrawsSound
  BY DEF Init, NewServers, DrawsSound
<1>14. Chilled = 0
  BY <1>4, ColdestIsLeast DEF Chilled
<1>12. HotSeconds
  <2> SUFFICES ASSUME NEW s \in All
               PROVE  /\ (EMERGENCY_TEMPERATURE + 1) * (overEmergency[s] + HotAhead(s[1]))
                             + Chilled
                           <= perChassis[s[1]].temperature
                      /\ dvfs[s] + Slow(s) <= 2 * overEmergency[s]
    BY DEF HotSeconds
  <2>1. /\ s[1] \in Chassis /\ EMERGENCY_TEMPERATURE + 1 \in Nat
        /\ LOWEST_SUPPLY_TEMPERATURE \in Nat /\ LOWEST_SUPPLY_TEMPERATURE <= EMERGENCY_TEMPERATURE
    BY PowerAssumption, AccountingAssumption DEF All
  <2>2. /\ overEmergency[s] = 0 /\ dvfs[s] = 0 /\ Slow(s) = 0
        /\ perChassis[s[1]].temperature = 0 /\ inlet[s[1]] = LOWEST_SUPPLY_TEMPERATURE
    BY <2>1 DEF Init, NewServers, Slow
  <2>3. HotAhead(s[1]) = 0
    BY <2>1, <2>2, PowerAssumption DEF HotAhead
  <2> QED  BY <1>14, <2>1, <2>2, <2>3
<1>13. ServersCounted
  <2>1. DOMAIN distribution.utilization = {} /\ DOMAIN distribution.temperature = {}
    BY DEF Init
  <2> QED  BY <2>1, SumOfNone DEF ServersCounted, Weighed
<1> QED  BY <1>1, <1>6, <1>8, <1>9, <1>10, <1>11, <1>12, <1>13 DEF ReportInv

LEMMA NextReportInv == ReportInv /\ [Next]_vars => ReportInv'
<1> SUFFICES ASSUME ReportInv, [Next]_vars PROVE ReportInv'
  OBVIOUS
<1>1. /\ AccountingInv /\ SecondsLogged /\ SwitchesLogged /\ TotalsKept /\ EntriesSound
      /\ DrawsSound /\ HotSeconds /\ ServersCounted
  BY DEF ReportInv
<1>2. AccountingInv'
  BY <1>1, NextAccountingInv
<1>3. TypeOK /\ BooksOK /\ TypeOK'
  BY <1>1, <1>2 DEF AccountingInv
<1>4. CASE Next
  <2>1. DrawsSound' /\ HotSeconds'
    BY <1>1, <1>3, <1>4, NextDraws, NextHot
  <2>2. CASE pc \notin {"heat", "logs"}
    <3>1. UNCHANGED <<log, sparse, peakPower, distribution>>
      BY <1>3, <1>4, <2>2, NextLeavesBooks DEF LeavesBooks, accounts
    <3>2. SecondsLogged' /\ SwitchesLogged'
      BY <1>1, <1>4, <2>2, IntervalsLeft
    <3>3. TotalsKept'
      BY <1>1, <1>4, <2>2, TotalsLeft
    <3>4. EntriesSound'
      BY <1>1, <3>1, EntriesLeft
    <3>5. ServersCounted'
      BY <1>1, <3>1 DEF ServersCounted
    <3> QED  BY <1>2, <2>1, <3>2, <3>3, <3>4, <3>5 DEF ReportInv
  <2>3. CASE pc = "heat"
    <3>1. Heat
      BY <1>4, <2>3, OnlyHeat
    <3>2. SecondsLogged' /\ SwitchesLogged'
      BY <1>1, <3>1, SecondsByHeat, SwitchesByHeat
    <3>3. TotalsKept' /\ ServersCounted'
      BY <1>1, <1>3, <3>1, TotalsByHeat, ServersCountedByHeat
    <3>4. EntriesSound'
      BY <1>1, <3>1, EntriesLeft DEF Heat, accounts
    <3> QED  BY <1>2, <2>1, <3>2, <3>3, <3>4 DEF ReportInv
  <2>4. CASE pc = "logs"
    <3>1. Logs
      BY <1>4, <2>4, OnlyLogs
    <3>2. SecondsLogged' /\ SwitchesLogged'
      BY <1>1, <3>1, SecondsByLogs, SwitchesByLogs
    <3>3. TotalsKept' /\ EntriesSound'
      BY <1>1, <3>1, TotalsByLogs, EntriesByLogs
    <3>4. ServersCounted'
      BY <1>1, <3>1 DEF Logs, ServersCounted
    <3> QED  BY <1>2, <2>1, <3>2, <3>3, <3>4 DEF ReportInv
  <2> QED  BY <2>2, <2>3, <2>4
<1>5. CASE UNCHANGED vars
  <2>1. UNCHANGED <<pc, clock, mode, perf, draw, fan, overEmergency, dvfs, inlet, air, log, sparse,
                    perChassis, peakPower, distribution, migrations, switches>>
    BY <1>5 DEF vars, server, atmosphere, books, accounts
  <2>2. SecondsLogged'
    BY <1>1, <2>1 DEF SecondsLogged, LogTime, Started
  <2>3. SwitchesLogged'
    BY <1>1, <2>1, ConstantEnergy DEF SwitchesLogged, SwitchTime
  <2>4. TotalsKept' /\ DrawsSound' /\ ServersCounted'
    BY <1>1, <2>1 DEF TotalsKept, SwitchLog, DrawsSound, ServersCounted
  <2>5. EntriesSound'
    BY <1>1, <2>1, EntriesLeft
  <2>6. HotSeconds'
    BY <1>1, <2>1 DEF HotSeconds, HotAhead, Slow, Chilled, LogTime
  <2> QED  BY <1>2, <2>2, <2>3, <2>4, <2>5, <2>6 DEF ReportInv
<1> QED  BY <1>4, <1>5

-----------------------------------------------------------------------------
(* What is printed follows.                                                 *)

LEMMA IntervalsFollow ==
  ASSUME ReportInv, pc \in {"jobs", "print"}
  PROVE  /\ Len(sparse) = Len(switches.sparse) /\ Len(sparse) = clock \div PERIODIC_LOG_INTERVAL
         /\ log.seconds = (clock % PERIODIC_LOG_INTERVAL) + IF sparse = <<>> THEN 0 ELSE 1
         /\ \A n \in Lines :
              /\ sparse[n].seconds = PERIODIC_LOG_INTERVAL - IF n = 1 THEN 1 ELSE 0
              /\ \A t \in {"aggregation", "core"} :
                   SwitchDraw(t, n) = PERIODIC_LOG_INTERVAL * ReturnsEnergyConsumption(t)
<1>1. pc # "undefined" /\ LogTime = clock /\ SwitchTime = clock
  BY DEF LogTime, SwitchTime
<1>2. /\ Len(sparse) = clock \div PERIODIC_LOG_INTERVAL
      /\ log.seconds = (clock % PERIODIC_LOG_INTERVAL) + IF sparse = <<>> THEN 0 ELSE 1
      /\ \A n \in 1..Len(sparse) :
           sparse[n].seconds = PERIODIC_LOG_INTERVAL - IF n = 1 THEN 1 ELSE 0
  BY <1>1 DEF ReportInv, SecondsLogged, Started
<1>3. /\ Len(switches.sparse) = clock \div PERIODIC_LOG_INTERVAL
      /\ \A t \in {"aggregation", "core"} : \A n \in 1..Len(switches.sparse) :
           switches.sparse[n][t] = PERIODIC_LOG_INTERVAL * ReturnsEnergyConsumption(t)
  BY <1>1 DEF ReportInv, SwitchesLogged, Constant
<1>4. Lines = 1..Len(sparse)
  BY DEF Lines, ReportInv, AccountingInv, BooksOK
<1> QED  BY <1>2, <1>3, <1>4 DEF SwitchDraw

(* What the energies are sums of: the lines of a field of the log.          *)
LEMMA LoggedIsSum ==
  ASSUME BooksOK,
         NEW field \in {"seconds", "supply", "machines", "fans", "crac", "computing", "utilization"}
  PROVE  /\ Logged(field) = SumFunctionOnSet(Column(sparse, field), 1..Len(sparse))
         /\ Logged(field) \in Nat
         /\ \A n \in 1..Len(sparse) :
              Column(sparse, field)[n] = sparse[n][field] /\ sparse[n][field] \in Nat
         /\ Len(sparse) \in Nat /\ IsFiniteSet(1..Len(sparse))
         /\ Cardinality(1..Len(sparse)) = Len(sparse) /\ Lines = 1..Len(sparse)
<1>1. sparse \in Seq(LogEntry) /\ \A e \in LogEntry : e[field] \in Nat
  BY DEF BooksOK, LogEntry
<1>2. Len(sparse) \in Nat /\ DOMAIN sparse = 1..Len(sparse)
  BY <1>1
<1>3. /\ \A n \in 1..Len(sparse) :
           Column(sparse, field)[n] = sparse[n][field] /\ sparse[n][field] \in Nat
      /\ Total(Column(sparse, field)) \in Nat
  BY <1>1, ColumnIsSeq
<1>4. DOMAIN Column(sparse, field) = 1..Len(sparse)
  BY <1>2 DEF Column
<1>5. Total(Column(sparse, field)) = SumFunctionOnSet(Column(sparse, field), 1..Len(sparse))
  BY <1>4, TotalIsSum
<1>6. IsFiniteSet(1..Len(sparse)) /\ Cardinality(1..Len(sparse)) = Len(sparse)
  <2>1. /\ IsFiniteSet(1..Len(sparse))
        /\ Cardinality(1..Len(sparse)) = IF 1 > Len(sparse) THEN 0 ELSE Len(sparse) - 1 + 1
    BY <1>2, FS_Interval
  <2> QED  BY <1>2, <2>1
<1> QED  BY <1>2, <1>3, <1>5, <1>6, LoggedIsColumn DEF Lines

(* The first interval has a second less than the others.                    *)
LEMMA SecondsOfTheLog ==
  ASSUME ReportInv, pc = "print", sparse # <<>>
  PROVE  Logged("seconds") = Seconds - 1 /\ Seconds \in Nat
<1> USE DEF ReportInv, AccountingInv
<1> DEFINE D == 1..Len(sparse)
           seconds == Column(sparse, "seconds")
           all == [n \in D |-> PERIODIC_LOG_INTERVAL]
<1>1. PICK P \in Nat \ {0} : P = PERIODIC_LOG_INTERVAL
  BY AccountingAssumption
<1>2. /\ Logged("seconds") = SumFunctionOnSet(seconds, D)
      /\ \A n \in D : seconds[n] = sparse[n].seconds
      /\ Len(sparse) \in Nat /\ IsFiniteSet(D) /\ Cardinality(D) = Len(sparse) /\ Lines = D
  BY LoggedIsSum
<1>3. 1 \in D
  <2>1. sparse \in Seq(LogEntry)
    BY DEF BooksOK
  <2>2. Len(sparse) # 0
    BY <2>1
  <2> QED  BY <1>2, <2>2
<1>4. \A n \in D : sparse[n].seconds = P - IF n = 1 THEN 1 ELSE 0
  BY <1>1, <1>2, IntervalsFollow
<1>5. /\ \A n \in D : seconds[n] \in Int /\ all[n] \in Int /\ all[n] = P
      /\ \A n \in D \ {1} : seconds[n] = all[n]
      /\ seconds[1] = P - 1 /\ all[1] = P
  BY <1>1, <1>2, <1>3, <1>4
<1> HIDE DEF seconds, all, D
<1>6. SumFunctionOnSet(seconds, D) = SumFunctionOnSet(all, D) + seconds[1] - all[1]
  BY <1>2, <1>3, <1>5, SumOfChanged
<1>7. P \in Int
  OBVIOUS
<1>8. SumFunctionOnSet(all, D) = P * Cardinality(D)
  BY <1>2, <1>5, <1>7, SumOfSame
<1>9. Seconds = P * Len(sparse)
  BY <1>1 DEF Seconds
<1>10. P * Len(sparse) \in Nat
  BY <1>2
<1> QED  BY <1>2, <1>5, <1>6, <1>8, <1>9, <1>10

SumOfLevels(e) == e["access"] + e["aggregation"] + e["core"]

LEMMA LevelsAddUp ==
  ASSUME NEW e \in [SwitchLevels -> Nat]
  PROVE  Total(e) = SumOfLevels(e) /\ Total(e) \in Nat
<1>1. /\ IsFiniteSet({"core"}) /\ IsFiniteSet({"aggregation", "core"}) /\ IsFiniteSet(SwitchLevels)
      /\ IsFiniteSet({})
  <2>1. IsFiniteSet({})
    BY FS_EmptySet
  <2>2. IsFiniteSet({} \cup {"core"})
    BY <2>1, FS_AddElement
  <2>3. {} \cup {"core"} = {"core"}
    OBVIOUS
  <2>4. IsFiniteSet({"core"} \cup {"aggregation"})
    BY <2>2, <2>3, FS_AddElement
  <2>5. {"core"} \cup {"aggregation"} = {"aggregation", "core"}
    OBVIOUS
  <2>6. IsFiniteSet({"aggregation", "core"} \cup {"access"})
    BY <2>4, <2>5, FS_AddElement
  <2>7. {"aggregation", "core"} \cup {"access"} = SwitchLevels
    BY DEF SwitchLevels
  <2> QED  BY <2>1, <2>2, <2>3, <2>4, <2>5, <2>6, <2>7
<1>2. \A t \in {"access", "aggregation", "core"} : e[t] \in Nat
  BY DEF SwitchLevels
<1>3. SumFunctionOnSet(e, SwitchLevels) = e["access"] + SumFunctionOnSet(e, SwitchLevels \ {"access"})
  BY <1>1, <1>2, SumTakesAny DEF SwitchLevels
<1>4. SwitchLevels \ {"access"} = {"aggregation", "core"}
  BY DEF SwitchLevels
<1>5. SumFunctionOnSet(e, {"aggregation", "core"})
        = e["aggregation"] + SumFunctionOnSet(e, {"aggregation", "core"} \ {"aggregation"})
  BY <1>1, <1>2, SumTakesAny
<1>6. {"aggregation", "core"} \ {"aggregation"} = {"core"}
  OBVIOUS
<1>7. SumFunctionOnSet(e, {"core"}) = e["core"] + SumFunctionOnSet(e, {"core"} \ {"core"})
  BY <1>1, <1>2, SumTakesAny
<1>8. {"core"} \ {"core"} = {} /\ SumFunctionOnSet(e, {}) = 0
  BY SumOfNone
<1>9. Total(e) = SumFunctionOnSet(e, SwitchLevels)
  BY TotalIsSum
<1> QED  BY <1>2, <1>3, <1>4, <1>5, <1>6, <1>7, <1>8, <1>9 DEF SumOfLevels

(* The energies of the servers and of the CRAC, and of the switches, are    *)
(* those of the lines.                                                      *)
LEMMA LinesAddUp ==
  ASSUME ReportInv, pc = "print"
  PROVE  /\ EnergyTotal = Total([n \in Lines |-> TotalDraw(n)])
         /\ EnergySwitches = PowerSwitches[1] /\ EnergySwitches \in Nat
<1> USE DEF ReportInv, AccountingInv
<1> DEFINE D == 1..Len(sparse)
           m == Column(sparse, "machines")
           c == Column(sparse, "crac")
           level(t) == Column(switches.sparse, t)
           f1 == [n \in D |-> m[n] + c[n]]
           f2 == [n \in D |-> f1[n] + level("access")[n]]
           f3 == [n \in D |-> f2[n] + level("aggregation")[n]]
           f4 == [n \in D |-> f3[n] + level("core")[n]]
           S(f) == SumFunctionOnSet(f, D)
<1>1. /\ Logged("machines") = S(m) /\ \A n \in D : m[n] = sparse[n].machines /\ m[n] \in Int
      /\ IsFiniteSet(D) /\ Lines = D
  BY LoggedIsSum
<1>2. Logged("crac") = S(c) /\ \A n \in D : c[n] = sparse[n].crac /\ c[n] \in Int
  BY LoggedIsSum
<1>3. switches.sparse \in Seq([SwitchLevels -> Nat]) /\ switches.total \in [SwitchLevels -> Nat]
  BY DEF BooksOK
<1>4. D = 1..Len(switches.sparse) /\ DOMAIN switches.sparse = D
  BY <1>3, IntervalsFollow
<1>5. ASSUME NEW t \in SwitchLevels
      PROVE  /\ switches.total[t] = S(level(t)) /\ S(level(t)) \in Int
             /\ \A n \in D : level(t)[n] = switches.sparse[n][t] /\ level(t)[n] \in Int
  <2>1. \A e \in [SwitchLevels -> Nat] : e[t] \in Nat
    OBVIOUS
  <2>2. \A n \in D : level(t)[n] = switches.sparse[n][t] /\ switches.sparse[n][t] \in Nat
    BY <1>3, <1>4, <2>1, ColumnIsSeq
  <2>3. DOMAIN level(t) = D
    BY <1>4 DEF Column
  <2>4. Total(level(t)) = S(level(t))
    BY <2>3, TotalIsSum
  <2>5. switches.total[t] = Total(level(t))
    BY SwitchLogIsColumn DEF TotalsKept
  <2>6. switches.total[t] \in Nat
    BY <1>3
  <2> QED  BY <2>2, <2>4, <2>5, <2>6
<1>6. \A t \in {"access", "aggregation", "core"} : t \in SwitchLevels
  BY DEF SwitchLevels
<1>7. PICK a, g, o : a = level("access") /\ g = level("aggregation") /\ o = level("core")
  OBVIOUS
<1>8. \A n \in D : /\ m[n] \in Int /\ c[n] \in Int /\ a[n] \in Int /\ g[n] \in Int /\ o[n] \in Int
                   /\ a[n] = switches.sparse[n]["access"]
                   /\ g[n] = switches.sparse[n]["aggregation"]
                   /\ o[n] = switches.sparse[n]["core"]
  BY <1>1, <1>2, <1>5, <1>6, <1>7
<1>9. /\ switches.total["access"] = S(a) /\ switches.total["aggregation"] = S(g)
      /\ switches.total["core"] = S(o)
  BY <1>5, <1>6, <1>7
<1>10. /\ \A n \in D : f1[n] = m[n] + c[n]
       /\ \A n \in D : f2[n] = f1[n] + a[n]
       /\ \A n \in D : f3[n] = f2[n] + g[n]
       /\ \A n \in D : f4[n] = f3[n] + o[n]
       /\ DOMAIN f4 = D
  BY <1>7
<1>11. EnergyServers = Logged("machines") /\ EnergyCRAC = Logged("crac")
  BY DEF EnergyServers, EnergyCRAC
<1> HIDE DEF D, m, c, f1, f2, f3, f4, level
<1>12. /\ \A n \in D : f1[n] \in Int
       /\ \A n \in D : f2[n] \in Int
       /\ \A n \in D : f3[n] \in Int
       /\ \A n \in D : f4[n] \in Int
  <2>1. \A n \in D : f1[n] \in Int
    BY <1>8, <1>10
  <2>2. \A n \in D : f2[n] \in Int
    BY <1>8, <1>10, <2>1
  <2>3. \A n \in D : f3[n] \in Int
    BY <1>8, <1>10, <2>2
  <2>4. \A n \in D : f4[n] \in Int
    BY <1>8, <1>10, <2>3
  <2> QED  BY <2>1, <2>2, <2>3, <2>4
<1>13. S(f1) = S(m) + S(c)
  BY <1>1, <1>8, <1>10, <1>12, SumOfSums
<1>14. S(f2) = S(f1) + S(a)
  BY <1>1, <1>8, <1>10, <1>12, SumOfSums
<1>15. S(f3) = S(f2) + S(g)
  BY <1>1, <1>8, <1>10, <1>12, SumOfSums
<1>16. S(f4) = S(f3) + S(o)
  BY <1>1, <1>8, <1>10, <1>12, SumOfSums
<1>17. S(m) \in Int /\ S(c) \in Int /\ S(a) \in Int /\ S(g) \in Int /\ S(o) \in Int
  BY <1>1, <1>8, SumIsInt
<1>18. EnergySwitches = S(a) + S(g) + S(o) /\ EnergySwitches \in Nat
  BY <1>3, <1>9, LevelsAddUp DEF EnergySwitches, SumOfLevels
<1>19. \A n \in D : f4[n] = TotalDraw(n)
  <2> SUFFICES ASSUME NEW n \in D PROVE f4[n] = TotalDraw(n)
    OBVIOUS
  <2>1. PICK e \in [SwitchLevels -> Nat] : e = switches.sparse[n]
    <3>1. n \in 1..Len(switches.sparse)
      BY <1>4
    <3> QED  BY <1>3, <3>1, ElementOfSeq
  <2>2. SwitchesDraw(n) = a[n] + g[n] + o[n]
    BY <1>8, <2>1, LevelsAddUp DEF SwitchesDraw, SumOfLevels
  <2>3. TotalDraw(n) = m[n] + c[n] + (a[n] + g[n] + o[n])
    BY <1>1, <1>2, <2>2 DEF TotalDraw
  <2>4. f4[n] = m[n] + c[n] + a[n] + g[n] + o[n]
    BY <1>10
  <2> QED  BY <1>8, <2>3, <2>4
<1>20. f4 = [n \in Lines |-> TotalDraw(n)]
  <2>1. f4 = [n \in D |-> f4[n]]
    BY <1>10 DEF f4
  <2> QED  BY <1>1, <1>19, <2>1
<1>21. Total(f4) = S(f4)
  BY <1>10, TotalIsSum
<1>22. EnergyTotal = S(f4)
  BY <1>1, <1>2, <1>11, <1>13, <1>14, <1>15, <1>16, <1>17, <1>18 DEF EnergyTotal
<1>23. EnergySwitches = PowerSwitches[1]
  <2>1. \A t \in SwitchLevels : PowerSwitch(t)[1] = switches.total[t]
    BY DEF PowerSwitch, TotalsKept
  <2>2. [t \in SwitchLevels |-> PowerSwitch(t)[1]] = switches.total
    BY <1>3, <2>1
  <2> QED  BY <2>2 DEF EnergySwitches, PowerSwitches
<1> QED  BY <1>18, <1>20, <1>21, <1>22, <1>23

(* What the sums of the entries are bounded by. *)
LEMMA EntriesAddUp ==
  ASSUME ReportInv
  PROVE  /\ Logged("fans") <= Logged("machines")
         /\ Logged("machines") - Logged("fans") <= 2000 * Cardinality(All) * Logged("seconds")
         /\ Min(Supplies) * Logged("seconds") <= Logged("supply")
         /\ Logged("supply") <= Max(Supplies) * Logged("seconds")
<1> USE DEF ReportInv, AccountingInv
<1> DEFINE D == 1..Len(sparse)
           m == Column(sparse, "machines")
           f == Column(sparse, "fans")
           t == Column(sparse, "seconds")
           w == Column(sparse, "supply")
           S(g) == SumFunctionOnSet(g, D)
<1>1. /\ Logged("machines") = S(m) /\ \A n \in D : m[n] = sparse[n].machines /\ m[n] \in Nat
      /\ IsFiniteSet(D)
  BY LoggedIsSum
<1>2. Logged("fans") = S(f) /\ \A n \in D : f[n] = sparse[n].fans /\ f[n] \in Nat
  BY LoggedIsSum
<1>3. Logged("seconds") = S(t) /\ \A n \in D : t[n] = sparse[n].seconds /\ t[n] \in Nat
  BY LoggedIsSum
<1>4. Logged("supply") = S(w) /\ \A n \in D : w[n] = sparse[n].supply /\ w[n] \in Nat
  BY LoggedIsSum
<1>5. PICK low \in Nat, high \in Nat, most \in Nat :
        low = Min(Supplies) /\ high = Max(Supplies) /\ most = 2000 * Cardinality(All)
  <2>1. Min(Supplies) \in Nat /\ Max(Supplies) \in Nat
    BY SuppliesBetween
  <2>2. 2000 * Cardinality(All) \in Nat
    BY AllIsFinite
  <2> QED  BY <2>1, <2>2
<1>6. \A n \in D : /\ f[n] <= m[n] /\ m[n] - f[n] <= most * t[n]
                   /\ low * t[n] <= w[n] /\ w[n] <= high * t[n]
  <2> SUFFICES ASSUME NEW n \in D
               PROVE  /\ f[n] <= m[n] /\ m[n] - f[n] <= most * t[n]
                      /\ low * t[n] <= w[n] /\ w[n] <= high * t[n]
    OBVIOUS
  <2>1. Sound(sparse[n], peakPower)
    BY DEF EntriesSound
  <2>2. /\ m[n] = sparse[n].machines /\ f[n] = sparse[n].fans
        /\ t[n] = sparse[n].seconds /\ w[n] = sparse[n].supply
    BY <1>1, <1>2, <1>3, <1>4
  <2> HIDE DEF D, m, f, t, w
  <2> QED  BY <1>5, <2>1, <2>2 DEF Sound
<1> HIDE DEF D, m, f, t, w
<1> DEFINE rest == [n \in D |-> m[n] - f[n]]
           times(x) == [n \in D |-> x * t[n]]
<1>7. \A x \in Nat : S(times(x)) = x * S(t) /\ \A n \in D : times(x)[n] \in Int
  <2> SUFFICES ASSUME NEW x \in Nat
               PROVE  S(times(x)) = x * S(t) /\ \A n \in D : times(x)[n] \in Int
    OBVIOUS
  <2>1. PICK g : g = times(x)
    OBVIOUS
  <2>2. \A n \in D : t[n] \in Int /\ g[n] \in Int /\ g[n] = x * t[n]
    <3> SUFFICES ASSUME NEW n \in D PROVE t[n] \in Int /\ g[n] \in Int /\ g[n] = x * t[n]
      OBVIOUS
    <3>1. t[n] \in Nat /\ g[n] = x * t[n]
      BY <1>3, <2>1
    <3> QED  BY <3>1, ProductIsNat
  <2>3. x \in Int
    OBVIOUS
  <2>4. S(g) = x * S(t)
    BY <1>1, <2>2, <2>3, SumOfMultiples
  <2> QED  BY <2>1, <2>2, <2>4
<1>8. /\ \A n \in D : rest[n] \in Int /\ m[n] = f[n] + rest[n]
      /\ \A n \in D : m[n] \in Int /\ f[n] \in Int /\ w[n] \in Int
  BY <1>1, <1>2, <1>4
<1>9. PICK a, b, c : a = times(most) /\ b = times(low) /\ c = times(high)
  OBVIOUS
<1>10. \A n \in D : /\ rest[n] <= a[n] /\ b[n] <= w[n] /\ w[n] <= c[n]
  BY <1>6, <1>9
<1>11. /\ \A n \in D : a[n] \in Int /\ b[n] \in Int /\ c[n] \in Int
       /\ S(a) = most * S(t) /\ S(b) = low * S(t) /\ S(c) = high * S(t)
  BY <1>7, <1>9
<1> HIDE DEF rest, times
<1>12. S(f) <= S(m)
  BY <1>1, <1>6, <1>8, SumAtMost
<1>13. S(m) = S(f) + S(rest)
  BY <1>1, <1>8, SumOfSums
<1>14. S(rest) <= S(a) /\ S(b) <= S(w) /\ S(w) <= S(c)
  BY <1>1, <1>8, <1>10, <1>11, SumAtMost
<1>15. S(f) \in Int /\ S(rest) \in Int
  BY <1>1, <1>8, SumIsInt
<1>16. S(m) - S(f) <= S(a)
  BY <1>13, <1>14, <1>15
<1> QED  BY <1>1, <1>2, <1>3, <1>4, <1>5, <1>11, <1>12, <1>14, <1>16

LEMMA EnergiesFollow ==
  ASSUME ReportInv, pc = "print", sparse # <<>>
  PROVE  EnergiesAgree
<1> USE DEF ReportInv, AccountingInv
<1>1. EnergyTotal = Total([n \in Lines |-> TotalDraw(n)])
  BY LinesAddUp
<1>2. PICK m \in Nat, c \in Nat, f \in Nat, t \in Nat, w \in Nat :
        /\ m = Logged("machines") /\ c = Logged("crac") /\ f = Logged("fans")
        /\ t = Logged("seconds") /\ w = Logged("supply")
  BY LoggedIsSum
<1>3. PICK o \in Nat : o = EnergySwitches
  BY LinesAddUp
<1>4. PICK s \in Nat : s = Seconds /\ t = s - 1
  BY <1>2, SecondsOfTheLog
<1>5. SwitchSeconds = s
  BY <1>4, IntervalsFollow DEF SwitchSeconds, Seconds
<1>6. PowerSwitches = <<o, s>>
  BY <1>3, <1>5, LinesAddUp DEF PowerSwitches
<1>7. /\ PowerServers = <<m, s>> /\ PowerFans = <<f, s>> /\ PowerCRAC = <<c, s>>
      /\ PowerComputing = <<m - f, s>> /\ SupplyTemperature = <<w, s>>
  BY <1>2, <1>4 DEF PowerServers, PowerFans, PowerCRAC, PowerComputing, SupplyTemperature, Average
<1>8. /\ EnergyServers = m /\ EnergyFans = f /\ EnergyCRAC = c /\ EnergyComputing = m - f
      /\ EnergyTotal = m + c + o
  BY <1>2, <1>3 DEF EnergyServers, EnergyFans, EnergyCRAC, EnergyComputing, EnergyTotal
<1>9. Equal(PowerTotal, <<EnergyTotal, Seconds>>)
  <2>1. PowerTotal = <<(m + c) * s + o * s, s * s>>
    BY <1>4, <1>6, <1>7 DEF PowerTotal, Plus
  <2>2. ((m + c) * s + o * s) * s = (m + c + o) * (s * s)
    OBVIOUS
  <2> QED  BY <1>4, <1>8, <2>1, <2>2 DEF Equal
<1>10. Equal(PUE, <<EnergyTotal, EnergyServers + EnergySwitches>>)
  <2>1. PUE = <<m + c + o, m + o>>
    BY <1>6, <1>7 DEF PUE
  <2>2. (m + c + o) * (m + o) = (m + o) * (m + c + o)
    OBVIOUS
  <2> QED  BY <1>3, <1>8, <2>1, <2>2 DEF Equal
<1>11. Equal(tPUE, <<EnergyServers + EnergyCRAC, EnergyComputing>>)
  <2>1. tPUE = <<m + c, m - f>>
    BY <1>7 DEF tPUE
  <2>2. (m + c) * (m - f) = (m - f) * (m + c)
    OBVIOUS
  <2> QED  BY <1>8, <2>1, <2>2 DEF Equal
<1>12. \A n \in Lines : sparse[n].machines + sparse[n].crac <= sparse[n].seconds * peakPower
  <2>1. Lines = 1..Len(sparse)
    BY LoggedIsSum
  <2> QED  BY <2>1 DEF EntriesSound, Sound
<1>13. /\ f <= m /\ m - f <= 2000 * Cardinality(All) * t
       /\ Min(Supplies) * t <= w /\ w <= Max(Supplies) * t
  BY <1>2, EntriesAddUp
<1>14. EnergyComputing \in 0..2 * cpuTDP * Cardinality(All) * Logged("seconds")
  <2>1. PICK most \in Nat : most = 2000 * Cardinality(All) /\ most = 2 * cpuTDP * Cardinality(All)
    BY AllIsFinite DEF cpuTDP
  <2>2. most * t \in Nat /\ m - f <= most * t
    BY <1>13, <2>1
  <2>3. m - f \in 0..most * t
    BY <1>13, <2>2
  <2> QED  BY <1>2, <1>8, <2>1, <2>3
<1>15. SupplyTemperature[1] \in Min(Supplies) * (Seconds - 1)..Max(Supplies) * (Seconds - 1)
  <2>1. PICK low \in Nat, high \in Nat : low = Min(Supplies) /\ high = Max(Supplies)
    BY SuppliesBetween
  <2>2. low * t \in Nat /\ high * t \in Nat /\ low * t <= w /\ w <= high * t
    BY <1>13, <2>1
  <2>3. w \in low * t..high * t
    BY <2>2
  <2> QED  BY <1>4, <1>7, <2>1, <2>3
<1> QED  BY <1>1, <1>9, <1>10, <1>11, <1>12, <1>14, <1>15 DEF EnergiesAgree

(* The counter of one value may be taken out. *)
Without(w, c, k) == [n \in DOMAIN c \ {k} |-> w[n] * c[n]]

TakenOut(w, c, k) == Weighed(w, c) = Total(Without(w, c, k)) + w[k] * Counter(c, k)

LEMMA WithoutOne ==
  ASSUME NEW w \in [Nat -> Nat], NEW c, IsArray(c), NEW k \in Nat
  PROVE  TakenOut(w, c, k)
<1> SUFFICES Weighed(w, c)
               = Total([n \in DOMAIN c \ {k} |-> w[n] * c[n]]) + w[k] * Counter(c, k)
  BY DEF TakenOut, Without
<1> DEFINE D == DOMAIN c
           f == [n \in D |-> w[n] * c[n]]
           g == [n \in D \ {k} |-> w[n] * c[n]]
<1>1. IsFiniteSet(D) /\ \A n \in D : f[n] \in Int /\ c[n] \in Nat /\ n \in Nat
  <2>1. IsFiniteSet(D) /\ \A n \in D : c[n] \in Nat /\ n \in Nat
    BY DEF IsArray
  <2>2. ASSUME NEW n \in D PROVE f[n] \in Int
    <3>1. w[n] \in Nat /\ c[n] \in Nat
      BY <2>1
    <3> QED  BY <3>1, ProductIsNat
  <2> QED  BY <2>1, <2>2
<1>2. IsFiniteSet(D \ {k})
  BY <1>1, FS_Subset
<1>3. \A n \in D \ {k} : f[n] \in Int /\ f[n] = g[n]
  BY <1>1
<1>4. Weighed(w, c) = SumFunctionOnSet(f, D) /\ DOMAIN g = D \ {k}
  BY DEF Weighed
<1>5. w[k] * 0 = 0
  OBVIOUS
<1>6. k \in D => f[k] = w[k] * c[k]
  OBVIOUS
<1> HIDE DEF f, g
<1>7. Total(g) = SumFunctionOnSet(g, D \ {k})
  BY <1>4, TotalIsSum
<1>8. SumFunctionOnSet(f, D \ {k}) = SumFunctionOnSet(g, D \ {k}) /\ SumFunctionOnSet(f, D \ {k}) \in Int
  BY <1>2, <1>3, SumsAgree, SumIsInt
<1>9. CASE k \in D
  <2>1. SumFunctionOnSet(f, D) = f[k] + SumFunctionOnSet(f, D \ {k})
    BY <1>1, <1>9, SumTakesAny
  <2>2. Counter(c, k) = c[k] /\ f[k] \in Int
    BY <1>1, <1>9 DEF Counter
  <2>3. Weighed(w, c) = Total(g) + f[k]
    BY <1>4, <1>7, <1>8, <2>1, <2>2
  <2> QED  BY <1>6, <1>9, <2>2, <2>3 DEF g
<1>10. CASE k \notin D
  <2>1. D \ {k} = D /\ Counter(c, k) = 0
    BY <1>10 DEF Counter
  <2>2. Weighed(w, c) = Total(g) + 0
    BY <1>4, <1>7, <1>8, <2>1
  <2> QED  BY <1>5, <2>1, <2>2 DEF g
<1> QED  BY <1>9, <1>10

LEMMA DistributionsFollow ==
  ASSUME ReportInv, pc = "print"
  PROVE  LET load100 == Counter(distribution.utilization, 100)
         IN  /\ Total([n \in DOMAIN UtilizationLines |-> n * UtilizationLines[n]]) + 100 * load100
                  = perDataCenterUtilization
             /\ Total(UtilizationLines) + load100
                  = Total(TemperatureLines) + Counter(distribution.temperature, 100)
<1> USE DEF ReportInv, AccountingInv
<1> DEFINE u == distribution.utilization
           t == distribution.temperature
<1>1. IsArray(u) /\ IsArray(t)
  BY DEF BooksOK
<1>2. Numbers \in [Nat -> Nat] /\ Ones \in [Nat -> Nat] /\ Numbers[100] = 100 /\ Ones[100] = 1
  BY DEF Numbers, Ones
<1>3. /\ \A n \in DOMAIN u : n \in Nat /\ Numbers[n] = n /\ Ones[n] = 1 /\ u[n] \in Nat
      /\ \A n \in DOMAIN t : n \in Nat /\ Ones[n] = 1 /\ t[n] \in Nat
  BY <1>1 DEF IsArray, Numbers, Ones
<1>4. /\ UtilizationLines = [n \in DOMAIN u \ {100} |-> u[n]]
      /\ TemperatureLines = [n \in DOMAIN t \ {100} |-> t[n]]
  BY DEF UtilizationLines, TemperatureLines
<1>5. [n \in DOMAIN UtilizationLines |-> n * UtilizationLines[n]]
        = [n \in DOMAIN u \ {100} |-> Numbers[n] * u[n]]
  BY <1>3, <1>4
<1>6. /\ UtilizationLines = [n \in DOMAIN u \ {100} |-> Ones[n] * u[n]]
      /\ TemperatureLines = [n \in DOMAIN t \ {100} |-> Ones[n] * t[n]]
  BY <1>3, <1>4
<1>7. Counter(u, 100) \in Nat /\ Counter(t, 100) \in Nat
  BY <1>3 DEF Counter
<1>8. /\ Weighed(Numbers, u) = perDataCenterUtilization
      /\ Weighed(Ones, u) = Weighed(Ones, t)
  BY DEF LoadsCounted, ServersCounted, BooksOK
<1> HIDE DEF u, t
<1>9. 100 \in Nat
  OBVIOUS
<1>10. Weighed(Numbers, u)
         = Total([n \in DOMAIN u \ {100} |-> Numbers[n] * u[n]]) + Numbers[100] * Counter(u, 100)
  <2>1. TakenOut(Numbers, u, 100)
    BY <1>1, <1>2, <1>9, WithoutOne
  <2> QED  BY <2>1 DEF TakenOut, Without
<1>11. Weighed(Ones, u)
         = Total([n \in DOMAIN u \ {100} |-> Ones[n] * u[n]]) + Ones[100] * Counter(u, 100)
  <2>1. TakenOut(Ones, u, 100)
    BY <1>1, <1>2, <1>9, WithoutOne
  <2> QED  BY <2>1 DEF TakenOut, Without
<1>12. Weighed(Ones, t)
         = Total([n \in DOMAIN t \ {100} |-> Ones[n] * t[n]]) + Ones[100] * Counter(t, 100)
  <2>1. TakenOut(Ones, t, 100)
    BY <1>1, <1>2, <1>9, WithoutOne
  <2> QED  BY <2>1 DEF TakenOut, Without
<1>13. Ones[100] * Counter(u, 100) = Counter(u, 100) /\ Ones[100] * Counter(t, 100) = Counter(t, 100)
  BY <1>2, <1>7
<1>14. Total([n \in DOMAIN UtilizationLines |-> n * UtilizationLines[n]]) + 100 * Counter(u, 100)
         = perDataCenterUtilization
  BY <1>2, <1>5, <1>8, <1>10
<1>15. Total(UtilizationLines) + Counter(u, 100) = Total(TemperatureLines) + Counter(t, 100)
  BY <1>6, <1>8, <1>11, <1>12, <1>13, ZenonT(60)
<1> QED  BY <1>14, <1>15 DEF u, t

LEMMA ServersFollow ==
  ASSUME ReportInv, pc = "print", NEW i \in Chassis, NEW j \in Servers
  PROVE  LET over == ServerOverEmergency(<<i, j>>)
         IN  /\ ChassisTemperature(i)[1]
                  >= (EMERGENCY_TEMPERATURE + 1) * over + Min({0} \cup Inlets) * clock
             /\ ServerDVFSChanged(<<i, j>>) <= 2 * over
             /\ over <= ChassisOverEmergency(i)[1]
<1> USE DEF ReportInv, AccountingInv
<1> DEFINE s == <<i, j>>
<1>1. s \in All /\ s[1] = i
  BY DEF All
<1>13. Chilled = Min({0} \cup Inlets) * clock /\ Chilled \in Int
  <2>1. LogTime = clock /\ clock \in Int
    BY AccountingAssumption DEF LogTime, TypeOK
  <2>2. PICK c \in Int, n \in Int : c = Coldest /\ n = clock
    BY <2>1, ColdestIsLeast
  <2>3. Chilled = c * n /\ c * n \in Int
    BY <2>1, <2>2 DEF Chilled
  <2> QED  BY <2>2, <2>3 DEF Coldest
<1>2. /\ EMERGENCY_TEMPERATURE \in Nat /\ perChassis[i].temperature \in Int
      /\ overEmergency[s] \in Nat /\ dvfs[s] \in Nat
      /\ HotAhead(i) \in {0, 1} /\ Slow(s) \in {0, 1}
  BY <1>1, HotTyped
<1>3. /\ (EMERGENCY_TEMPERATURE + 1) * (overEmergency[s] + HotAhead(i)) + Chilled
           <= perChassis[i].temperature
      /\ dvfs[s] + Slow(s) <= 2 * overEmergency[s]
  BY <1>1 DEF HotSeconds
<1>4. PICK e \in Nat, over \in Nat, ahead \in {0, 1} :
        e = EMERGENCY_TEMPERATURE + 1 /\ over = overEmergency[s] /\ ahead = HotAhead(i)
  <2>1. EMERGENCY_TEMPERATURE + 1 \in Nat
    BY <1>2
  <2> QED  BY <1>2, <2>1
<1>5. e * over <= e * (over + ahead) /\ e * over \in Nat /\ e * (over + ahead) \in Nat
  <2>1. e * (over + ahead) = e * over + e * ahead /\ e * ahead \in Nat /\ e * over \in Nat
    OBVIOUS
  <2> QED  BY <2>1
<1>6. e * over + Chilled <= perChassis[i].temperature
  BY <1>2, <1>3, <1>4, <1>5, <1>13
<1>7. dvfs[s] <= 2 * over
  BY <1>2, <1>3, <1>4
<1> DEFINE row == [k \in Servers |-> overEmergency[<<i, k>>]]
<1>8. /\ \A k \in Servers : row[k] \in Nat
      /\ row[j] = over /\ DOMAIN row = Servers
  <2>1. \A k \in Servers : <<i, k>> \in All
    BY DEF All
  <2>2. \A p \in All : overEmergency[p] \in Nat
    BY AccountingAssumption DEF TypeOK
  <2> QED  BY <1>4, <2>1, <2>2
<1>9. ChassisOverEmergency(i)[1] = Total(row)
  BY DEF ChassisOverEmergency
<1> HIDE DEF row
<1>10. over <= Total(row)
  <2>1. IsFiniteSet(Servers) /\ IsFiniteSet(Servers \ {j})
    BY AccountingAssumption, FS_Subset
  <2>2. SumFunctionOnSet(row, Servers) = row[j] + SumFunctionOnSet(row, Servers \ {j})
    BY <1>8, <2>1, SumTakesAny
  <2>3. SumFunctionOnSet(row, Servers \ {j}) \in Nat
    BY <1>8, <2>1, SumIsNat
  <2>4. Total(row) = SumFunctionOnSet(row, Servers)
    BY <1>8, TotalIsSum
  <2> QED  BY <1>8, <2>2, <2>3, <2>4
<1>11. ChassisTemperature(i)[1] = perChassis[i].temperature
  BY DEF ChassisTemperature
<1>12. ServerOverEmergency(s) = over /\ ServerDVFSChanged(s) = dvfs[s]
  BY <1>4 DEF ServerOverEmergency, ServerDVFSChanged
<1> QED  BY <1>2, <1>4, <1>5, <1>6, <1>7, <1>9, <1>10, <1>11, <1>12, <1>13

LEMMA ChassisFollow ==
  ASSUME ReportInv, pc = "print", sparse # <<>>
  PROVE  ChassisAgree
<1> USE DEF ReportInv, AccountingInv
<1>1. TotalMigrations = Total([n \in Lines |-> MigrationsLine(n)])
  <2>1. migrations.sparse \in Seq(Nat) /\ sparse \in Seq(LogEntry)
    BY DEF BooksOK
  <2>2. Len(migrations.sparse) = Len(sparse) /\ migrations.total = Total(migrations.sparse)
    BY DEF TotalsKept
  <2>3. DOMAIN migrations.sparse = Lines
    BY <2>1, <2>2 DEF Lines
  <2>4. migrations.sparse = [n \in Lines |-> migrations.sparse[n]]
    BY <2>1, <2>3
  <2> QED  BY <2>2, <2>4 DEF TotalMigrations, MigrationsLine
<1>2. /\ Logged("machines") + log.machines = Total([i \in Chassis |-> perChassis[i].power])
      /\ Logged("computing") + log.computing = Total([i \in Chassis |-> perChassis[i].computing])
      /\ Logged("utilization") + log.utilization = perDataCenterUtilization
  BY DEF EnergyBooked
<1>3. Total([i \in Chassis |-> ChassisPower(i)[1]]) = EnergyServers + log.machines
  <2>1. \A i \in Chassis : ChassisPower(i)[1] = perChassis[i].power
    BY DEF ChassisPower
  <2>2. [i \in Chassis |-> ChassisPower(i)[1]] = [i \in Chassis |-> perChassis[i].power]
    BY <2>1
  <2> QED  BY <1>2, <2>2 DEF EnergyServers
<1>4. Total([i \in Chassis |-> ChassisComputing(i)[1]]) = Logged("computing") + log.computing
  <2>1. \A i \in Chassis : ChassisComputing(i)[1] = perChassis[i].computing
    BY DEF ChassisComputing
  <2>2. [i \in Chassis |-> ChassisComputing(i)[1]] = [i \in Chassis |-> perChassis[i].computing]
    BY <2>1
  <2> QED  BY <1>2, <2>2
<1>5. \A i \in Chassis, j \in Servers :
        LET over == ServerOverEmergency(<<i, j>>)
        IN  /\ ChassisTemperature(i)[1]
                 >= (EMERGENCY_TEMPERATURE + 1) * over + Min({0} \cup Inlets) * clock
            /\ ServerDVFSChanged(<<i, j>>) <= 2 * over
            /\ over <= ChassisOverEmergency(i)[1]
  BY ServersFollow
<1>6. AverageUtilization[1] = perDataCenterUtilization
  BY DEF AverageUtilization
<1>7. Total([n \in Lines |-> UtilizationLog(n)[1]]) + log.utilization = AverageUtilization[1]
  <2>1. \A n \in Lines : UtilizationLog(n)[1] = sparse[n].utilization
    BY DEF UtilizationLog
  <2>2. [n \in Lines |-> UtilizationLog(n)[1]] = [n \in DOMAIN sparse |-> sparse[n]["utilization"]]
    BY <2>1 DEF Lines
  <2> QED  BY <1>2, <1>6, <2>2 DEF Logged
<1>8. LET load100 == Counter(distribution.utilization, 100)
      IN  /\ Total([n \in DOMAIN UtilizationLines |-> n * UtilizationLines[n]]) + 100 * load100
               = AverageUtilization[1]
          /\ Total(UtilizationLines) + load100
               = Total(TemperatureLines) + Counter(distribution.temperature, 100)
  BY <1>6, DistributionsFollow
<1> QED  BY <1>1, <1>3, <1>4, <1>5, <1>7, <1>8 DEF ChassisAgree

LEMMA ReportFollows == ReportInv => IntervalsAddUp
<1> SUFFICES ASSUME ReportInv PROVE IntervalsAddUp
  OBVIOUS
<1>1. ASSUME pc \in {"jobs", "print"}
      PROVE  /\ Len(sparse) = Len(switches.sparse) /\ Len(sparse) = clock \div PERIODIC_LOG_INTERVAL
             /\ log.seconds = (clock % PERIODIC_LOG_INTERVAL) + IF sparse = <<>> THEN 0 ELSE 1
             /\ \A n \in Lines :
                  /\ sparse[n].seconds = PERIODIC_LOG_INTERVAL - IF n = 1 THEN 1 ELSE 0
                  /\ \A t \in {"aggregation", "core"} :
                       SwitchDraw(t, n) = PERIODIC_LOG_INTERVAL * ReturnsEnergyConsumption(t)
  BY <1>1, IntervalsFollow
<1>2. ASSUME pc = "print", sparse # <<>> PROVE EnergiesAgree /\ ChassisAgree
  BY <1>2, EnergiesFollow, ChassisFollow
<1> QED  BY <1>1, <1>2 DEF IntervalsAddUp

(* What is printed at the end adds up (DataCenter.cpp:361, 450): the logs   *)
(* of the servers, of the switches and of the policies cover the same       *)
(* intervals, the energies are those of the powers and of the lines, and    *)
(* the books of the chassis, the averages and the distributions agree.  The *)
(* servers sense LOWEST_SUPPLY_TEMPERATURE in the first second and what is  *)
(* logged is what they sense in the next: were the first over the emergency *)
(* temperature, it would be in no log (Constants.h:7, 8).                   *)
THEOREM ReportAddsUp == Spec => []IntervalsAddUp
BY InitReportInv, NextReportInv, ReportFollows, PTL DEF Spec

=============================================================================
