----------------------------- MODULE MCPolicies -----------------------------
(* Model checking of Policies. *)
EXTENDS Policies

(* Only the utilisations matter to PoliceLowUtilization.  It sorts by      *)
(* them, so one assignment of a choice of loads stands for all.            *)
Cold == [s \in Servers |-> 20]

LowSituations ==
  {[police |-> "low", active |-> Servers, isPOOL |-> {}, vms |-> vs,
    inlet |-> Cold, supply |-> Cold, beyond |-> {}] :
     vs \in {v \in [Servers -> {<<>>, <<1>>, <<3>>, <<5>>}] :
              \A s, t \in Servers : s < t => SumFunction(v[s]) <= SumFunction(v[t])}}

(* Three active servers, hot ones first, with air of 26 to 30 degrees to   *)
(* cool them, and one or two servers in the pool; a server may be outside  *)
(* of the array of estimates.                                              *)
Airs == {<<26, 27>>, <<28, 31>>, <<29, 31>>, <<30, 30>>}

HighSituation(rest, vs, air) ==
  [police |-> "high", active |-> {1, 2, 3}, isPOOL |-> rest[1],
   vms |-> [s \in Servers |-> IF s \in 1..3 THEN vs[s] ELSE <<>>],
   inlet |-> [s \in Servers |-> IF s \in 1..3 THEN air[s][2] ELSE 20 + s],
   supply |-> [s \in Servers |-> IF s \in 1..3 THEN air[s][1] ELSE 26],
   beyond |-> rest[2]]

HighSituations ==
  LET loads == [1..3 -> {<<3>>, <<1, 1, 1, 1>>, <<8>>}]
      airs == {a \in [1..3 -> Airs] : a[1][2] >= a[2][2] /\ a[2][2] >= a[3][2]}
  IN  {HighSituation(<<pool, {}>>, vs, air) : pool \in {{4}, {4, 5}}, vs \in loads, air \in airs}
        \cup {HighSituation(<<{4}, {3}>>, vs, air) :
                vs \in loads, air \in {a \in airs : a[3][1] = 26}}

MCSituations == LowSituations \cup HighSituations

=============================================================================
