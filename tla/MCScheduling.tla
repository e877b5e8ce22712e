---------------------------- MODULE MCScheduling ----------------------------
(* Model checking of Scheduling: the second server is in a chassis with     *)
(* much heat recirculation, the third is the first of the center rack.      *)
EXTENDS Scheduling

MCHeatRecirculationMatrixD ==
  [i \in Servers |-> [j \in Servers |-> IF j = 2 THEN (IF i = 1 THEN 5 ELSE i - 1) ELSE 0]]

MCCenterRank == [s \in Servers |-> 3 - s]

MCMaxUtilization == [t \in Temperatures |-> IF t > 29 THEN 9 ELSE 10]

MCUtilizations == {0, 6, NaN}

=============================================================================
