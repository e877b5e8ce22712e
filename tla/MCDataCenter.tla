---------------------------- MODULE MCDataCenter ----------------------------
(* Model checking of DataCenter: job 1 is one long VM, job 2 two short ones. *)
EXTENDS DataCenter, TLC

MCnumCPUs == [j \in Jobs |-> j]

MCrunTimeSec == [j \in Jobs |-> 3 - j]

(* The servers are interchangeable: nothing chooses one by its name.       *)
ServerSymmetry == Permutations(Servers)

=============================================================================
