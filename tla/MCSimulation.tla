---------------------------- MODULE MCSimulation ----------------------------
(* Model checking of Simulation: all traces of two or three lines with      *)
(* these fields.  The first two lines are numbered against their order, and *)
(* the third asks for one VM.                                               *)
EXTENDS Simulation

CONSTANTS Submits, Dependencies

(* A job of each size: half of a core by the least CPU time there is, all  *)
(* of it for want of a time, and a third.                                  *)
AvgCPUTime(job) == CASE job = 1 -> 0 [] job = 2 -> -1 [] OTHER -> 1

RunTime(job) == IF job = 3 THEN 3 ELSE 2

Line(job, CPUs) ==
  [job : {job}, submit : Submits, dependency : Dependencies, numCPUs : CPUs,
   runTimeSec : {0, RunTime(job)}, avgCPUTimeSec : {AvgCPUTime(job)}]

MCTraces ==
  {<<a, b>> : a \in Line(2, {1, 2}), b \in Line(1, {0, 2})} \cup
  {<<a, b, c>> : a \in Line(2, {2}), b \in Line(1, {2}), c \in Line(3, {1})}

=============================================================================
