------------------------------ MODULE QuickSort ------------------------------
(* quickSort (QuickSort.cpp), which puts the candidates of the 2D          *)
(* schedulers in the order of their ranking, as it runs: the two scans of  *)
(* a pass look for their stop without testing any bound.  A ranking that   *)
(* is not a number compares as false with everything.                      *)
EXTENDS Integers, Sequences, FiniteSets

CONSTANTS
  Rankings,       \* numbers
  Unordered,      \* a ranking that is not a number
  MaxCandidates   \* bound of the model

ASSUME QuickSortAssumption ==
  Rankings \subseteq Int /\ Unordered \notin Rankings /\ MaxCandidates \in Nat

VARIABLES
  at,             \* "call", "scan" or "sorted"
  server,         \* the rankings, from 0
  given,          \* the rankings as they were passed
  calls,          \* calls of quickSort still to make: begin and end
  begin, end,     \* of the call that runs
  i, j, half

sortVars == <<at, server, given, calls, begin, end, i, j, half>>

Less(a, b) == a \in Rankings /\ b \in Rankings /\ a < b

SortInit ==
  /\ at = "call"
  /\ \E n \in 1..MaxCandidates : server \in [0..(n - 1) -> Rankings \cup {Unordered}]
  /\ given = server
  /\ calls = <<[begin |-> 0, end |-> Cardinality(DOMAIN server) - 1]>>
  /\ begin = 0 /\ end = 0 /\ i = 0 /\ j = 0 /\ half = Unordered

Call ==
  /\ at = "call" /\ calls # <<>>
  /\ begin' = Head(calls).begin /\ end' = Head(calls).end
  /\ i' = begin' /\ j' = end'
  /\ half' = server[(begin' + end') \div 2]
  /\ calls' = Tail(calls)
  /\ at' = "scan"
  /\ UNCHANGED <<server, given>>

(* Where the two scans may stop: each stops at the first it comes to.      *)
Up == {k \in DOMAIN server : k >= i /\ ~ Less(server[k], half)}
Down == {k \in DOMAIN server : k <= j /\ ~ Less(half, server[k])}

FirstUp(u) == u \in Up /\ \A k \in Up : u <= k
FirstDown(d) == d \in Down /\ \A k \in Down : k <= d

Exchanged(u, d) == [server EXCEPT ![u] = server[d], ![d] = server[u]]

(* One round of the do loop.  Mutant: a server in its place is not stepped *)
(* over.                                                                   *)
ExchangeDifferent ==
  /\ at = "scan"
  /\ \E u, d \in DOMAIN server :
       /\ FirstUp(u) /\ FirstDown(d)
       /\ server' = IF u < d THEN Exchanged(u, d) ELSE server
       /\ i' = IF u < d THEN u + 1 ELSE u
       /\ j' = IF u < d THEN d - 1 ELSE d
       /\ at' = IF i' < j' THEN "scan" ELSE "split"
  /\ UNCHANGED <<given, calls, begin, end, half>>

Exchange ==
  /\ at = "scan"
  /\ \E u, d \in DOMAIN server :
       /\ FirstUp(u) /\ FirstDown(d)
       /\ server' = IF u <= d THEN Exchanged(u, d) ELSE server
       /\ i' = IF u <= d THEN u + 1 ELSE u
       /\ j' = IF u <= d THEN d - 1 ELSE d
       /\ at' = IF i' <= j' THEN "scan" ELSE "split"
  /\ UNCHANGED <<given, calls, begin, end, half>>

(* The two parts, the lower first. *)
Split ==
  /\ at = "split"
  /\ calls' = (IF begin < j THEN <<[begin |-> begin, end |-> j]>> ELSE <<>>)
              \o (IF i < end THEN <<[begin |-> i, end |-> end]>> ELSE <<>>) \o calls
  /\ at' = IF calls' = <<>> THEN "sorted" ELSE "call"
  /\ UNCHANGED <<server, given, begin, end, i, j, half>>

SortNext == Call \/ Exchange \/ Split

SortSpec == SortInit /\ [][SortNext]_sortVars /\ WF_sortVars(SortNext)

-----------------------------------------------------------------------------
(* Both scans of every round stop inside the part that is sorted, with     *)
(* rankings that are not numbers too, and every part handed on is a real   *)
(* part of it: no entry outside the array is read and the recursion ends.  *)
ScansStayInside ==
  /\ at = "scan" => /\ \E k \in Up : k <= end
                    /\ \E k \in Down : k >= begin
  /\ at = "split" => /\ j < end /\ begin < i
  /\ \A n \in DOMAIN calls : calls[n].begin \in DOMAIN server /\ calls[n].end \in DOMAIN server

(* The entries of one array in another order. *)
Rearranged(f, g) ==
  \E p \in [DOMAIN g -> DOMAIN g] :
    /\ \A k, n \in DOMAIN g : p[k] = p[n] => k = n
    /\ f = [k \in DOMAIN g |-> g[p[k]]]

(* At the end the servers are those that were passed, and in order if all  *)
(* rankings are numbers.                                                   *)
SortedAtEnd ==
  at = "sorted" =>
    /\ Rearranged(server, given)
    /\ (\A k \in DOMAIN given : given[k] \in Rankings) =>
         \A k, n \in DOMAIN server : k < n => server[k] <= server[n]

(* What quickSort reads and what it leaves behind. *)
SortIsRight == ScansStayInside /\ SortedAtEnd

=============================================================================
