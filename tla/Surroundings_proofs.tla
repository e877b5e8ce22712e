------------------------ MODULE Surroundings_proofs ------------------------
(***************************************************************************)
(* What surrounds the servers, the network and the air, two parts that     *)
(* share no state:                                                         *)
(*   - Topology: the wiring stays within its switches, fits their ports    *)
(*     and survives any one of them, and access switches follow their      *)
(*     servers: for all sizes and redundancies, and ports that suffice;    *)
(*   - Cooling: the ring buffers are read in step with the writing,        *)
(*     whatever their size and the time the air travels, and the control   *)
(*     does not run away.                                                  *)
(***************************************************************************)
EXTENDS Topology, Cooling, SumTheorems, SequenceTheorems, FiniteSetTheorems, TLAPS

-----------------------------------------------------------------------------
(* The network.                                                            *)

-----------------------------------------------------------------------------
(* Switches come in groups of Redundancy: a group that begins inside a     *)
(* tier ends inside it.                                                    *)
Aligned(n) == \E q \in Nat : n = q * Redundancy

LEMMA RedundancyPositive ==
  /\ Redundancy \in Nat \ {0}
  /\ NUMBER_OF_PORTS_SWITCH_ACCESS \in Nat
  /\ Redundancy <= NUMBER_OF_PORTS_SWITCH_ACCESS
  BY SizeAssumption

LEMMA AlignedSum ==
  ASSUME NEW a, NEW b, Aligned(a), Aligned(b)
  PROVE  Aligned(a + b)
<1>1. PICK p \in Nat : a = p * Redundancy
  BY DEF Aligned
<1>2. PICK q \in Nat : b = q * Redundancy
  BY DEF Aligned
<1>3. (p + q) * Redundancy = a + b /\ p + q \in Nat
  BY <1>1, <1>2, RedundancyPositive
<1> QED  BY <1>3 DEF Aligned

LEMMA AlignedOne == Aligned(Redundancy) /\ Aligned(0)
<1>1. 1 * Redundancy = Redundancy /\ 0 * Redundancy = 0
  BY RedundancyPositive
<1> QED  BY <1>1 DEF Aligned

LEMMA AlignedFits ==
  ASSUME NEW a, NEW b, Aligned(a), Aligned(b), a < b
  PROVE  a + Redundancy <= b
<1>1. PICK p \in Nat : a = p * Redundancy
  BY DEF Aligned
<1>2. PICK q \in Nat : b = q * Redundancy
  BY DEF Aligned
<1>3. p + 1 <= q
  <2>1. SUFFICES ASSUME q <= p PROVE FALSE
    OBVIOUS
  <2>2. q * Redundancy <= p * Redundancy
    BY <2>1, RedundancyPositive
  <2> QED  BY <1>1, <1>2, <2>2, RedundancyPositive
<1>4. (p + 1) * Redundancy <= q * Redundancy
  BY <1>3, RedundancyPositive
<1>5. (p + 1) * Redundancy = p * Redundancy + Redundancy
  BY RedundancyPositive
<1> QED  BY <1>1, <1>2, <1>4, <1>5

LEMMA CeilPositive ==
  ASSUME NEW n \in Nat \ {0}, NEW d \in Nat \ {0}
  PROVE  Ceil(n, d) \in Nat \ {0}
<1>1. n + d - 1 \in Nat /\ n + d - 1 >= d
  OBVIOUS
<1>2. (n + d - 1) \div d \in Nat \ {0}
  BY <1>1, Z3
<1> QED  BY <1>2 DEF Ceil

LEMMA ProductPositive ==
  ASSUME NEW n \in Nat \ {0}, NEW d \in Nat \ {0}
  PROVE  n * d \in Nat \ {0}
  BY Z3

LEMMA Tiers ==
  /\ SWITCH_ACCESS \in Nat \ {0} /\ Aligned(SWITCH_ACCESS)
  /\ SWITCH_AGGREGATION \in Nat \ {0} /\ Aligned(SWITCH_AGGREGATION)
  /\ SWITCH_CORE \in Nat \ {0} /\ Aligned(SWITCH_CORE)
<1> DEFINE ports  == Ceil(DefaultServers * NUMBER_CHASSI_RACK + Redundancy,
                          NUMBER_OF_PORTS_SWITCH_ACCESS)
           racks  == Ceil(DefaultChassis, NUMBER_CHASSI_RACK)
<1>1. {DefaultChassis, DefaultServers, NUMBER_CHASSI_RACK, Redundancy,
       NUMBER_OF_PORTS_SWITCH_ACCESS, NUMBER_OF_PORTS_SWITCH_UP} \subseteq Nat \ {0}
  BY SizeAssumption
<1>2. DefaultServers * NUMBER_CHASSI_RACK + Redundancy \in Nat \ {0}
  <2>1. DefaultServers * NUMBER_CHASSI_RACK \in Nat \ {0}
    BY <1>1, ProductPositive
  <2> QED  BY <1>1, <2>1
<1>3. ports * racks \in Nat \ {0}
  <2>1. ports \in Nat \ {0} /\ racks \in Nat \ {0}
    BY <1>1, <1>2, CeilPositive
  <2> HIDE DEF ports, racks
  <2> QED  BY <2>1, ProductPositive
<1>4. SWITCH_ACCESS = (ports * racks) * Redundancy
  BY DEF SWITCH_ACCESS
<1>5. SWITCH_ACCESS \in Nat \ {0} /\ Aligned(SWITCH_ACCESS)
  <2> HIDE DEF ports, racks
  <2> QED  BY <1>1, <1>3, <1>4, ProductPositive DEF Aligned
<1>6. SWITCH_AGGREGATION \in Nat \ {0} /\ Aligned(SWITCH_AGGREGATION)
  <2> DEFINE c == Ceil(SWITCH_ACCESS + Redundancy, NUMBER_OF_PORTS_SWITCH_UP)
  <2>1. SWITCH_ACCESS + Redundancy \in Nat \ {0}
    BY <1>1, <1>5
  <2>2. c \in Nat \ {0}
    BY <1>1, <2>1, CeilPositive
  <2>3. SWITCH_AGGREGATION = c * Redundancy
    BY DEF SWITCH_AGGREGATION
  <2> HIDE DEF c
  <2> QED  BY <1>1, <2>2, <2>3, ProductPositive DEF Aligned
<1>7. SWITCH_CORE \in Nat \ {0} /\ Aligned(SWITCH_CORE)
  <2> DEFINE c == Ceil(SWITCH_AGGREGATION, NUMBER_OF_PORTS_SWITCH_UP)
  <2>1. c \in Nat \ {0}
    BY <1>1, <1>6, CeilPositive
  <2>2. SWITCH_CORE = c * Redundancy
    BY DEF SWITCH_CORE
  <2> HIDE DEF c
  <2> QED  BY <1>1, <2>1, <2>2, ProductPositive DEF Aligned
<1> QED  BY <1>5, <1>6, <1>7

-----------------------------------------------------------------------------
(* The invariant.  Where the loops are: each group they write to lies in   *)
(* the tier that exists.  The loop over a rack goes on past its servers,   *)
(* and past the last access switch, when it has no server to connect.      *)
Wiring ==
  /\ stage \in {"servers", "connected", "undefined"} => Switches = Access
  /\ stage = "servers" => l \in Nat /\ Aligned(l) /\ (InRack => l \in Access)
  /\ stage = "aggregation" =>
       /\ Switches = Access \cup Aggregation
       /\ up \in Aggregation /\ Aligned(up)
  /\ stage = "core" =>
       /\ Switches = Access \cup Aggregation \cup Core
       /\ up \in Core /\ Aligned(up)
  /\ stage # "created" => isOFF = {}

(* A server's list of links and the switches' lists name the same links.   *)
Linked ==
  \A s \in ServerNumbers, sw \in Access : \A k \in Nat :
    <<sw, k>> \in ToSet(link[s]) <=> k \in DOMAIN Bottom[sw] /\ Bottom[sw][k] = s

(* A link is active when what it leads to is on. *)
ActiveWhenOn ==
  \A sw \in Access : \A k \in DOMAIN Bottom[sw] :
    <<sw, k>> \in active <=> Bottom[sw][k] \notin isOFF

TopologyInv == TopologyTypeOK /\ Wiring /\ Linked /\ ActiveWhenOn

-----------------------------------------------------------------------------
(* The tiers as numbers. *)
LEMMA TierRanges ==
  /\ \A x : x \in Access <=> x \in Nat /\ x < SWITCH_ACCESS
  /\ \A x : x \in Aggregation <=>
              x \in Nat /\ SWITCH_ACCESS <= x /\ x < SWITCH_ACCESS + SWITCH_AGGREGATION
  /\ \A x : x \in Core <=>
              /\ x \in Nat /\ SWITCH_ACCESS + SWITCH_AGGREGATION <= x
              /\ x < SWITCH_ACCESS + SWITCH_AGGREGATION + SWITCH_CORE
<1> USE Tiers
<1>1. \A x : x \in Access <=> x \in Nat /\ x < SWITCH_ACCESS
  BY DEF Access
<1>2. \A x : x \in Aggregation <=>
              x \in Nat /\ SWITCH_ACCESS <= x /\ x < SWITCH_ACCESS + SWITCH_AGGREGATION
  BY DEF Aggregation
<1>3. \A x : x \in Core <=>
              /\ x \in Nat /\ SWITCH_ACCESS + SWITCH_AGGREGATION <= x
              /\ x < SWITCH_ACCESS + SWITCH_AGGREGATION + SWITCH_CORE
  BY DEF Core
<1> QED  BY <1>1, <1>2, <1>3

LEMMA GroupInAccess ==
  ASSUME NEW first \in Access, Aligned(first)
  PROVE  /\ Group(first) \subseteq Access
         /\ first + Redundancy \in Nat /\ Aligned(first + Redundancy)
<1>1. first \in Nat /\ first < SWITCH_ACCESS
  BY TierRanges
<1>2. first + Redundancy <= SWITCH_ACCESS
  BY <1>1, Tiers, AlignedFits
<1>3. Aligned(first + Redundancy)
  BY AlignedSum, AlignedOne
<1>4. \A x \in Group(first) : x \in Nat /\ x < SWITCH_ACCESS
  BY <1>1, <1>2, RedundancyPositive, Tiers DEF Group
<1> QED  BY <1>1, <1>3, <1>4, TierRanges, RedundancyPositive

(* The next group of the upper tier, or its first when there is none. *)
LEMMA GroupAbove ==
  ASSUME NEW first \in Nat \ {0}, NEW size \in Nat \ {0}, NEW x \in Nat,
         Aligned(first), Aligned(size), Aligned(x),
         first <= x, x < first + size
  PROVE  /\ \A y \in Group(x) : y \in Nat /\ first <= y /\ y < first + size
         /\ LET next == IF x + Redundancy >= first + size THEN first ELSE x + Redundancy
            IN  /\ next \in Nat /\ first <= next /\ next < first + size
                /\ Aligned(next)
<1>1. Aligned(first + size) /\ Aligned(x + Redundancy)
  BY AlignedSum, AlignedOne
<1>2. x + Redundancy <= first + size
  BY <1>1, AlignedFits
<1> QED  BY <1>1, <1>2, RedundancyPositive DEF Group

LEMMA InitTopologyInv == TopologyInit => TopologyInv
<1> SUFFICES ASSUME TopologyInit  PROVE TopologyInv
  OBVIOUS
<1> USE DEF TopologyInit
<1>1. Switches = Access /\ 0 \in Access /\ Aligned(0)
  BY Tiers, TierRanges, AlignedOne DEF Switches, Switch_ACCESS
<1>2. PICK size \in Sizes : /\ NUMBER_OF_CHASSIS = size[1]
                            /\ NUMBER_OF_SERVERS_IN_ONE_CHASSIS = size[2]
  OBVIOUS
<1>3. sizes = size /\ NUMBER_OF_SERVERS_IN_ONE_CHASSIS \in Nat /\ RackSize \in Nat
  BY <1>2, SizeAssumption, SMTT(60) DEF sizes, RackSize
<1>4. <<>> \in Seq(Nat) /\ <<>> \in Seq(Switches) /\ <<>> \in Seq(Access \X Nat)
  OBVIOUS
<1>5. TopologyTypeOK
  BY <1>1, <1>2, <1>3, <1>4, RedundancyPositive
  DEF TopologyTypeOK, Switches, Switch_ACCESS
<1>6. Linked /\ ActiveWhenOn
  BY <1>1 DEF Linked, ActiveWhenOn, Switch_ACCESS, ToSet
<1> QED  BY <1>1, <1>5, <1>6 DEF TopologyInv, Wiring

-----------------------------------------------------------------------------
(* A server is wired to the switches of a group. *)
LEMMA NewLinks ==
  ASSUME NEW first \in Access, Group(first) \subseteq Access,
         Bottom \in [Access -> Seq(Nat)]
  PROVE  /\ Link_SV_to_SW(first) \in Seq(Access \X Nat)
         /\ \A sw \in Access, k \in Nat :
              <<sw, k>> \in ToSet(Link_SV_to_SW(first)) <=>
                sw \in Group(first) /\ k = Len(Bottom[sw]) + 1
<1> DEFINE new == Link_SV_to_SW(first)
<1>1. first \in Nat
  BY TierRanges
<1>2. \A n \in 1..Redundancy : first + n - 1 \in Group(first)
  BY <1>1, RedundancyPositive DEF Group
<1>3. \A n \in 1..Redundancy : new[n] = <<first + n - 1, Len(Bottom[first + n - 1]) + 1>>
  BY DEF Link_SV_to_SW
<1>4. DOMAIN new = 1..Redundancy
  BY DEF Link_SV_to_SW
<1>5. \A n \in 1..Redundancy : new[n] \in Access \X Nat
  <2> TAKE n \in 1..Redundancy
  <2>1. first + n - 1 \in Access
    BY <1>2
  <2>2. Len(Bottom[first + n - 1]) + 1 \in Nat
    BY <2>1
  <2>3. <<first + n - 1, Len(Bottom[first + n - 1]) + 1>> \in Access \X Nat
    BY <2>1, <2>2
  <2>4. new[n] = <<first + n - 1, Len(Bottom[first + n - 1]) + 1>>
    BY <1>3
  <2> HIDE DEF new
  <2> QED  BY <2>3, <2>4, Zenon
<1>6. new \in Seq(Access \X Nat)
  <2>1. new \in [1..Redundancy -> Access \X Nat]
    BY <1>4, <1>5 DEF Link_SV_to_SW
  <2> QED  BY <2>1, RedundancyPositive
<1>7. ASSUME NEW sw \in Access, NEW k \in Nat, <<sw, k>> \in ToSet(new)
      PROVE  sw \in Group(first) /\ k = Len(Bottom[sw]) + 1
  <2>1. PICK n \in 1..Redundancy : <<sw, k>> = new[n]
    BY <1>4, <1>7 DEF ToSet
  <2>2. sw = first + n - 1 /\ k = Len(Bottom[first + n - 1]) + 1
    BY <1>3, <2>1
  <2> QED  BY <1>2, <2>2
<1>8. ASSUME NEW sw \in Group(first)
      PROVE  <<sw, Len(Bottom[sw]) + 1>> \in ToSet(new)
  <2>1. sw - first + 1 \in 1..Redundancy /\ first + (sw - first + 1) - 1 = sw
    BY <1>1, RedundancyPositive DEF Group
  <2>2. new[sw - first + 1] = <<sw, Len(Bottom[sw]) + 1>>
    BY <1>3, <2>1
  <2> QED  BY <1>4, <2>1, <2>2 DEF ToSet
<1> QED  BY <1>6, <1>7, <1>8

LEMMA ConnectKeeps ==
  ASSUME TopologyTypeOK, Linked, ActiveWhenOn, Switches = Access, isOFF = {},
         NEW first \in Access, Aligned(first), Connect(first),
         UNCHANGED <<sizes, isOFF>>
  PROVE  /\ Switches' = Access /\ Bottom' \in [Access -> Seq(Nat)]
         /\ link' \in [ServerNumbers -> Seq(Access \X Nat)]
         /\ active' \subseteq Access \X Nat
         /\ Linked' /\ ActiveWhenOn'
<1> DEFINE s == rck * RackSize + m
           new == Link_SV_to_SW(first)
<1>1. Group(first) \subseteq Access
  BY GroupInAccess
<1>2. Bottom \in [Access -> Seq(Nat)] /\ link \in [ServerNumbers -> Seq(Access \X Nat)]
  BY DEF TopologyTypeOK, Switches
<1>3. s \in Nat
  <2>1. PICK size \in Sizes : sizes = size
    BY DEF TopologyTypeOK
  <2>2. NUMBER_OF_SERVERS_IN_ONE_CHASSIS \in Nat /\ NUMBER_CHASSI_RACK \in Nat
    BY <2>1, SizeAssumption DEF sizes
  <2>3. RackSize \in Nat /\ m \in Nat /\ rck \in Nat
    BY <2>2 DEF RackSize, TopologyTypeOK
  <2> QED  BY <2>3
<1>4. /\ new \in Seq(Access \X Nat)
      /\ \A sw \in Access, k \in Nat :
           <<sw, k>> \in ToSet(new) <=> sw \in Group(first) /\ k = Len(Bottom[sw]) + 1
  BY <1>1, <1>2, NewLinks
<1>5. /\ Bottom' = [sw \in Switches |-> IF sw \in Group(first)
                      THEN Append(Bottom[sw], s) ELSE Bottom[sw]]
      /\ link' = [link EXCEPT ![s] = @ \o new]
      /\ active' = active \cup ToSet(new)
      /\ ServerNumbers' = ServerNumbers
  BY DEF Connect, EstablishingConnection, ServerNumbers, sizes
<1> HIDE DEF s, new
<1>6. Bottom' \in [Access -> Seq(Nat)] /\ Switches' = Access
  BY <1>2, <1>3, <1>5 DEF Switches
<1>7. link' \in [ServerNumbers -> Seq(Access \X Nat)]
  <2>1. \A old \in Seq(Access \X Nat) : old \o new \in Seq(Access \X Nat)
    BY <1>4, ConcatProperties
  <2> QED  BY <1>2, <1>5, <2>1
<1>8. active' \subseteq Access \X Nat
  BY <1>4, <1>5 DEF TopologyTypeOK, ToSet
<1>9. ASSUME NEW sw \in Access
      PROVE  IF sw \in Group(first)
             THEN /\ DOMAIN Bottom'[sw] = DOMAIN Bottom[sw] \cup {Len(Bottom[sw]) + 1}
                  /\ \A k \in DOMAIN Bottom[sw] : Bottom'[sw][k] = Bottom[sw][k]
                  /\ Bottom'[sw][Len(Bottom[sw]) + 1] = s
                  /\ Len(Bottom[sw]) + 1 \notin DOMAIN Bottom[sw]
             ELSE Bottom'[sw] = Bottom[sw]
  <2>1. Bottom[sw] \in Seq(Nat)
    BY <1>2
  <2>2. CASE sw \in Group(first)
    <3>1. Bottom'[sw] = Append(Bottom[sw], s)
      BY <1>5, <2>2
    <3> QED  BY <1>3, <2>1, <2>2, <3>1, SMTT(60)
  <2>3. CASE sw \notin Group(first)
    BY <1>5, <2>3
  <2> QED  BY <2>2, <2>3
<1>10. \A t \in ServerNumbers, sw \in Access, k \in Nat :
         <<sw, k>> \in ToSet(link'[t]) <=>
           <<sw, k>> \in ToSet(link[t]) \/ (t = s /\ <<sw, k>> \in ToSet(new))
  <2> TAKE t \in ServerNumbers, sw \in Access, k \in Nat
  <2>1. CASE t = s
    <3>1. link'[t] = link[t] \o new /\ link[t] \in Seq(Access \X Nat)
      BY <1>2, <1>5, <2>1
    <3>2. Range(link[t] \o new) = Range(link[t]) \cup Range(new)
      BY <1>4, <3>1, RangeConcatenation
    <3>3. ToSet(link'[t]) = ToSet(link[t]) \cup ToSet(new)
      BY <3>1, <3>2 DEF ToSet, Range
    <3> QED  BY <2>1, <3>3
  <2>2. CASE t # s
    BY <1>2, <1>5, <2>2
  <2> QED  BY <2>1, <2>2
<1>11. Linked'
  <2> SUFFICES ASSUME NEW t \in ServerNumbers, NEW sw \in Access, NEW k \in Nat
               PROVE  <<sw, k>> \in ToSet(link'[t]) <=>
                        k \in DOMAIN Bottom'[sw] /\ Bottom'[sw][k] = t
    BY <1>5 DEF Linked
  <2>1. <<sw, k>> \in ToSet(link[t]) <=> k \in DOMAIN Bottom[sw] /\ Bottom[sw][k] = t
    BY DEF Linked
  <2>2. <<sw, k>> \in ToSet(new) <=> sw \in Group(first) /\ k = Len(Bottom[sw]) + 1
    BY <1>4
  <2> QED  BY <1>9, <1>10, <2>1, <2>2
<1>12. ActiveWhenOn'
  <2> SUFFICES ASSUME NEW sw \in Access, NEW k \in DOMAIN Bottom'[sw]
               PROVE  <<sw, k>> \in active'
    BY DEF ActiveWhenOn
  <2>1. CASE k \in DOMAIN Bottom[sw]
    BY <1>5, <2>1 DEF ActiveWhenOn
  <2>2. CASE k \notin DOMAIN Bottom[sw]
    <3>1. sw \in Group(first) /\ k = Len(Bottom[sw]) + 1
      BY <1>9, <2>2
    <3>2. Len(Bottom[sw]) \in Nat
      BY <1>2
    <3> QED  BY <1>4, <1>5, <3>1, <3>2
  <2> QED  BY <2>1, <2>2
<1> QED  BY <1>6, <1>7, <1>8, <1>11, <1>12

-----------------------------------------------------------------------------
(* One step of each loop. *)
LEMMA SizesType ==
  ASSUME TopologyTypeOK
  PROVE  RackSize \in Nat
<1>1. PICK size \in Sizes : sizes = size
  BY DEF TopologyTypeOK
<1>2. NUMBER_OF_SERVERS_IN_ONE_CHASSIS \in Nat /\ NUMBER_CHASSI_RACK \in Nat
  BY <1>1, SizeAssumption DEF sizes
<1> QED  BY <1>2 DEF RackSize

LEMMA RackFinite ==
  ASSUME TopologyTypeOK
  PROVE  Cardinality(Rack(rck)) \in Nat
<1>1. PICK size \in Sizes : sizes = size
  BY DEF TopologyTypeOK
<1>2. NUMBER_OF_CHASSIS \in Nat /\ NUMBER_OF_SERVERS_IN_ONE_CHASSIS \in Nat
  BY <1>1, SizeAssumption DEF sizes
<1>3. NUMBER_OF_CHASSIS * NUMBER_OF_SERVERS_IN_ONE_CHASSIS \in Nat
  BY <1>2
<1>4. IsFiniteSet(ServerNumbers)
  BY <1>3, FS_Interval DEF ServerNumbers
<1>5. Rack(rck) \subseteq ServerNumbers
  BY DEF Rack
<1> QED  BY <1>4, <1>5, FS_Subset, FS_CardinalityType

LEMMA ServersInv ==
  ASSUME TopologyInv,
         \/ ConnectServer \/ ConnectServerToNextGroup \/ ConnectOutOfRange
         \/ SkipPlace \/ NextRack
  PROVE  TopologyInv'
<1> USE DEF TopologyInv
<1>1. /\ Switches = Access /\ isOFF = {} /\ l \in Nat /\ Aligned(l)
      /\ InRack => l \in Access
      /\ stage = "servers"
  BY DEF Wiring, ConnectServer, ConnectServerToNextGroup, ConnectOutOfRange,
         SkipPlace, NextRack
<1>2. RackSize \in Nat /\ m \in Nat /\ rck \in Nat /\ pt \in Nat
  BY SizesType DEF TopologyTypeOK
<1>3. l + Redundancy \in Nat /\ Aligned(l + Redundancy)
  BY <1>1, AlignedSum, AlignedOne, RedundancyPositive
<1>4. CASE ConnectServer
  <2> USE <1>4 DEF ConnectServer
  <2>1. UNCHANGED sizes /\ RackSize' = RackSize
    BY DEF sizes, RackSize
  <2>2. /\ Switches' = Access /\ Bottom' \in [Access -> Seq(Nat)]
        /\ link' \in [ServerNumbers -> Seq(Access \X Nat)]
        /\ active' \subseteq Access \X Nat
        /\ Linked' /\ ActiveWhenOn'
    BY <1>1, <2>1, ConnectKeeps
  <2>3. TopologyTypeOK'
    BY <1>1, <1>2, <2>1, <2>2, RedundancyPositive
    DEF TopologyTypeOK, Full, ServerNumbers, sizes
  <2>4. Wiring'
    BY <1>1, <2>2 DEF Wiring
  <2> QED  BY <2>2, <2>3, <2>4
<1>5. CASE ConnectServerToNextGroup
  <2> USE <1>5 DEF ConnectServerToNextGroup
  <2>1. UNCHANGED sizes /\ RackSize' = RackSize
    BY DEF sizes, RackSize
  <2>2. l' \in Access /\ Aligned(l') /\ Connect(l')
    BY <1>3
  <2>3. /\ Switches' = Access /\ Bottom' \in [Access -> Seq(Nat)]
        /\ link' \in [ServerNumbers -> Seq(Access \X Nat)]
        /\ active' \subseteq Access \X Nat
        /\ Linked' /\ ActiveWhenOn'
    <3> DEFINE first == l'
    <3>1. first \in Access /\ Aligned(first) /\ Connect(first)
      BY <2>2
    <3> HIDE DEF first
    <3> QED  BY <1>1, <2>1, <3>1, ConnectKeeps
  <2>4. TopologyTypeOK'
    <3>1. /\ stage' \in {"servers", "connected"} /\ rck' \in Nat /\ l' \in Nat
          /\ i' \in Nat /\ up' \in Nat
      BY <1>1, <1>2, <1>3, RedundancyPositive DEF TopologyTypeOK
    <3>2. pt' \in 0..NUMBER_OF_PORTS_SWITCH_ACCESS /\ m' \in 0..RackSize'
      BY <1>1, <1>2, <2>1, RedundancyPositive DEF TopologyTypeOK
    <3>3. Top' \in [Switches' -> Seq(Switches')] /\ switchOFF' \subseteq Switches'
      BY <1>1, <2>3 DEF TopologyTypeOK
    <3> QED
      BY <1>1, <2>1, <2>3, <3>1, <3>2, <3>3 DEF TopologyTypeOK, ServerNumbers, sizes
  <2>5. /\ stage' = "servers" /\ Switches' = Access /\ isOFF' = {}
        /\ l' \in Nat /\ l' \in Access
    BY <1>1, <2>2, <2>3, TierRanges
  <2>6. Aligned(l)'
    BY <2>2 DEF Aligned
  <2>7. Wiring'
    BY <2>5, <2>6 DEF Wiring
  <2> QED  BY <2>3, <2>4, <2>7
<1>6. CASE ConnectOutOfRange
  <2> USE <1>6 DEF ConnectOutOfRange, wiring, indices, power, sizes
  <2>1. TopologyTypeOK'
    BY DEF TopologyTypeOK, RackSize, ServerNumbers, Switches
  <2>2. Wiring' /\ Linked' /\ ActiveWhenOn'
    BY <1>1 DEF Wiring, Linked, ActiveWhenOn, ServerNumbers, Switches
  <2> QED  BY <2>1, <2>2
<1>7. CASE SkipPlace
  <2> USE <1>7 DEF SkipPlace, power, sizes
  <2>1. ~ InRack'
    <3>1. Cardinality(Rack(rck)) \in Nat
      BY RackFinite
    <3>2. Rack(rck)' = Rack(rck)
      BY DEF Rack, ServerNumbers, RackSize
    <3> QED  BY <1>2, <3>1, <3>2 DEF InRack
  <2>2. TopologyTypeOK'
    <3>1. RackSize' = RackSize /\ ServerNumbers' = ServerNumbers /\ Switches' = Switches
      BY DEF RackSize, ServerNumbers, Switches
    <3> QED  BY <1>1, <1>2, <1>3, <3>1, RedundancyPositive DEF TopologyTypeOK
  <2>3. Linked' /\ ActiveWhenOn'
    BY DEF Linked, ActiveWhenOn, ServerNumbers
  <2> QED  BY <1>1, <1>3, <2>1, <2>2, <2>3 DEF Wiring, Switches
<1>8. CASE NextRack
  <2> USE <1>8 DEF NextRack, power, sizes
  <2>1. TopologyTypeOK'
    <3>1. RackSize' = RackSize /\ ServerNumbers' = ServerNumbers /\ Switches' = Switches
      BY DEF RackSize, ServerNumbers, Switches
    <3> QED  BY <1>1, <1>2, <1>3, <3>1, RedundancyPositive DEF TopologyTypeOK
  <2>2. Linked' /\ ActiveWhenOn'
    BY DEF Linked, ActiveWhenOn, ServerNumbers
  <2> QED  BY <1>1, <1>3, <2>1, <2>2 DEF Wiring, Switches
<1> QED  BY <1>4, <1>5, <1>6, <1>7, <1>8

(* The tiers are created with no links. *)
LEMMA CreateInv ==
  ASSUME TopologyInv, CreateAggregation \/ CreateCore \/ Created
  PROVE  TopologyInv'
<1> USE DEF TopologyInv
<1>1. /\ isOFF = {} /\ i \in Nat
      /\ Bottom \in [Switches -> Seq(Nat)] /\ Top \in [Switches -> Seq(Switches)]
      /\ Switches = DOMAIN Bottom /\ DOMAIN Top = Switches
  BY DEF Wiring, TopologyTypeOK, CreateAggregation, CreateCore, Created, Switches
<1>2. <<>> \in Seq(Nat) /\ \A S : <<>> \in Seq(S)
  OBVIOUS
<1>3. CASE CreateAggregation
  <2> USE <1>3 DEF CreateAggregation, power, indices, sizes
  <2>1. Switches = Access
    BY DEF Wiring
  <2>2. /\ Switches' = Access \cup Aggregation
        /\ \A sw \in Access : Bottom'[sw] = Bottom[sw] /\ Top'[sw] = Top[sw]
        /\ \A sw \in Aggregation : sw \notin Access => Bottom'[sw] = <<>> /\ Top'[sw] = <<>>
        /\ Bottom' = [sw \in Switches' |-> Bottom'[sw]]
        /\ Top' = [sw \in Switches' |-> Top'[sw]]
    BY <1>1, <2>1 DEF Switches, Switch_AGGREGATION, Grown
  <2>3. Seq(Switches) \subseteq Seq(Switches')
    BY <2>1, <2>2
  <2>4. Bottom' \in [Switches' -> Seq(Nat)] /\ Top' \in [Switches' -> Seq(Switches')]
    BY <1>1, <1>2, <2>1, <2>2, <2>3, ZenonT(60)
  <2>5. RackSize' = RackSize /\ ServerNumbers' = ServerNumbers
    BY DEF RackSize, ServerNumbers
  <2>6. TopologyTypeOK'
    BY <2>1, <2>2, <2>4, <2>5, Tiers DEF TopologyTypeOK
  <2>7. Wiring'
    <3>1. SWITCH_ACCESS \in Aggregation /\ Aligned(SWITCH_ACCESS)
      BY Tiers, TierRanges
    <3>2. Aligned(up)'
      BY <3>1 DEF Aligned
    <3> QED  BY <1>1, <2>2, <3>1, <3>2 DEF Wiring
  <2>8. Linked' /\ ActiveWhenOn'
    BY <2>2, <2>5 DEF Linked, ActiveWhenOn
  <2> QED  BY <2>6, <2>7, <2>8
<1>4. CASE CreateCore
  <2> USE <1>4 DEF CreateCore, power, indices, sizes
  <2>1. Switches = Access \cup Aggregation
    BY DEF Wiring
  <2>2. /\ Switches' = Access \cup Aggregation \cup Core
        /\ \A sw \in Access \cup Aggregation : Bottom'[sw] = Bottom[sw] /\ Top'[sw] = Top[sw]
        /\ \A sw \in Core : sw \notin Access \cup Aggregation =>
             Bottom'[sw] = <<>> /\ Top'[sw] = <<>>
        /\ Bottom' = [sw \in Switches' |-> Bottom'[sw]]
        /\ Top' = [sw \in Switches' |-> Top'[sw]]
    BY <1>1, <2>1 DEF Switches, Switch_CORE, Grown
  <2>3. Seq(Switches) \subseteq Seq(Switches')
    BY <2>1, <2>2
  <2>4. Bottom' \in [Switches' -> Seq(Nat)] /\ Top' \in [Switches' -> Seq(Switches')]
    BY <1>1, <1>2, <2>1, <2>2, <2>3, ZenonT(60)
  <2>5. RackSize' = RackSize /\ ServerNumbers' = ServerNumbers
    BY DEF RackSize, ServerNumbers
  <2>6. TopologyTypeOK'
    BY <2>1, <2>2, <2>4, <2>5, Tiers, SMTT(60) DEF TopologyTypeOK
  <2>7. Aligned(SWITCH_ACCESS + SWITCH_AGGREGATION)
    BY Tiers, AlignedSum
  <2>8. Wiring'
    <3>1. SWITCH_ACCESS + SWITCH_AGGREGATION \in Core
      BY Tiers, TierRanges
    <3>2. Aligned(up)'
      BY <2>7 DEF Aligned
    <3> QED  BY <1>1, <2>2, <3>1, <3>2 DEF Wiring
  <2>9. Linked' /\ ActiveWhenOn'
    BY <2>2, <2>5 DEF Linked, ActiveWhenOn
  <2> QED  BY <2>6, <2>8, <2>9
<1>5. CASE Created
  <2> USE <1>5 DEF Created, wiring, indices, power, sizes
  <2>1. /\ RackSize' = RackSize /\ ServerNumbers' = ServerNumbers /\ Switches' = Switches
    BY DEF RackSize, ServerNumbers, Switches
  <2>2. TopologyTypeOK'
    BY <2>1 DEF TopologyTypeOK
  <2>3. Wiring' /\ Linked' /\ ActiveWhenOn'
    BY <2>1 DEF Wiring, Linked, ActiveWhenOn
  <2> QED  BY <2>2, <2>3
<1> QED  BY <1>3, <1>4, <1>5

(* The links between switches leave those to the servers alone. *)
LEMMA ConnectUpKeeps ==
  ASSUME TopologyInv, NEW lo \in Nat \ {0}, NEW size \in Nat \ {0},
         Aligned(lo), Aligned(size), SWITCH_ACCESS <= lo,
         Switches = 0..(lo + size - 1),
         up \in lo..(lo + size - 1), Aligned(up), i \in Switches, isOFF = {},
         ConnectUp(lo)
  PROVE  /\ TopologyTypeOK' /\ Linked' /\ ActiveWhenOn'
         /\ Switches' = Switches
         /\ up' \in lo..(lo + size - 1) /\ Aligned(up')
<1> USE DEF TopologyInv
<1>1. Cardinality(Switches) = lo + size
  <2>1. Cardinality(0..(lo + size - 1)) = lo + size
    BY FS_Interval
  <2> QED  BY <2>1
<1>2. /\ \A y \in Group(up) : y \in Nat /\ lo <= y /\ y < lo + size
      /\ up' \in lo..(lo + size - 1) /\ Aligned(up')
  <2>1. /\ \A y \in Group(up) : y \in Nat /\ lo <= y /\ y < lo + size
        /\ LET next == IF up + Redundancy >= lo + size THEN lo ELSE up + Redundancy
           IN  /\ next \in Nat /\ lo <= next /\ next < lo + size
               /\ Aligned(next)
    BY GroupAbove
  <2>2. up' = IF up + Redundancy >= lo + size THEN lo ELSE up + Redundancy
    BY <1>1 DEF ConnectUp
  <2> QED  BY <2>1, <2>2
<1>3. /\ Bottom \in [Switches -> Seq(Nat)] /\ Top \in [Switches -> Seq(Switches)]
      /\ Switches = DOMAIN Bottom /\ i \in Nat /\ i + 1 \in Nat
  <2>1. /\ Bottom \in [Switches -> Seq(Nat)] /\ Top \in [Switches -> Seq(Switches)] /\ i \in Nat
    BY DEF TopologyTypeOK
  <2>2. Switches = DOMAIN Bottom
    BY DEF Switches
  <2> QED  BY ONLY <2>1, <2>2
<1>4. Bottom' = [sw \in Switches |-> IF sw \in Group(up)
                   THEN Append(Bottom[sw], i) ELSE Bottom[sw]]
  BY DEF ConnectUp, EstablishingConnection
<1>5. Bottom' \in [Switches -> Seq(Nat)] /\ Switches' = Switches
  BY <1>3, <1>4 DEF Switches
<1>6. \A sw \in Access : sw \in Switches /\ Bottom'[sw] = Bottom[sw]
  <2> TAKE sw \in Access
  <2>1. sw \in Switches /\ sw \notin Group(up)
    BY <1>2, TierRanges, Tiers
  <2> QED  BY <1>4, <2>1
<1>7. Top' \in [Switches -> Seq(Switches)]
  <2> DEFINE uppers == [n \in 1..Redundancy |-> up + n - 1]
  <2>1. \A n \in 1..Redundancy : up + n - 1 \in Group(up)
    BY RedundancyPositive DEF Group
  <2>2. \A n \in 1..Redundancy : up + n - 1 \in Switches
    BY <1>2, <2>1
  <2>3. uppers \in Seq(Switches)
    BY <2>2, RedundancyPositive
  <2>4. Top' = [Top EXCEPT ![i] = @ \o uppers]
    BY DEF ConnectUp, EstablishingConnection_Top_To_Bottom
  <2> HIDE DEF uppers
  <2>5. Top[i] \o uppers \in Seq(Switches)
    BY <1>3, <2>3, ConcatProperties
  <2> QED  BY <1>3, <2>4, <2>5
<1>8. /\ RackSize' = RackSize /\ ServerNumbers' = ServerNumbers
      /\ UNCHANGED <<sizes, stage, rck, l, m, pt, link, active, isOFF, switchOFF>>
      /\ i' = i + 1
  BY DEF ConnectUp, indices, power, sizes, RackSize, ServerNumbers
<1>9. TopologyTypeOK'
  <2>1. up' \in Nat /\ i' \in Nat
    BY <1>2, <1>3, <1>8
  <2>2. Bottom' \in [Switches' -> Seq(Nat)] /\ Top' \in [Switches' -> Seq(Switches')]
    BY <1>5, <1>7
  <2>3. sizes' = sizes
    BY <1>8
  <2> QED  BY <1>5, <1>8, <2>1, <2>2, <2>3 DEF TopologyTypeOK
<1>10. Linked' /\ ActiveWhenOn'
  BY <1>6, <1>8 DEF Linked, ActiveWhenOn
<1> QED  BY <1>2, <1>5, <1>9, <1>10

LEMMA ConnectUpInv ==
  ASSUME TopologyInv, ConnectAccess \/ ConnectAggregation
  PROVE  TopologyInv'
<1>1. CASE ConnectAccess
  <2> USE <1>1 DEF ConnectAccess
  <2>1. /\ stage = "aggregation" /\ i \in Access /\ isOFF = {}
        /\ Switches = Access \cup Aggregation
        /\ up \in Aggregation /\ Aligned(up)
    BY DEF TopologyInv, Wiring
  <2>2. Switches = 0..(SWITCH_ACCESS + SWITCH_AGGREGATION - 1)
    BY <2>1, TierRanges, Tiers
  <2>3. up \in SWITCH_ACCESS..(SWITCH_ACCESS + SWITCH_AGGREGATION - 1)
    BY <2>1 DEF Aggregation
  <2> DEFINE lo == SWITCH_ACCESS
  <2>8. lo \in Nat \ {0} /\ SWITCH_ACCESS <= lo /\ Aligned(lo) /\ ConnectUp(lo)
    BY Tiers
  <2>9. Switches = 0..(lo + SWITCH_AGGREGATION - 1) /\ i \in Switches
        /\ up \in lo..(lo + SWITCH_AGGREGATION - 1)
    BY <2>1, <2>2, <2>3
  <2> HIDE DEF lo
  <2>4. /\ TopologyTypeOK' /\ Linked' /\ ActiveWhenOn'
        /\ Switches' = Switches
        /\ up' \in lo..(lo + SWITCH_AGGREGATION - 1)
        /\ Aligned(up')
    BY <2>1, <2>8, <2>9, Tiers, ConnectUpKeeps
  <2>5. Wiring'
    BY <2>1, <2>4 DEF Wiring, ConnectUp, power, Aggregation, lo
  <2> QED  BY <2>4, <2>5 DEF TopologyInv
<1>2. CASE ConnectAggregation
  <2> USE <1>2 DEF ConnectAggregation
  <2> DEFINE lo == SWITCH_ACCESS + SWITCH_AGGREGATION
  <2>1. /\ stage = "core" /\ i \in Aggregation /\ isOFF = {}
        /\ Switches = Access \cup Aggregation \cup Core
        /\ up \in Core /\ Aligned(up)
    BY DEF TopologyInv, Wiring
  <2>2. Switches = 0..(lo + SWITCH_CORE - 1)
    BY <2>1, TierRanges, Tiers
  <2>3. up \in lo..(lo + SWITCH_CORE - 1)
    BY <2>1 DEF Core
  <2>4. lo \in Nat \ {0} /\ SWITCH_ACCESS <= lo /\ Aligned(lo) /\ ConnectUp(lo)
    BY Tiers, AlignedSum
  <2> HIDE DEF lo
  <2>5. /\ TopologyTypeOK' /\ Linked' /\ ActiveWhenOn'
        /\ Switches' = Switches
        /\ up' \in lo..(lo + SWITCH_CORE - 1)
        /\ Aligned(up')
    BY <2>1, <2>2, <2>3, <2>4, Tiers, ConnectUpKeeps
  <2>6. Wiring'
    BY <2>1, <2>5 DEF Wiring, ConnectUp, power, Core, lo
  <2> QED  BY <2>5, <2>6 DEF TopologyInv
<1> QED  BY <1>1, <1>2

-----------------------------------------------------------------------------
(* Servers that are turned off and on, and the switches after them. *)
LEMMA AccessLists ==
  ASSUME TopologyTypeOK
  PROVE  /\ Access \subseteq Switches
         /\ \A sw \in Access : Bottom[sw] \in Seq(Nat) /\ DOMAIN Bottom[sw] \subseteq Nat
<1>1. Access \subseteq Switches /\ Bottom \in [Switches -> Seq(Nat)]
  BY DEF TopologyTypeOK
<1>2. \A b \in Seq(Nat) : DOMAIN b \subseteq Nat
  OBVIOUS
<1> QED  BY <1>1, <1>2

LEMMA PowerInv ==
  ASSUME TopologyInv,
         (\E s \in ServerNumbers : TurnOFF(s) \/ TurnON(s)) \/ EveryASecond
  PROVE  TopologyInv'
<1> USE DEF TopologyInv
<1>1. /\ stage = "created" /\ UNCHANGED <<sizes, stage, wiring>>
      /\ RackSize' = RackSize /\ ServerNumbers' = ServerNumbers /\ Switches' = Switches
  BY DEF TurnOFF, TurnON, EveryASecond, wiring, sizes, RackSize, ServerNumbers, Switches
<1>2. link \in [ServerNumbers -> Seq(Access \X Nat)]
      /\ Bottom \in [Switches -> Seq(Nat)]
  BY DEF TopologyTypeOK
<1>3. Wiring'
  BY <1>1 DEF Wiring
<1>4. Linked'
  BY <1>1 DEF Linked, wiring
<1>5. ASSUME NEW s \in ServerNumbers, TurnOFF(s)
      PROVE  TopologyTypeOK' /\ ActiveWhenOn'
  <2>1. TopologyTypeOK'
    BY <1>1, <1>5 DEF TopologyTypeOK, TurnOFF, wiring, indices
  <2>2. \A sw \in Access : \A k \in DOMAIN Bottom[sw] :
          k \in Nat /\ (<<sw, k>> \in ToSet(link[s]) <=> Bottom[sw][k] = s)
    BY <1>5, AccessLists DEF Linked
  <2>3. ActiveWhenOn'
    BY <1>1, <1>5, <2>2 DEF ActiveWhenOn, TurnOFF, wiring
  <2> QED  BY <2>1, <2>3
<1>6. ASSUME NEW s \in ServerNumbers, TurnON(s)
      PROVE  TopologyTypeOK' /\ ActiveWhenOn'
  <2>1. ToSet(link[s]) \subseteq Access \X Nat
    BY <1>2 DEF ToSet
  <2>2. TopologyTypeOK'
    BY <1>1, <1>6, <2>1 DEF TopologyTypeOK, TurnON, wiring, indices
  <2>3. \A sw \in Access : \A k \in DOMAIN Bottom[sw] :
          k \in Nat /\ (<<sw, k>> \in ToSet(link[s]) <=> Bottom[sw][k] = s)
    BY <1>6, AccessLists DEF Linked
  <2>4. ActiveWhenOn'
    BY <1>1, <1>6, <2>3 DEF ActiveWhenOn, TurnON, wiring
  <2> QED  BY <2>2, <2>4
<1>7. ASSUME EveryASecond
      PROVE  TopologyTypeOK' /\ ActiveWhenOn'
  <2>1. switchOFF' \subseteq Switches'
    BY <1>1, <1>7, AccessLists DEF EveryASecond
  <2> QED  BY <1>1, <1>7, <2>1 DEF EveryASecond, TopologyTypeOK, ActiveWhenOn, wiring, indices
<1> QED  BY <1>3, <1>4, <1>5, <1>6, <1>7

LEMMA NextTopologyInv == TopologyInv /\ [TopologyNext]_topologyVars => TopologyInv'
<1> SUFFICES ASSUME TopologyInv, [TopologyNext]_topologyVars  PROVE TopologyInv'
  OBVIOUS
<1>1. CASE UNCHANGED topologyVars
  <2>1. /\ UNCHANGED <<sizes, stage, rck, l, m, pt, i, up, Bottom, Top, link,
                       active, isOFF, switchOFF>>
        /\ RackSize' = RackSize /\ ServerNumbers' = ServerNumbers /\ Switches' = Switches
        /\ InRack' = InRack
    BY <1>1 DEF topologyVars, wiring, indices, power, sizes, RackSize, ServerNumbers, Switches,
                InRack, Rack
  <2> QED  BY <2>1 DEF TopologyInv, TopologyTypeOK, Wiring, Linked, ActiveWhenOn
<1>2. CASE TopologyNext
  BY <1>2, ServersInv, CreateInv, ConnectUpInv, PowerInv DEF TopologyNext
<1> QED  BY <1>1, <1>2

LEMMA SpecTopologyInv == TopologySpec => []TopologyInv
  BY InitTopologyInv, NextTopologyInv, PTL DEF TopologySpec

(* Loops, lists and links keep their types: each group of ports that the   *)
(* wiring writes to belongs to switches that exist (Topology.cpp, the      *)
(* nested loops of CreateTopology).                                        *)
THEOREM TopologyTypeCorrect == TopologySpec => []TopologyTypeOK
<1>1. TopologyInv => TopologyTypeOK
  BY DEF TopologyInv
<1> QED  BY <1>1, SpecTopologyInv, PTL

(* When the access switches follow the servers, exactly those are off whose *)
(* servers are all off, although switches and servers keep lists of links  *)
(* of their own (Topology::EveryASecond, Server::TurnOFF and TurnON).      *)
THEOREM SwitchesFollow == TopologySpec => SwitchesFollowServers
<1>1. ASSUME TopologyInv, [TopologyNext]_topologyVars, switchOFF' # switchOFF
      PROVE  \A sw \in Access : sw \in switchOFF' <=> ToSet(Bottom[sw]) \subseteq isOFF
  <2>1. EveryASecond
    BY <1>1 DEF TopologyNext, topologyVars, power, ConnectServer, ConnectServerToNextGroup,
                ConnectOutOfRange, SkipPlace, NextRack, CreateAggregation,
                ConnectAccess, CreateCore, ConnectAggregation, Created, ConnectUp,
                TurnOFF, TurnON
  <2>2. TAKE sw \in Access
  <2>3. sw \in switchOFF' <=> \A k \in DOMAIN Bottom[sw] : <<sw, k>> \notin active
    BY <2>1 DEF EveryASecond, ChecksIfThereIsActiveConnections
  <2>4. sw \in switchOFF' <=> \A k \in DOMAIN Bottom[sw] : Bottom[sw][k] \in isOFF
    BY <1>1, <2>3 DEF TopologyInv, ActiveWhenOn
  <2> QED  BY <2>4 DEF ToSet
<1>2. TopologyInv /\ [TopologyNext]_topologyVars =>
        [switchOFF' # switchOFF =>
           \A sw \in Access : sw \in switchOFF' <=> ToSet(Bottom[sw]) \subseteq isOFF]_topologyVars
  BY <1>1
<1> QED  BY <1>2, SpecTopologyInv, PTL DEF TopologySpec, SwitchesFollowServers

-----------------------------------------------------------------------------
(* What the network is good for depends on its numbers of ports: that one  *)
(* group of access switches has room for a rack, and that the links of a   *)
(* tier, dealt out to the groups of the next one, leave ports for the      *)
(* links up.  The sizes of the code are such (PortsOfTheCode).             *)
PortsSuffice ==
  /\ DefaultServers * NUMBER_CHASSI_RACK + Redundancy <= NUMBER_OF_PORTS_SWITCH_ACCESS
  /\ Ceil(SWITCH_ACCESS * Redundancy, SWITCH_AGGREGATION) + Redundancy
       <= NUMBER_OF_PORTS_SWITCH_UP
  /\ Ceil(SWITCH_AGGREGATION * Redundancy, SWITCH_CORE) <= NUMBER_OF_PORTS_SWITCH_UP

LEMMA PortsOfTheCode ==
  ASSUME DefaultChassis = 50, DefaultServers = 10, NUMBER_CHASSI_RACK = 4,
         NUMBER_OF_PORTS_SWITCH_ACCESS = 48, NUMBER_OF_PORTS_SWITCH_UP = 24,
         Redundancy = 2
  PROVE  PortsSuffice
<1>1. SWITCH_ACCESS = 26
  BY DEF SWITCH_ACCESS, Ceil
<1>2. SWITCH_AGGREGATION = 4
  BY <1>1 DEF SWITCH_AGGREGATION, Ceil
<1>3. SWITCH_CORE = 2
  BY <1>2 DEF SWITCH_CORE, Ceil
<1> QED  BY <1>1, <1>2, <1>3 DEF PortsSuffice, Ceil

(* Where the loops are.  Within the usage text the groups go with the      *)
(* racks, none gets full, and all servers are passed when the racks are.   *)
Places ==
  /\ WithinUsage =>
       /\ stage # "undefined" /\ l = rck * Redundancy /\ pt <= m
       /\ stage # "servers" => \A s \in ServerNumbers : s < rck * RackSize + m
  /\ stage \in {"servers", "connected", "undefined"} => i = 0
  /\ stage = "aggregation" => i <= SWITCH_ACCESS
  /\ stage = "core" => SWITCH_ACCESS <= i /\ i <= SWITCH_ACCESS + SWITCH_AGGREGATION
  /\ stage = "created" => i = SWITCH_ACCESS + SWITCH_AGGREGATION

(* Each server that was passed has links to all switches of a group, and   *)
(* each switch that was passed to all of a group of the next tier.         *)
Reach ==
  /\ WithinUsage => \A s \in ServerNumbers : s < rck * RackSize + m =>
       \E first \in Access : Group(first) \subseteq Above(s)
  /\ \A a \in Access : a < i =>
       \E x \in Aggregation : Group(x) \subseteq Aggregation \cap ToSet(Top[a])
  /\ \A g \in Aggregation : g < i => \E x \in Core : Group(x) \subseteq ToSet(Top[g])

(* The links of n switches are dealt out to the size switches from lo on:  *)
(* those before up have one more than the others.                          *)
Round(lo, size, n) ==
  lo <= up /\ \E c \in Nat :
    /\ Redundancy * n = size * c + (up - lo)
    /\ \A sw \in lo..(lo + size - 1) : Len(Bottom[sw]) <= IF sw < up THEN c + 1 ELSE c

Ports ==
  /\ WithinUsage => \A sw \in Access :
       Len(Bottom[sw]) <= IF sw < l THEN RackSize
                          ELSE IF sw \in Group(l) THEN pt ELSE 0
  /\ \A sw \in Switches : Len(Top[sw]) <= IF sw < i THEN Redundancy ELSE 0
  /\ stage = "aggregation" => Round(SWITCH_ACCESS, SWITCH_AGGREGATION, i)
  /\ stage \in {"core", "created"} =>
       /\ \A sw \in Aggregation :
            Len(Bottom[sw]) <= Ceil(SWITCH_ACCESS * Redundancy, SWITCH_AGGREGATION)
       /\ Round(SWITCH_ACCESS + SWITCH_AGGREGATION, SWITCH_CORE, i - SWITCH_ACCESS)

Network == Places /\ Reach /\ Ports

-----------------------------------------------------------------------------
(* The sizes, and the racks as ranges of servers.                          *)
LEMMA SizesKnown ==
  ASSUME TopologyTypeOK
  PROVE  /\ NUMBER_OF_CHASSIS \in Nat \ {0} /\ NUMBER_OF_CHASSIS <= DefaultChassis
         /\ NUMBER_OF_SERVERS_IN_ONE_CHASSIS \in Nat \ {0}
         /\ NUMBER_CHASSI_RACK \in Nat \ {0}
         /\ DefaultChassis \in Nat \ {0} /\ DefaultServers \in Nat \ {0}
         /\ RackSize \in Nat \ {0}
<1>1. PICK size \in Sizes : sizes = size
  BY DEF TopologyTypeOK
<1>2. /\ NUMBER_OF_CHASSIS \in Nat \ {0} /\ NUMBER_OF_CHASSIS <= DefaultChassis
      /\ NUMBER_OF_SERVERS_IN_ONE_CHASSIS \in Nat \ {0}
      /\ NUMBER_CHASSI_RACK \in Nat \ {0}
      /\ DefaultChassis \in Nat \ {0} /\ DefaultServers \in Nat \ {0}
  BY <1>1, SizeAssumption DEF sizes
<1>3. RackSize \in Nat \ {0}
  BY <1>2, ProductPositive DEF RackSize
<1> QED  BY <1>2, <1>3

LEMMA TimesAtMost ==
  ASSUME NEW d \in Nat \ {0}, NEW a \in Nat, NEW b \in Nat, a <= b
  PROVE  d * a <= d * b
<1>1. CASE a = b
  <2>1. d * a \in Nat
    OBVIOUS
  <2> QED  BY <1>1, <2>1
<1>2. CASE a < b
  <2>1. d * a + d <= d * b
    BY <1>2, TimesMonotone
  <2>2. d * a \in Nat /\ d * b \in Nat
    OBVIOUS
  <2> QED  BY <2>1, <2>2
<1> QED  BY <1>1, <1>2

LEMMA QuotientIs ==
  ASSUME NEW d \in Nat \ {0}, NEW q \in Nat, NEW s \in Nat, d * q <= s, s < d * q + d
  PROVE  s \div d = q
<1>1. PICK e : e = s \div d
  OBVIOUS
<1>2. e \in Nat /\ d * e <= s /\ s < d * e + d
  BY <1>1, QuotientRounds
<1>3. d * e \in Nat /\ d * q \in Nat
  BY <1>2
<1>4. ~ (e < q)
  <2>1. e < q => d * e + d <= d * q
    BY <1>2, TimesMonotone
  <2> QED  BY <1>2, <1>3, <2>1
<1>5. ~ (q < e)
  <2>1. q < e => d * q + d <= d * e
    BY <1>2, TimesMonotone
  <2> QED  BY <1>2, <1>3, <2>1
<1> QED  BY <1>1, <1>2, <1>4, <1>5

(* A quotient that is rounded up. *)
LEMMA CeilBounds ==
  ASSUME NEW x \in Nat, NEW d \in Nat \ {0}
  PROVE  /\ Ceil(x, d) \in Nat /\ x <= d * Ceil(x, d)
         /\ \A n \in Nat : d * n < x + d => n <= Ceil(x, d)
<1>1. PICK k : k = Ceil(x, d)
  OBVIOUS
<1>2. x + d - 1 \in Nat
  OBVIOUS
<1>3. k \in Nat /\ d * k <= x + d - 1 /\ x + d - 1 < d * k + d
  BY <1>1, <1>2, QuotientRounds DEF Ceil
<1>4. d * k \in Nat
  BY <1>3
<1>5. ASSUME NEW n \in Nat, d * n < x + d, k < n
      PROVE  FALSE
  <2>1. d * k + d <= d * n
    BY <1>3, <1>5, TimesMonotone
  <2>2. d * n \in Nat
    OBVIOUS
  <2> QED  BY <1>3, <1>4, <1>5, <2>1, <2>2
<1> QED  BY <1>1, <1>3, <1>4, <1>5

LEMMA InItsRack ==
  ASSUME TopologyTypeOK, NEW s \in ServerNumbers, NEW r \in Nat,
         r * RackSize <= s, s < r * RackSize + RackSize
  PROVE  s - r * RackSize < Cardinality(Rack(r))
<1>1. PICK d : d = RackSize
  OBVIOUS
<1>2. PICK b : b = d * r
  OBVIOUS
<1>3. d \in Nat \ {0} /\ b \in Nat /\ s \in Nat
  BY <1>1, <1>2, SizesKnown DEF ServerNumbers
<1>4. b <= s /\ s < b + d /\ r * RackSize = b
  BY <1>1, <1>2, <1>3
<1>5. b..s \subseteq Rack(r)
  <2> SUFFICES ASSUME NEW t \in b..s
               PROVE  t \in ServerNumbers /\ t \div d = r
    BY <1>1 DEF Rack
  <2>1. t \in Nat /\ b <= t /\ t < b + d
    BY <1>3, <1>4
  <2>2. t \div d = r
    BY <1>2, <1>3, <2>1, QuotientIs
  <2>3. t \in ServerNumbers
    <3>1. NUMBER_OF_CHASSIS * NUMBER_OF_SERVERS_IN_ONE_CHASSIS \in Nat
      BY SizesKnown
    <3> QED  BY <2>1, <3>1 DEF ServerNumbers
  <2> QED  BY <2>2, <2>3
<1>6. IsFiniteSet(Rack(r))
  <2>1. NUMBER_OF_CHASSIS * NUMBER_OF_SERVERS_IN_ONE_CHASSIS \in Nat
    BY SizesKnown
  <2>2. IsFiniteSet(ServerNumbers) /\ Rack(r) \subseteq ServerNumbers
    BY <2>1, FS_Interval DEF ServerNumbers, Rack
  <2> QED  BY <2>2, FS_Subset
<1>7. Cardinality(b..s) = s - b + 1
  BY <1>3, <1>4, FS_Interval
<1>8. Cardinality(b..s) <= Cardinality(Rack(r)) /\ Cardinality(Rack(r)) \in Nat
  BY <1>5, <1>6, FS_Subset, FS_CardinalityType
<1> QED  BY <1>3, <1>4, <1>7, <1>8

(* After the last rack all servers are passed. *)
LEMMA AllRacksPassed ==
  ASSUME TopologyTypeOK, NEW r \in Nat, r \notin Racks, NEW s \in ServerNumbers
  PROVE  s < r * RackSize
<1>1. PICK k : k = Ceil(NUMBER_OF_CHASSIS, NUMBER_CHASSI_RACK)
  OBVIOUS
<1>2. /\ k \in Nat /\ NUMBER_OF_CHASSIS <= NUMBER_CHASSI_RACK * k
  BY <1>1, SizesKnown, CeilBounds
<1>3. k <= r
  BY <1>1, <1>2 DEF Racks
<1>4. NUMBER_CHASSI_RACK * k <= NUMBER_CHASSI_RACK * r
  BY <1>2, <1>3, SizesKnown, TimesAtMost
<1>5. PICK c : c = NUMBER_CHASSI_RACK * r
  OBVIOUS
<1>6. c \in Nat /\ NUMBER_OF_CHASSIS <= c
  BY <1>2, <1>4, <1>5, SizesKnown
<1>7. NUMBER_OF_SERVERS_IN_ONE_CHASSIS * NUMBER_OF_CHASSIS
        <= NUMBER_OF_SERVERS_IN_ONE_CHASSIS * c
  BY <1>6, SizesKnown, TimesAtMost
<1>8. NUMBER_OF_SERVERS_IN_ONE_CHASSIS * c = r * RackSize
  BY <1>5, SizesKnown, Z3 DEF RackSize
<1>9. s < NUMBER_OF_CHASSIS * NUMBER_OF_SERVERS_IN_ONE_CHASSIS
  <2>1. NUMBER_OF_CHASSIS * NUMBER_OF_SERVERS_IN_ONE_CHASSIS \in Nat
    BY SizesKnown
  <2> QED  BY <2>1 DEF ServerNumbers
<1>10. NUMBER_OF_CHASSIS * NUMBER_OF_SERVERS_IN_ONE_CHASSIS
         = NUMBER_OF_SERVERS_IN_ONE_CHASSIS * NUMBER_OF_CHASSIS
  BY SizesKnown
<1>11. PICK a, b : /\ a = NUMBER_OF_CHASSIS * NUMBER_OF_SERVERS_IN_ONE_CHASSIS
                   /\ b = NUMBER_OF_SERVERS_IN_ONE_CHASSIS * c
  OBVIOUS
<1>12. a \in Nat /\ b \in Nat /\ s \in Nat
  <2>1. a \in Nat /\ b \in Nat
    BY <1>6, <1>11, SizesKnown
  <2> QED  BY <2>1, <1>11 DEF ServerNumbers
<1>13. s < a /\ a <= b /\ b = r * RackSize
  BY <1>7, <1>8, <1>9, <1>10, <1>11
<1> QED  BY ONLY <1>12, <1>13

(* Every rack has its group. *)
LEMMA GroupOfRack ==
  ASSUME TopologyTypeOK, NEW r \in Racks
  PROVE  r * Redundancy \in Access
<1>1. PICK k : k = Ceil(DefaultChassis, NUMBER_CHASSI_RACK)
  OBVIOUS
<1>2. PICK n : n = Ceil(DefaultServers * NUMBER_CHASSI_RACK + Redundancy,
                        NUMBER_OF_PORTS_SWITCH_ACCESS)
  OBVIOUS
<1>3. n \in Nat \ {0} /\ k \in Nat \ {0}
  <2>1. DefaultServers * NUMBER_CHASSI_RACK \in Nat
    BY SizesKnown
  <2>2. DefaultServers * NUMBER_CHASSI_RACK + Redundancy \in Nat \ {0}
    BY <2>1, RedundancyPositive
  <2>3. NUMBER_OF_PORTS_SWITCH_ACCESS \in Nat \ {0}
    BY SizeAssumption
  <2> QED  BY <1>1, <1>2, <2>2, <2>3, SizesKnown, CeilPositive
<1>4. SWITCH_ACCESS = n * k * Redundancy
  BY <1>1, <1>2 DEF SWITCH_ACCESS
<1>5. r \in Nat /\ r < k
  <2>1. PICK q : q = Ceil(NUMBER_OF_CHASSIS, NUMBER_CHASSI_RACK)
    OBVIOUS
  <2>2. q \in Nat
    BY <2>1, SizesKnown, CeilBounds
  <2>3. q <= k
    <3>1. /\ NUMBER_OF_CHASSIS + NUMBER_CHASSI_RACK - 1 \in Nat
          /\ DefaultChassis + NUMBER_CHASSI_RACK - 1 \in Nat
          /\ NUMBER_OF_CHASSIS + NUMBER_CHASSI_RACK - 1
               <= DefaultChassis + NUMBER_CHASSI_RACK - 1
      BY SizesKnown
    <3> QED  BY <1>1, <2>1, <3>1, SizesKnown, QuotientMonotone DEF Ceil
  <2>4. r \in 0..(q - 1)
    BY <2>1 DEF Racks
  <2> QED  BY <1>3, <2>2, <2>3, <2>4
<1>6. Redundancy * r + Redundancy <= Redundancy * k
  BY <1>3, <1>5, RedundancyPositive, TimesMonotone
<1>7. PICK c : c = Redundancy * k
  OBVIOUS
<1>8. c \in Nat \ {0} /\ c * 1 <= c * n
  BY <1>3, <1>7, RedundancyPositive, ProductPositive, TimesAtMost
<1>9. SWITCH_ACCESS = c * n
  BY <1>3, <1>4, <1>7, RedundancyPositive, Z3
<1>10. r * Redundancy = Redundancy * r /\ r * Redundancy \in Nat
  BY <1>5, RedundancyPositive
<1>11. r * Redundancy < SWITCH_ACCESS
  BY <1>6, <1>7, <1>8, <1>9, <1>10, RedundancyPositive, Tiers
<1> QED  BY <1>10, <1>11, TierRanges

(* Within the usage text a group has room for the servers of its rack.     *)
LEMMA RoomForARack ==
  ASSUME TopologyTypeOK, PortsSuffice, WithinUsage
  PROVE  /\ RackSize + Redundancy <= NUMBER_OF_PORTS_SWITCH_ACCESS
         /\ pt <= m => ~ Full
<1>1. NUMBER_CHASSI_RACK * NUMBER_OF_SERVERS_IN_ONE_CHASSIS
        <= NUMBER_CHASSI_RACK * DefaultServers
  BY SizesKnown, TimesAtMost DEF WithinUsage
<1>2. NUMBER_CHASSI_RACK * DefaultServers = DefaultServers * NUMBER_CHASSI_RACK
      /\ NUMBER_CHASSI_RACK * DefaultServers \in Nat
  BY SizesKnown
<1>3. RackSize + Redundancy <= NUMBER_OF_PORTS_SWITCH_ACCESS
  BY <1>1, <1>2, SizesKnown, RedundancyPositive DEF PortsSuffice, RackSize
<1>4. pt \in Nat /\ m \in Nat /\ m <= RackSize
  BY SizesKnown, RedundancyPositive DEF TopologyTypeOK
<1> QED  BY <1>3, <1>4, SizesKnown, RedundancyPositive DEF Full

-----------------------------------------------------------------------------
LEMMA InitNetwork == TopologyInit => Network
<1> SUFFICES ASSUME TopologyInit  PROVE Network
  OBVIOUS
<1> USE DEF TopologyInit
<1>1. TopologyInv
  BY InitTopologyInv
<1>2. RackSize \in Nat \ {0} /\ Switches = Access
  BY <1>1, SizesKnown DEF TopologyInv, Wiring
<1>3. 0 * RackSize + 0 = 0 /\ 0 * Redundancy = 0
  BY <1>2, RedundancyPositive
<1>4. Places
  BY <1>3 DEF Places
<1>5. Reach
  <2>1. \A s \in ServerNumbers : ~ (s < 0)
    BY DEF ServerNumbers
  <2>2. \A x \in Access \cup Aggregation : ~ (x < 0)
    BY TierRanges, Tiers
  <2> QED  BY <1>3, <2>1, <2>2 DEF Reach
<1>6. Ports
  <2>1. \A sw \in Access : Bottom[sw] = <<>> /\ Top[sw] = <<>>
    BY DEF Switch_ACCESS
  <2>2. \A sw \in Access : ~ (sw < 0)
    BY TierRanges
  <2> QED  BY <1>2, <2>1, <2>2, RedundancyPositive DEF Ports
<1> QED  BY <1>4, <1>5, <1>6 DEF Network

(* Steps that wire nothing. *)
LEMMA UnwiredNetwork ==
  ASSUME Network, UNCHANGED <<sizes, wiring, stage>>
  PROVE  Network'
<1>1. /\ UNCHANGED <<stage, rck, l, m, pt, i, up, Bottom, Top, link>>
      /\ RackSize' = RackSize /\ ServerNumbers' = ServerNumbers /\ Switches' = Switches
      /\ WithinUsage' = WithinUsage
  BY DEF wiring, indices, sizes, RackSize, ServerNumbers, Switches, WithinUsage
<1>2. \A s : Above(s)' = Above(s)
  BY <1>1 DEF Above
<1>3. Places' /\ Reach'
  BY <1>1, <1>2 DEF Network, Places, Reach
<1>4. Ports'
  BY <1>1 DEF Network, Ports, Round
<1> QED  BY <1>3, <1>4 DEF Network

(* A server gets links to the group of its rack. *)
LEMMA ConnectServerNetwork ==
  ASSUME TopologyInv, Network, ConnectServer
  PROVE  Network'
<1>1. /\ stage = "servers" /\ l \in Access /\ Aligned(l) /\ Switches = Access
      /\ Group(l) \subseteq Access
  BY GroupInAccess DEF ConnectServer, TopologyInv, Wiring
<1>2. PICK s0 : s0 = rck * RackSize + m
  OBVIOUS
<1>3. PICK new : new = Link_SV_to_SW(l)
  OBVIOUS
<1>4. /\ stage' = stage /\ rck' = rck /\ l' = l /\ i' = i /\ Top' = Top
      /\ m' = m + 1 /\ pt' = pt + 1
      /\ Bottom' = [sw \in Access |-> IF sw \in Group(l)
                      THEN Append(Bottom[sw], s0) ELSE Bottom[sw]]
      /\ link' = [link EXCEPT ![s0] = @ \o new]
      /\ RackSize' = RackSize /\ ServerNumbers' = ServerNumbers /\ Switches' = Switches
      /\ (WithinUsage' <=> WithinUsage)
  BY <1>1, <1>2, <1>3
  DEF ConnectServer, Connect, EstablishingConnection, sizes, RackSize, ServerNumbers,
      Switches, WithinUsage
<1>5. /\ RackSize \in Nat \ {0} /\ rck \in Nat /\ m \in Nat /\ pt \in Nat /\ m < RackSize
      /\ Bottom \in [Access -> Seq(Nat)] /\ link \in [ServerNumbers -> Seq(Access \X Nat)]
      /\ rck * RackSize \in Nat /\ l \in Nat
  <2>1. RackSize \in Nat \ {0} /\ rck \in Nat /\ m \in Nat /\ pt \in Nat /\ l \in Nat
    BY SizesKnown, RedundancyPositive DEF TopologyInv, TopologyTypeOK
  <2>2. rck * RackSize \in Nat
    BY <2>1
  <2> QED  BY <1>1, <2>1, <2>2 DEF TopologyInv, TopologyTypeOK, ConnectServer
<1>6. Places'
  <2>1. i = 0 /\ (WithinUsage => l = rck * Redundancy /\ pt <= m)
    BY <1>1 DEF Network, Places
  <2>2. pt <= m => pt + 1 <= m + 1
    BY <1>5
  <2>3. (WithinUsage => stage # "undefined" /\ l = rck * Redundancy /\ pt <= m)'
    BY <1>1, <1>4, <2>1, <2>2
  <2> QED  BY <1>1, <1>4, <2>1, <2>3 DEF Places
<1>7. /\ new \in Seq(Access \X Nat)
      /\ Group(l) \subseteq {new[k][1] : k \in DOMAIN new}
  <2>1. new \in Seq(Access \X Nat)
    BY <1>1, <1>3, <1>5, NewLinks
  <2>2. ASSUME NEW sw \in Group(l)
        PROVE  \E k \in DOMAIN new : new[k][1] = sw
    <3>1. sw - l + 1 \in 1..Redundancy /\ l + (sw - l + 1) - 1 = sw
      BY <1>5, RedundancyPositive DEF Group
    <3>2. /\ DOMAIN new = 1..Redundancy
          /\ \A n \in 1..Redundancy : new[n] = <<l + n - 1, Len(Bottom[l + n - 1]) + 1>>
      BY <1>3 DEF Link_SV_to_SW
    <3>3. new[sw - l + 1] = <<sw, Len(Bottom[sw]) + 1>>
      BY <3>1, <3>2
    <3> QED  BY <3>1, <3>2, <3>3
  <2> QED  BY <2>1, <2>2
<1>8. ASSUME NEW s \in ServerNumbers
      PROVE  Above(s) \subseteq Above(s)' /\ (s = s0 => Group(l) \subseteq Above(s)')
  <2>1. CASE s # s0
    <3>1. link'[s] = link[s]
      BY <1>4, <1>5, <2>1
    <3> QED  BY <2>1, <3>1 DEF Above
  <2>2. CASE s = s0
    <3>1. link'[s] = link[s] \o new /\ link[s] \in Seq(Access \X Nat)
      BY <1>4, <1>5, <2>2
    <3>2. Range(link[s] \o new) = Range(link[s]) \cup Range(new)
      BY <1>7, <3>1, RangeConcatenation
    <3>3. Above(s)' = {x[1] : x \in Range(link[s] \o new)}
      BY <3>1 DEF Above, Range
    <3>4. /\ Above(s) = {x[1] : x \in Range(link[s])}
          /\ {new[k][1] : k \in DOMAIN new} = {x[1] : x \in Range(new)}
      BY DEF Above, Range
    <3> QED  BY <1>7, <3>2, <3>3, <3>4
  <2> QED  BY <2>1, <2>2
<1>9. Reach'
  <2>1. ASSUME WithinUsage, NEW s \in ServerNumbers, s < rck * RackSize + (m + 1)
        PROVE  \E first \in Access : Group(first) \subseteq Above(s)'
    <3>1. CASE s < rck * RackSize + m
      <4>1. \E first \in Access : Group(first) \subseteq Above(s)
        BY <2>1, <3>1 DEF Network, Reach
      <4> QED  BY <1>8, <4>1
    <3>2. CASE ~ (s < rck * RackSize + m)
      <4>1. s \in Nat
        BY DEF ServerNumbers
      <4>2. s = s0
        BY <1>2, <1>5, <2>1, <3>2, <4>1
      <4> QED  BY <1>1, <1>8, <4>2
    <3> QED  BY <3>1, <3>2
  <2>2. i = 0
    BY <1>1 DEF Network, Places
  <2>3. \A x \in Access \cup Aggregation : ~ (x < 0)
    BY TierRanges, Tiers
  <2> QED  BY <1>4, <2>1, <2>2, <2>3 DEF Reach
<1>10. Ports'
  <2>1. ASSUME WithinUsage, NEW sw \in Access
        PROVE  Len(Bottom'[sw]) <= IF sw < l THEN RackSize
                                   ELSE IF sw \in Group(l) THEN pt + 1 ELSE 0
    <3>1. Len(Bottom[sw]) <= IF sw < l THEN RackSize
                             ELSE IF sw \in Group(l) THEN pt ELSE 0
      BY <2>1 DEF Network, Ports
    <3>2. CASE sw \in Group(l)
      <4>1. ~ (sw < l)
        BY <1>5, <3>2 DEF Group
      <4>2. Len(Bottom'[sw]) = Len(Bottom[sw]) + 1 /\ Len(Bottom[sw]) \in Nat
        <5>1. Bottom[sw] \in Seq(Nat) /\ Bottom'[sw] = Append(Bottom[sw], s0)
          BY <1>4, <1>5, <3>2
        <5>2. s0 \in Nat
          <6>1. \A b \in Nat : b + m \in Nat
            BY <1>5
          <6> QED  BY <1>2, <1>5, <6>1
        <5> QED  BY <5>1, <5>2
      <4> QED  BY <1>5, <3>1, <3>2, <4>1, <4>2
    <3>3. CASE sw \notin Group(l)
      BY <1>4, <3>1, <3>3
    <3> QED  BY <3>2, <3>3
  <2>2. \A sw \in Switches : Len(Top'[sw]) <= IF sw < i THEN Redundancy ELSE 0
    BY <1>4 DEF Network, Ports
  <2> QED  BY <1>1, <1>4, <2>1, <2>2 DEF Ports
<1> QED  BY <1>6, <1>9, <1>10 DEF Network

(* A group that is full: not within the usage text.                        *)
LEMMA FullNetwork ==
  ASSUME PortsSuffice, TopologyInv, Network,
         ConnectServerToNextGroup \/ ConnectOutOfRange \/ SkipPlace
  PROVE  Network'
<1> USE DEF ConnectServerToNextGroup, ConnectOutOfRange, SkipPlace
<1>1. stage = "servers" /\ i = 0 /\ Switches = Access /\ Full
  BY DEF TopologyInv, Wiring, Network, Places
<1>2. ~ WithinUsage
  BY <1>1, RoomForARack DEF TopologyInv, Network, Places
<1>3. /\ stage' \in {"servers", "undefined"} /\ i' = 0 /\ Top' = Top /\ sizes' = sizes
      /\ Switches' = Switches
  BY <1>1 DEF Connect, EstablishingConnection, wiring, Switches
<1>4. ~ WithinUsage'
  BY <1>2, <1>3 DEF WithinUsage, sizes
<1>5. \A x \in Access \cup Aggregation : ~ (x < 0)
  BY TierRanges, Tiers
<1>6. Places' /\ Reach'
  BY <1>1, <1>3, <1>4, <1>5 DEF Places, Reach
<1>7. Ports'
  BY <1>1, <1>3, <1>4 DEF Network, Ports
<1> QED  BY <1>6, <1>7 DEF Network

(* The next rack: its group is there when the rack is.                     *)
LEMMA NextRackNetwork ==
  ASSUME TopologyInv, Network, NextRack
  PROVE  Network'
<1>1. /\ stage = "servers" /\ rck' = rck + 1 /\ pt' = 0 /\ m' = 0 /\ l' = l + Redundancy
      /\ stage' = (IF rck' \in Racks /\ l' \in Access THEN "servers" ELSE "connected")
      /\ m = RackSize \/ ~ InRack
      /\ UNCHANGED <<i, up, Bottom, Top, link>>
      /\ RackSize' = RackSize /\ ServerNumbers' = ServerNumbers /\ Switches' = Switches
      /\ (WithinUsage' <=> WithinUsage)
  BY DEF NextRack, sizes, RackSize, ServerNumbers, Switches, WithinUsage
<1>2. /\ TopologyTypeOK /\ RackSize \in Nat \ {0} /\ rck \in Nat /\ rck + 1 \in Nat
      /\ m \in Nat /\ m <= RackSize /\ pt \in Nat /\ l \in Nat
      /\ rck * RackSize \in Nat /\ rck * Redundancy \in Nat
  <2>1. /\ RackSize \in Nat \ {0} /\ rck \in Nat /\ m \in Nat /\ m <= RackSize
        /\ pt \in Nat /\ l \in Nat
    BY SizesKnown, RedundancyPositive DEF TopologyInv, TopologyTypeOK
  <2>2. rck * RackSize \in Nat /\ rck * Redundancy \in Nat
    BY <2>1, RedundancyPositive
  <2> QED  BY <2>1, <2>2 DEF TopologyInv
<1>3. /\ (rck + 1) * RackSize = rck * RackSize + RackSize
      /\ (rck + 1) * Redundancy = rck * Redundancy + Redundancy
  BY <1>2, RedundancyPositive
<1>4. i = 0 /\ (WithinUsage => l = rck * Redundancy /\ pt <= m)
  BY <1>1 DEF Network, Places
<1>5. ASSUME WithinUsage, stage' # "servers", NEW s \in ServerNumbers
      PROVE  s < (rck + 1) * RackSize
  <2>1. l' = (rck + 1) * Redundancy
    BY <1>1, <1>3, <1>4, <1>5
  <2>2. rck + 1 \notin Racks
    BY <1>1, <1>2, <1>5, <2>1, GroupOfRack
  <2> QED  BY <1>2, <2>2, AllRacksPassed
<1>6. ASSUME NEW s \in ServerNumbers, s < (rck + 1) * RackSize
      PROVE  s < rck * RackSize + m
  <2>1. PICK b : b = rck * RackSize
    OBVIOUS
  <2>2. b \in Nat /\ s \in Nat /\ s < b + RackSize
    BY <1>2, <1>3, <1>6, <2>1 DEF ServerNumbers
  <2>3. CASE m = RackSize
    BY <2>1, <2>2, <2>3
  <2>4. CASE ~ InRack /\ b <= s
    <3>1. s - b < Cardinality(Rack(rck))
      BY <1>2, <2>1, <2>2, <2>4, InItsRack
    <3>2. ~ (m < Cardinality(Rack(rck))) /\ Cardinality(Rack(rck)) \in Nat
      BY <1>2, <2>4, RackFinite DEF InRack
    <3>3. s < b + m
      BY <1>2, <2>2, <3>1, <3>2
    <3> QED  BY <2>1, <3>3
  <2>5. CASE s < b
    <3>1. s < b + m
      BY <1>2, <2>2, <2>5
    <3> QED  BY <2>1, <3>1
  <2> QED  BY <1>1, <2>2, <2>3, <2>4, <2>5
<1>7. \A s : Above(s)' = Above(s)
  BY <1>1 DEF Above
<1>8. \A s \in ServerNumbers : s \in Nat
  BY DEF ServerNumbers
<1>9. (rck + 1) * RackSize + 0 = (rck + 1) * RackSize
  <2>1. (rck + 1) * RackSize \in Nat
    BY <1>2
  <2> QED  BY <2>1
<1>10. Places'
  <2>1. ASSUME WithinUsage'
        PROVE  /\ stage' # "undefined" /\ l' = rck' * Redundancy /\ pt' <= m'
               /\ stage' # "servers" => \A s \in ServerNumbers' : s < rck' * RackSize' + m'
    <3>1. WithinUsage
      BY <1>1, <2>1
    <3>2. l' = rck' * Redundancy /\ pt' <= m' /\ stage' # "undefined"
      BY <1>1, <1>3, <1>4, <3>1
    <3>3. stage' # "servers" => \A s \in ServerNumbers' : s < rck' * RackSize' + m'
      BY <1>1, <1>5, <1>9, <3>1
    <3> QED  BY <3>2, <3>3
  <2>2. stage' \in {"servers", "connected"} /\ i' = 0
    BY <1>1, <1>4
  <2> QED  BY <2>1, <2>2 DEF Places
<1>11. Reach'
  <2>1. ASSUME WithinUsage, NEW s \in ServerNumbers, s < (rck + 1) * RackSize
        PROVE  \E first \in Access : Group(first) \subseteq Above(s)
    BY <1>6, <2>1 DEF Network, Reach
  <2>2. \A x \in Access \cup Aggregation : ~ (x < 0)
    BY TierRanges, Tiers
  <2> QED  BY <1>1, <1>4, <1>7, <1>9, <2>1, <2>2 DEF Reach
<1>12. Ports'
  <2>1. ASSUME WithinUsage, NEW sw \in Access
        PROVE  Len(Bottom[sw]) <= IF sw < l + Redundancy THEN RackSize ELSE 0
    <3>1. Len(Bottom[sw]) <= IF sw < l THEN RackSize
                             ELSE IF sw \in Group(l) THEN pt ELSE 0
      BY <2>1 DEF Network, Ports
    <3>2. sw \in Nat /\ pt <= RackSize /\ Len(Bottom[sw]) \in Nat
      <4>1. Bottom[sw] \in Seq(Nat)
        BY <1>2, AccessLists
      <4> QED  BY <1>2, <1>4, <2>1, <4>1, TierRanges
    <3>3. sw \in Group(l) <=> l <= sw /\ sw < l + Redundancy
      BY <1>2, <3>2, RedundancyPositive DEF Group
    <3> QED  BY <1>2, <3>1, <3>2, <3>3, RedundancyPositive
  <2>2. \A sw \in Switches : Len(Top[sw]) <= IF sw < i THEN Redundancy ELSE 0
    BY DEF Network, Ports
  <2>3. stage' \in {"servers", "connected"}
    BY <1>1
  <2> QED  BY <1>1, <2>1, <2>2, <2>3 DEF Ports
<1> QED  BY <1>10, <1>11, <1>12 DEF Network

-----------------------------------------------------------------------------
(* No switch of the upper tier gets more links than its share, rounded up. *)
LEMMA RoundBound ==
  ASSUME NEW lo \in Nat, NEW size \in Nat \ {0}, NEW n \in Nat, NEW k \in Nat, n <= k,
         up \in Nat, Round(lo, size, n),
         \A sw \in lo..(lo + size - 1) : Bottom[sw] \in Seq(Nat)
  PROVE  \A sw \in lo..(lo + size - 1) : Len(Bottom[sw]) <= Ceil(k * Redundancy, size)
<1>1. PICK c \in Nat :
        /\ Redundancy * n = size * c + (up - lo)
        /\ \A sw \in lo..(lo + size - 1) : Len(Bottom[sw]) <= IF sw < up THEN c + 1 ELSE c
  BY DEF Round
<1>2. lo <= up
  BY DEF Round
<1>3. PICK x : x = k * Redundancy
  OBVIOUS
<1>4. x \in Nat /\ Redundancy * n <= x
  <2>1. Redundancy * n <= Redundancy * k
    BY RedundancyPositive, TimesAtMost
  <2>2. Redundancy * k = k * Redundancy /\ k * Redundancy \in Nat
    BY RedundancyPositive
  <2> QED  BY <1>3, <2>1, <2>2
<1>5. PICK a, b : a = size * c /\ b = size * (c + 1)
  OBVIOUS
<1>6. a \in Nat /\ b = a + size
  BY <1>5
<1>7. a + (up - lo) <= x
  BY <1>1, <1>4, <1>5
<1>8. \A y \in Nat : size * y < x + size => y <= Ceil(x, size)
  BY <1>4, CeilBounds
<1>9. Ceil(x, size) \in Nat
  BY <1>4, CeilBounds
<1>10. c <= Ceil(x, size)
  <2>1. a < x + size
    BY <1>2, <1>4, <1>6, <1>7
  <2> QED  BY <1>5, <1>8, <2>1
<1>11. lo < up => c + 1 <= Ceil(x, size)
  <2>1. lo < up => b < x + size
    BY <1>4, <1>6, <1>7
  <2>2. c + 1 \in Nat
    OBVIOUS
  <2> QED  BY <1>5, <1>8, <2>1, <2>2
<1>12. ASSUME NEW sw \in lo..(lo + size - 1)
       PROVE  Len(Bottom[sw]) <= Ceil(x, size)
  <2>1. Len(Bottom[sw]) \in Nat /\ sw \in Nat /\ lo <= sw
    <3>1. Bottom[sw] \in Seq(Nat)
      OBVIOUS
    <3> QED  BY <3>1
  <2>2. Len(Bottom[sw]) <= IF sw < up THEN c + 1 ELSE c
    BY <1>1
  <2> QED  BY <1>9, <1>10, <1>11, <2>1, <2>2
<1> QED  BY <1>3, <1>12

(* The switches below n have their links up, the others none yet. *)
LinkedBelow(n) == \A sw \in Switches : Len(Top[sw]) <= IF sw < n THEN Redundancy ELSE 0

(* A step links switch n to all of group up of the size switches from lo. *)
LinksOneMore(lo, size, n) ==
  /\ \A sw \in Switches : Len(Top'[sw]) <= IF sw < n + 1 THEN Redundancy ELSE 0
  /\ \A sw \in Switches : sw # n => Top'[sw] = Top[sw]
  /\ Group(up) \subseteq ToSet(Top'[n])
  /\ \A sw \in Switches : sw < lo => Bottom'[sw] = Bottom[sw]
  /\ Group(up) \subseteq lo..(lo + size - 1)

(* One more switch is linked to the next group of the upper tier. *)
LEMMA ConnectUpRound ==
  ASSUME TopologyInv, NEW lo \in Nat \ {0}, NEW size \in Nat \ {0}, NEW n \in Nat, NEW sw0 \in Nat,
         Aligned(lo), Aligned(size), Switches = 0..(lo + size - 1),
         up \in lo..(lo + size - 1), Aligned(up), sw0 = i, i \in Switches, ConnectUp(lo),
         Round(lo, size, n), LinkedBelow(sw0)
  PROVE  Round(lo, size, n + 1)' /\ LinksOneMore(lo, size, sw0)
<1>1. /\ Bottom \in [Switches -> Seq(Nat)] /\ Top \in [Switches -> Seq(Switches)]
      /\ up \in Nat /\ lo <= up /\ up < lo + size
  <2>1. /\ Bottom \in [Switches -> Seq(Nat)] /\ Top \in [Switches -> Seq(Switches)]
        /\ up \in Nat
    BY DEF TopologyInv, TopologyTypeOK
  <2>2. lo <= up /\ up < lo + size
    <3>1. up \in lo..(lo + size - 1) /\ lo \in Nat /\ size \in Nat
      OBVIOUS
    <3> QED  BY ONLY <3>1
  <2> QED  BY <2>1, <2>2
<1>2. up + Redundancy <= lo + size
  <2>1. Aligned(lo + size)
    BY AlignedSum
  <2> QED  BY <1>1, <2>1, AlignedFits
<1>3. \A sw \in Nat : sw \in Group(up) <=> up <= sw /\ sw < up + Redundancy
  <2>1. up \in Int /\ Redundancy \in Int
    BY <1>1, RedundancyPositive
  <2> QED  BY ONLY <2>1 DEF Group
<1>4. Group(up) \subseteq lo..(lo + size - 1)
  BY <1>1, <1>2, RedundancyPositive DEF Group
<1>5. Cardinality(Switches) = lo + size
  <2>1. Cardinality(0..(lo + size - 1)) = lo + size
    BY FS_Interval
  <2> QED  BY <2>1
<1>6. PICK uppers : uppers = [j \in 1..Redundancy |-> up + j - 1]
  OBVIOUS
<1>7. /\ Bottom' = [sw \in Switches |-> IF sw \in Group(up)
                      THEN Append(Bottom[sw], sw0) ELSE Bottom[sw]]
      /\ Top' = [Top EXCEPT ![sw0] = @ \o uppers]
      /\ up' = IF up + Redundancy >= lo + size THEN lo ELSE up + Redundancy
  BY <1>5, <1>6 DEF ConnectUp, EstablishingConnection,
                    EstablishingConnection_Top_To_Bottom
<1>8. /\ uppers \in Seq(Switches) /\ Len(uppers) = Redundancy
      /\ Group(up) \subseteq ToSet(uppers)
  <2>1. \A j \in 1..Redundancy : up + j - 1 \in Switches
    BY <1>1, <1>2, RedundancyPositive
  <2>2. uppers \in [1..Redundancy -> Switches]
    BY <1>6, <2>1
  <2>3. uppers \in Seq(Switches) /\ Len(uppers) = Redundancy
    BY ONLY <2>2, RedundancyPositive
  <2>4. ASSUME NEW sw \in Group(up)
        PROVE  \E j \in 1..Redundancy : uppers[j] = sw
    <3>1. sw - up + 1 \in 1..Redundancy /\ up + (sw - up + 1) - 1 = sw
      BY <1>1, RedundancyPositive DEF Group
    <3> QED  BY <1>6, <3>1
  <2>5. DOMAIN uppers = 1..Redundancy
    BY <1>6
  <2> QED  BY <2>3, <2>4, <2>5 DEF ToSet
<1>9. \A sw \in Switches : sw # sw0 => Top'[sw] = Top[sw]
  BY <1>1, <1>7
<1>10. /\ Top'[sw0] = Top[sw0] \o uppers /\ Top[sw0] \in Seq(Switches) /\ Len(Top[sw0]) = 0
  <2>1. Top[sw0] \in Seq(Switches)
    BY <1>1
  <2>2. Len(Top[sw0]) \in Nat /\ Len(Top[sw0]) <= 0
    BY <2>1 DEF LinkedBelow
  <2>3. Top'[sw0] = Top[sw0] \o uppers
    BY <1>1, <1>7
  <2> QED  BY <2>1, <2>2, <2>3
<1>11. Top'[sw0] = uppers
  <2>1. Top[sw0] = <<>>
    BY <1>10, EmptySeq
  <2> QED  BY <1>8, <1>10, <2>1
<1>12. \A sw \in Switches : Len(Top'[sw]) <= IF sw < sw0 + 1 THEN Redundancy ELSE 0
  <2> TAKE sw \in Switches
  <2>1. CASE sw = sw0
    BY <1>8, <1>11, <2>1, RedundancyPositive
  <2>2. CASE sw # sw0
    <3>1. Len(Top[sw]) <= (IF sw < sw0 THEN Redundancy ELSE 0)
      BY DEF LinkedBelow
    <3>2. Top'[sw] = Top[sw] /\ (sw < sw0 + 1 <=> sw < sw0)
      <4>1. sw \in Nat
        OBVIOUS
      <4> QED  BY <1>9, <2>2, <4>1
    <3> QED  BY ONLY <3>1, <3>2
  <2> QED  BY <2>1, <2>2
<1>13. \A sw \in Switches : sw < lo => Bottom'[sw] = Bottom[sw]
  BY <1>4, <1>7
<1>14. PICK c \in Nat :
         /\ Redundancy * n = size * c + (up - lo)
         /\ \A sw \in lo..(lo + size - 1) : Len(Bottom[sw]) <= IF sw < up THEN c + 1 ELSE c
  BY DEF Round
<1>15. ASSUME NEW sw \in lo..(lo + size - 1)
       PROVE  Len(Bottom'[sw]) <= IF sw < up + Redundancy THEN c + 1 ELSE c
  <2>1. Bottom[sw] \in Seq(Nat) /\ Len(Bottom[sw]) \in Nat /\ sw \in Switches /\ sw \in Nat
    <3>1. sw \in Switches /\ sw \in Nat
      OBVIOUS
    <3>2. Bottom[sw] \in Seq(Nat)
      BY <1>1, <3>1
    <3> QED  BY <3>1, <3>2
  <2>2. Len(Bottom[sw]) <= IF sw < up THEN c + 1 ELSE c
    BY <1>14
  <2>3. CASE sw \in Group(up)
    <3>1. Len(Bottom'[sw]) = Len(Bottom[sw]) + 1
      BY <1>7, <2>1, <2>3
    <3> QED  BY <1>1, <1>3, <2>1, <2>2, <2>3, <3>1
  <2>4. CASE sw \notin Group(up)
    <3>1. Bottom'[sw] = Bottom[sw]
      BY <1>7, <2>1, <2>4
    <3>2. ~ (up <= sw /\ sw < up + Redundancy)
      BY <1>3, <2>1, <2>4
    <3>3. up \in Nat /\ Redundancy \in Nat
      BY <1>1, RedundancyPositive
    <3> QED  BY ONLY <2>1, <2>2, <3>1, <3>2, <3>3, c \in Nat
  <2> QED  BY <2>3, <2>4
<1>16. /\ Redundancy * (n + 1) = Redundancy * n + Redundancy
       /\ size * (c + 1) = size * c + size
       /\ Redundancy * n \in Nat /\ size * c \in Nat
  BY RedundancyPositive
<1>17. CASE up + Redundancy >= lo + size
  <2>1. up' = lo /\ up + Redundancy = lo + size
    BY <1>1, <1>2, <1>7, <1>17, RedundancyPositive
  <2>2. Redundancy * (n + 1) = size * (c + 1) + (up' - lo)
    <3>1. PICK a, b : a = Redundancy * n /\ b = size * c
      OBVIOUS
    <3>2. a \in Nat /\ b \in Nat /\ a = b + (up - lo)
      BY <1>14, <1>16, <3>1
    <3>3. a + Redundancy = (b + size) + (up' - lo)
      BY <1>1, <2>1, <3>2, RedundancyPositive
    <3> QED  BY <1>16, <3>1, <3>3, Zenon
  <2>3. \A sw \in lo..(lo + size - 1) :
          Len(Bottom'[sw]) <= IF sw < up' THEN (c + 1) + 1 ELSE c + 1
    BY <1>15, <2>1
  <2>4. Round(lo, size, n + 1)'
    BY <2>1, <2>2, <2>3, c + 1 \in Nat DEF Round
  <2> QED  BY <1>4, <1>8, <1>9, <1>11, <1>12, <1>13, <2>4 DEF LinksOneMore
<1>18. CASE ~ (up + Redundancy >= lo + size)
  <2>1. up' = up + Redundancy /\ lo <= up'
    BY <1>1, <1>7, <1>18, RedundancyPositive
  <2>2. Redundancy * (n + 1) = size * c + (up' - lo)
    <3>1. PICK a, b : a = Redundancy * n /\ b = size * c
      OBVIOUS
    <3>2. a \in Nat /\ b \in Nat /\ a = b + (up - lo)
      BY <1>14, <1>16, <3>1
    <3>3. a + Redundancy = b + (up' - lo)
      BY <1>1, <2>1, <3>2, RedundancyPositive
    <3> QED  BY <1>16, <3>1, <3>3, Zenon
  <2>3. \A sw \in lo..(lo + size - 1) :
          Len(Bottom'[sw]) <= IF sw < up' THEN c + 1 ELSE c
    BY <1>15, <2>1
  <2>4. Round(lo, size, n + 1)'
    BY <2>1, <2>2, <2>3 DEF Round
  <2> QED  BY <1>4, <1>8, <1>9, <1>11, <1>12, <1>13, <2>4 DEF LinksOneMore
<1> QED  BY <1>17, <1>18

-----------------------------------------------------------------------------
(* The next tier begins without links. *)
LEMMA CreateAggregationNetwork ==
  ASSUME TopologyInv, Network, CreateAggregation
  PROVE  Network'
<1>1. /\ stage = "connected" /\ stage' = "aggregation" /\ up' = SWITCH_ACCESS
      /\ Switches = Access /\ i = 0
      /\ UNCHANGED <<rck, l, m, pt, i, link>>
      /\ RackSize' = RackSize /\ ServerNumbers' = ServerNumbers /\ (WithinUsage' <=> WithinUsage)
  BY DEF CreateAggregation, sizes, indices, RackSize, ServerNumbers, WithinUsage,
         TopologyInv, Wiring, Network, Places
<1>2. \A s : Above(s)' = Above(s)
  BY <1>1 DEF Above
<1>3. /\ Switches' = Access \cup Aggregation
      /\ \A sw \in Access : Bottom'[sw] = Bottom[sw] /\ Top'[sw] = Top[sw]
      /\ \A sw \in Aggregation : Bottom'[sw] = <<>> /\ Top'[sw] = <<>>
  <2>1. DOMAIN Bottom = Access /\ DOMAIN Top = Access
    BY <1>1 DEF Switches, TopologyInv, TopologyTypeOK
  <2>2. Access \cap Aggregation = {}
    BY TierRanges, Tiers
  <2> QED  BY <2>1, <2>2 DEF CreateAggregation, Switches, Switch_AGGREGATION, Grown
<1>4. Places'
  BY <1>1, Tiers DEF Network, Places
<1>5. Reach'
  <2>1. \A x \in Access \cup Aggregation : ~ (x < i')
    BY <1>1, TierRanges, Tiers
  <2> QED  BY <1>1, <1>2, <2>1 DEF Network, Reach
<1>6. Ports'
  <2>1. Len(<<>>) = 0 /\ i' = 0 /\ \A sw \in Switches' : ~ (sw < i')
    BY <1>1, <1>3, TierRanges, Tiers
  <2>2. \A sw \in Switches' : Len(Top'[sw]) <= IF sw < i' THEN Redundancy ELSE 0
    <3> TAKE sw \in Switches'
    <3>1. CASE sw \in Access
      BY <1>1, <1>3, <2>1, <3>1 DEF Network, Ports
    <3>2. CASE sw \in Aggregation
      BY <1>3, <2>1, <3>2
    <3> QED  BY <1>3, <3>1, <3>2
  <2>3. Round(SWITCH_ACCESS, SWITCH_AGGREGATION, i)'
    <3>1. Redundancy * 0 = SWITCH_AGGREGATION * 0 + (SWITCH_ACCESS - SWITCH_ACCESS)
      BY Tiers, RedundancyPositive
    <3>2. \A sw \in SWITCH_ACCESS..(SWITCH_ACCESS + SWITCH_AGGREGATION - 1) :
            Len(Bottom'[sw]) = 0 /\ ~ (sw < SWITCH_ACCESS)
      BY <1>3, <2>1, Tiers DEF Aggregation
    <3>3. SWITCH_ACCESS <= up'
      BY <1>1, Tiers
    <3> QED  BY <1>1, <3>1, <3>2, <3>3 DEF Round
  <2> QED  BY <1>1, <1>3, <2>2, <2>3 DEF Network, Ports
<1> QED  BY <1>4, <1>5, <1>6 DEF Network

LEMMA CreateCoreNetwork ==
  ASSUME TopologyInv, Network, CreateCore
  PROVE  Network'
<1>1. /\ stage = "aggregation" /\ stage' = "core" /\ up' = SWITCH_ACCESS + SWITCH_AGGREGATION
      /\ i \notin Access /\ Switches = Access \cup Aggregation
      /\ UNCHANGED <<rck, l, m, pt, i, link>>
      /\ RackSize' = RackSize /\ ServerNumbers' = ServerNumbers /\ (WithinUsage' <=> WithinUsage)
  BY DEF CreateCore, sizes, indices, RackSize, ServerNumbers, WithinUsage, TopologyInv, Wiring
<1>2. \A s : Above(s)' = Above(s)
  BY <1>1 DEF Above
<1>3. i = SWITCH_ACCESS
  <2>1. i \in Nat /\ i <= SWITCH_ACCESS
    BY <1>1 DEF TopologyInv, TopologyTypeOK, Network, Places
  <2> QED  BY <1>1, <2>1, TierRanges, Tiers
<1>4. /\ Switches' = Access \cup Aggregation \cup Core
      /\ \A sw \in Access \cup Aggregation : Bottom'[sw] = Bottom[sw] /\ Top'[sw] = Top[sw]
      /\ \A sw \in Core : Bottom'[sw] = <<>> /\ Top'[sw] = <<>>
  <2>1. DOMAIN Bottom = Access \cup Aggregation /\ DOMAIN Top = Access \cup Aggregation
    BY <1>1 DEF Switches, TopologyInv, TopologyTypeOK
  <2>2. (Access \cup Aggregation) \cap Core = {}
    BY TierRanges, Tiers
  <2> QED  BY <2>1, <2>2 DEF CreateCore, Switches, Switch_CORE, Grown
<1>5. Places'
  BY <1>1, <1>3, Tiers DEF Network, Places
<1>6. Reach'
  BY <1>1, <1>2, <1>4 DEF Network, Reach
<1>7. Ports'
  <2>1. Len(<<>>) = 0 /\ i' = i /\ \A sw \in Core : ~ (sw < i')
    BY <1>1, <1>3, TierRanges, Tiers
  <2>2. \A sw \in Switches' : Len(Top'[sw]) <= IF sw < i' THEN Redundancy ELSE 0
    <3> TAKE sw \in Switches'
    <3>1. CASE sw \in Access \cup Aggregation
      BY <1>1, <1>4, <2>1, <3>1 DEF Network, Ports
    <3>2. CASE sw \in Core
      BY <1>4, <2>1, <3>2
    <3> QED  BY <1>4, <3>1, <3>2
  <2>3. Round(SWITCH_ACCESS + SWITCH_AGGREGATION, SWITCH_CORE, i - SWITCH_ACCESS)'
    <3>1. PICK lo : lo = SWITCH_ACCESS + SWITCH_AGGREGATION
      OBVIOUS
    <3>2. lo \in Nat /\ i' - SWITCH_ACCESS = 0 /\ up' = lo
      BY <1>1, <1>3, <3>1, Tiers
    <3>3. Redundancy * 0 = SWITCH_CORE * 0 + (lo - lo)
      BY <3>2, Tiers, RedundancyPositive
    <3>4. \A sw \in lo..(lo + SWITCH_CORE - 1) : Len(Bottom'[sw]) = 0 /\ ~ (sw < lo)
      BY <1>4, <2>1, <3>1, Tiers DEF Core
    <3>5. lo <= up'
      BY <3>2
    <3>6. Redundancy * (i' - SWITCH_ACCESS) = SWITCH_CORE * 0 + (up' - lo)
      BY <3>2, <3>3, Zenon
    <3>7. \A sw \in lo..(lo + SWITCH_CORE - 1) :
            Len(Bottom'[sw]) <= IF sw < up' THEN 0 + 1 ELSE 0
      BY <3>2, <3>4
    <3>8. Round(lo, SWITCH_CORE, i - SWITCH_ACCESS)'
      BY ONLY <3>5, <3>6, <3>7, 0 \in Nat, Zenon DEF Round
    <3> QED  BY <3>1, <3>8
  <2>4. \A sw \in Aggregation :
          Len(Bottom'[sw]) <= Ceil(SWITCH_ACCESS * Redundancy, SWITCH_AGGREGATION)
    <3>1. Round(SWITCH_ACCESS, SWITCH_AGGREGATION, SWITCH_ACCESS)
      BY <1>1, <1>3 DEF Network, Ports
    <3>2. /\ up \in Nat
          /\ \A sw \in SWITCH_ACCESS..(SWITCH_ACCESS + SWITCH_AGGREGATION - 1) :
               Bottom[sw] \in Seq(Nat)
      BY <1>1 DEF TopologyInv, TopologyTypeOK, Aggregation
    <3>3. SWITCH_ACCESS \in Nat /\ SWITCH_ACCESS <= SWITCH_ACCESS
      BY Tiers
    <3>4. \A sw \in SWITCH_ACCESS..(SWITCH_ACCESS + SWITCH_AGGREGATION - 1) :
            Len(Bottom[sw]) <= Ceil(SWITCH_ACCESS * Redundancy, SWITCH_AGGREGATION)
      BY <3>1, <3>2, <3>3, Tiers, RoundBound
    <3> QED  BY <1>4, <3>4 DEF Aggregation
  <2> QED  BY <1>1, <1>4, <2>2, <2>3, <2>4 DEF Network, Ports
<1> QED  BY <1>5, <1>6, <1>7 DEF Network

LEMMA CreatedNetwork ==
  ASSUME TopologyInv, Network, Created
  PROVE  Network'
<1>1. /\ stage = "core" /\ stage' = "created" /\ i \notin Aggregation
      /\ UNCHANGED <<rck, l, m, pt, i, up, Bottom, Top, link>>
      /\ RackSize' = RackSize /\ ServerNumbers' = ServerNumbers /\ Switches' = Switches
      /\ (WithinUsage' <=> WithinUsage)
  BY DEF Created, wiring, indices, sizes, RackSize, ServerNumbers, Switches, WithinUsage
<1>2. \A s : Above(s)' = Above(s)
  BY <1>1 DEF Above
<1>3. i = SWITCH_ACCESS + SWITCH_AGGREGATION
  <2>1. i \in Nat /\ SWITCH_ACCESS <= i /\ i <= SWITCH_ACCESS + SWITCH_AGGREGATION
    BY <1>1 DEF TopologyInv, TopologyTypeOK, Network, Places
  <2> QED  BY <1>1, <2>1, TierRanges, Tiers
<1>4. Places' /\ Reach'
  BY <1>1, <1>2, <1>3 DEF Network, Places, Reach
<1>5. Ports'
  BY <1>1 DEF Network, Ports, Round
<1> QED  BY <1>4, <1>5 DEF Network

(* The links between a switch and a group of the tier above. *)
LEMMA ConnectAccessNetwork ==
  ASSUME TopologyInv, Network, ConnectAccess
  PROVE  Network'
<1>1. /\ stage = "aggregation" /\ stage' = stage /\ i \in Access /\ i' = i + 1
      /\ Switches = Access \cup Aggregation /\ up \in Aggregation /\ Aligned(up)
      /\ ConnectUp(SWITCH_ACCESS)
      /\ UNCHANGED <<rck, l, m, pt, link>>
      /\ RackSize' = RackSize /\ ServerNumbers' = ServerNumbers /\ (WithinUsage' <=> WithinUsage)
  BY DEF ConnectAccess, ConnectUp, sizes, indices, RackSize, ServerNumbers, WithinUsage,
         TopologyInv, Wiring
<1>2. \A s : Above(s)' = Above(s)
  BY <1>1 DEF Above
<1>3. PICK n \in Nat : n = i
  BY <1>1, TierRanges
<1>4. PICK x \in Aggregation : x = up
  BY <1>1
<1>5. Switches' = Switches
  BY DEF Switches, ConnectAccess, ConnectUp, EstablishingConnection
<1>6. /\ Round(SWITCH_ACCESS, SWITCH_AGGREGATION, n + 1)'
      /\ \A sw \in Switches : Len(Top'[sw]) <= IF sw < n + 1 THEN Redundancy ELSE 0
      /\ \A sw \in Switches : sw # n => Top'[sw] = Top[sw]
      /\ Group(x) \subseteq ToSet(Top'[n])
      /\ \A sw \in Switches : sw < SWITCH_ACCESS => Bottom'[sw] = Bottom[sw]
      /\ Group(x) \subseteq Aggregation
  <2>1. PICK lo, size : lo = SWITCH_ACCESS /\ size = SWITCH_AGGREGATION
    OBVIOUS
  <2>2. /\ lo \in Nat \ {0} /\ size \in Nat \ {0} /\ Aligned(lo) /\ Aligned(size)
        /\ ConnectUp(lo) /\ i \in Switches
    BY <1>1, <2>1, Tiers
  <2>3. Switches = 0..(lo + size - 1)
    BY <1>1, <2>1, TierRanges, Tiers
  <2>4. up \in lo..(lo + size - 1)
    BY <1>1, <2>1 DEF Aggregation
  <2>5. /\ Round(lo, size, n)
        /\ \A sw \in Switches : Len(Top[sw]) <= IF sw < i THEN Redundancy ELSE 0
    BY <1>1, <1>3, <2>1 DEF Network, Ports
  <2>6. /\ Round(lo, size, n + 1)'
        /\ \A sw \in Switches : Len(Top'[sw]) <= IF sw < n + 1 THEN Redundancy ELSE 0
        /\ \A sw \in Switches : sw # n => Top'[sw] = Top[sw]
        /\ Group(up) \subseteq ToSet(Top'[n])
        /\ \A sw \in Switches : sw < lo => Bottom'[sw] = Bottom[sw]
        /\ Group(up) \subseteq lo..(lo + size - 1)
    <3>1. /\ TopologyInv /\ lo \in Nat \ {0} /\ size \in Nat \ {0} /\ n \in Nat
          /\ Aligned(lo) /\ Aligned(size) /\ Switches = 0..(lo + size - 1)
          /\ up \in lo..(lo + size - 1) /\ Aligned(up) /\ n = i /\ i \in Switches
          /\ ConnectUp(lo) /\ Round(lo, size, n) /\ LinkedBelow(n)
      BY <1>1, <1>3, <2>2, <2>3, <2>4, <2>5 DEF LinkedBelow
    <3>2. Round(lo, size, n + 1)' /\ LinksOneMore(lo, size, n)
      BY ONLY <3>1, ConnectUpRound
    <3> QED  BY ONLY <3>2 DEF LinksOneMore
  <2> QED  BY <1>4, <2>1, <2>6 DEF Aggregation
<1>7. Places'
  <2>1. i + 1 <= SWITCH_ACCESS
    BY <1>1, TierRanges, Tiers
  <2> QED  BY <1>1, <2>1 DEF Network, Places
<1>8. Reach'
  <2>1. \A g \in Aggregation : ~ (g < i')
    BY <1>1, TierRanges, Tiers
  <2>2. ASSUME NEW a \in Access, a < i'
        PROVE  \E y \in Aggregation : Group(y) \subseteq Aggregation \cap ToSet(Top'[a])
    <3>1. CASE a = n
      BY <1>6, <3>1
    <3>2. CASE a # n
      <4>1. a < i /\ a \in Switches
        BY <1>1, <1>3, <2>2, <3>2, TierRanges
      <4>2. Top'[a] = Top[a]
        BY <1>6, <3>2, <4>1
      <4> QED  BY <4>1, <4>2 DEF Network, Reach
    <3> QED  BY <3>1, <3>2
  <2> QED  BY <1>1, <1>2, <2>1, <2>2 DEF Network, Reach
<1>9. Ports'
  <2>1. \A sw \in Access : Bottom'[sw] = Bottom[sw]
    BY <1>1, <1>6, TierRanges
  <2>2. Round(SWITCH_ACCESS, SWITCH_AGGREGATION, i)'
    BY <1>1, <1>3, <1>6 DEF Round
  <2> QED  BY <1>1, <1>3, <1>5, <1>6, <2>1, <2>2 DEF Network, Ports
<1> QED  BY <1>7, <1>8, <1>9 DEF Network

LEMMA ConnectAggregationNetwork ==
  ASSUME TopologyInv, Network, ConnectAggregation
  PROVE  Network'
<1>1. /\ stage = "core" /\ stage' = stage /\ i \in Aggregation /\ i' = i + 1
      /\ Switches = Access \cup Aggregation \cup Core /\ up \in Core /\ Aligned(up)
      /\ ConnectUp(SWITCH_ACCESS + SWITCH_AGGREGATION)
      /\ UNCHANGED <<rck, l, m, pt, link>>
      /\ RackSize' = RackSize /\ ServerNumbers' = ServerNumbers /\ (WithinUsage' <=> WithinUsage)
  BY DEF ConnectAggregation, ConnectUp, sizes, indices, RackSize, ServerNumbers, WithinUsage,
         TopologyInv, Wiring
<1>2. \A s : Above(s)' = Above(s)
  BY <1>1 DEF Above
<1>3. PICK j, n \in Nat : j = i /\ n = i - SWITCH_ACCESS /\ j \in Nat
  <2>1. i \in Nat /\ i - SWITCH_ACCESS \in Nat
    BY <1>1, TierRanges, Tiers
  <2> QED  BY <2>1
<1>4. PICK x \in Core : x = up
  BY <1>1
<1>5. Switches' = Switches
  BY DEF Switches, ConnectAggregation, ConnectUp, EstablishingConnection
<1>6. /\ Round(SWITCH_ACCESS + SWITCH_AGGREGATION, SWITCH_CORE, n + 1)'
      /\ \A sw \in Switches : Len(Top'[sw]) <= IF sw < j + 1 THEN Redundancy ELSE 0
      /\ \A sw \in Switches : sw # j => Top'[sw] = Top[sw]
      /\ Group(x) \subseteq ToSet(Top'[j])
      /\ \A sw \in Switches :
           sw < SWITCH_ACCESS + SWITCH_AGGREGATION => Bottom'[sw] = Bottom[sw]
  <2>1. PICK lo, size : lo = SWITCH_ACCESS + SWITCH_AGGREGATION /\ size = SWITCH_CORE
    OBVIOUS
  <2>2. /\ lo \in Nat \ {0} /\ size \in Nat \ {0} /\ Aligned(lo) /\ Aligned(size)
        /\ ConnectUp(lo) /\ i \in Switches
    BY <1>1, <2>1, Tiers, AlignedSum
  <2>3. Switches = 0..(lo + size - 1)
    BY <1>1, <2>1, TierRanges, Tiers
  <2>4. up \in lo..(lo + size - 1)
    BY <1>1, <2>1 DEF Core
  <2>5. /\ Round(lo, size, n)
        /\ \A sw \in Switches : Len(Top[sw]) <= IF sw < i THEN Redundancy ELSE 0
    BY <1>1, <1>3, <2>1 DEF Network, Ports
  <2>6. /\ Round(lo, size, n + 1)'
        /\ \A sw \in Switches : Len(Top'[sw]) <= IF sw < j + 1 THEN Redundancy ELSE 0
        /\ \A sw \in Switches : sw # j => Top'[sw] = Top[sw]
        /\ Group(up) \subseteq ToSet(Top'[j])
        /\ \A sw \in Switches : sw < lo => Bottom'[sw] = Bottom[sw]
    <3>1. /\ TopologyInv /\ lo \in Nat \ {0} /\ size \in Nat \ {0} /\ n \in Nat /\ j \in Nat
          /\ Aligned(lo) /\ Aligned(size) /\ Switches = 0..(lo + size - 1)
          /\ up \in lo..(lo + size - 1) /\ Aligned(up) /\ j = i /\ i \in Switches
          /\ ConnectUp(lo) /\ Round(lo, size, n) /\ LinkedBelow(j)
      BY <1>1, <1>3, <2>2, <2>3, <2>4, <2>5 DEF LinkedBelow
    <3>2. Round(lo, size, n + 1)' /\ LinksOneMore(lo, size, j)
      BY ONLY <3>1, ConnectUpRound
    <3> QED  BY ONLY <3>2 DEF LinksOneMore
  <2> QED  BY <1>4, <2>1, <2>6
<1>7. Places'
  <2>1. i \in Nat /\ SWITCH_ACCESS <= i /\ i + 1 <= SWITCH_ACCESS + SWITCH_AGGREGATION
    BY <1>1, TierRanges, Tiers
  <2> QED  BY <1>1, <2>1, Tiers DEF Network, Places
<1>8. Reach'
  <2>1. ASSUME NEW a \in Access
        PROVE  a < i /\ Top'[a] = Top[a]
    BY <1>1, <1>3, <1>6, TierRanges, Tiers
  <2>2. ASSUME NEW g \in Aggregation, g < i'
        PROVE  \E y \in Core : Group(y) \subseteq ToSet(Top'[g])
    <3>1. CASE g = j
      BY <1>6, <3>1
    <3>2. CASE g # j
      <4>1. g < i /\ g \in Switches
        BY <1>1, <1>3, <2>2, <3>2, TierRanges
      <4>2. Top'[g] = Top[g]
        BY <1>6, <3>2, <4>1
      <4> QED  BY <4>1, <4>2 DEF Network, Reach
    <3> QED  BY <3>1, <3>2
  <2> QED  BY <1>1, <1>2, <2>1, <2>2 DEF Network, Reach
<1>9. Ports'
  <2>1. \A sw \in Access \cup Aggregation : Bottom'[sw] = Bottom[sw]
    BY <1>1, <1>6, TierRanges, Tiers, SMTT(60)
  <2>2. Round(SWITCH_ACCESS + SWITCH_AGGREGATION, SWITCH_CORE, i - SWITCH_ACCESS)'
    <3>1. i' - SWITCH_ACCESS = n + 1
      BY <1>1, <1>3, TierRanges, Tiers
    <3> QED  BY <1>6, <3>1 DEF Round
  <2> QED  BY <1>1, <1>3, <1>5, <1>6, <2>1, <2>2 DEF Network, Ports
<1> QED  BY <1>7, <1>8, <1>9 DEF Network

LEMMA NextNetwork ==
  ASSUME PortsSuffice
  PROVE  TopologyInv /\ Network /\ [TopologyNext]_topologyVars => Network'
<1> SUFFICES ASSUME TopologyInv, Network, [TopologyNext]_topologyVars  PROVE Network'
  OBVIOUS
<1>1. CASE UNCHANGED topologyVars
  BY <1>1, UnwiredNetwork DEF topologyVars
<1>2. CASE ConnectServer
  BY <1>2, ConnectServerNetwork
<1>3. CASE ConnectServerToNextGroup \/ ConnectOutOfRange \/ SkipPlace
  BY <1>3, FullNetwork
<1>4. CASE NextRack
  BY <1>4, NextRackNetwork
<1>5. CASE CreateAggregation \/ CreateCore \/ Created
  BY <1>5, CreateAggregationNetwork, CreateCoreNetwork, CreatedNetwork
<1>6. CASE ConnectAccess \/ ConnectAggregation
  BY <1>6, ConnectAccessNetwork, ConnectAggregationNetwork
<1>7. CASE (\E s \in ServerNumbers : TurnOFF(s) \/ TurnON(s)) \/ EveryASecond
  <2>1. UNCHANGED <<sizes, wiring, stage>>
    BY <1>7 DEF TurnOFF, TurnON, EveryASecond
  <2> QED  BY <2>1, UnwiredNetwork
<1> QED  BY <1>1, <1>2, <1>3, <1>4, <1>5, <1>6, <1>7 DEF TopologyNext

LEMMA SpecNetwork ==
  ASSUME PortsSuffice
  PROVE  TopologySpec => [](TopologyInv /\ Network)
<1>1. TopologyInit => TopologyInv /\ Network
  BY InitTopologyInv, InitNetwork
<1>2. TopologyInv /\ Network /\ [TopologyNext]_topologyVars => (TopologyInv /\ Network)'
  BY NextTopologyInv, NextNetwork
<1> QED  BY <1>1, <1>2, PTL DEF TopologySpec

(* No switch gets more links than it has ports, though every group of      *)
(* switches takes the links of a whole rack and of a share of the tier     *)
(* below (Topology.cpp, the nested loops of CreateTopology).               *)
THEOREM NoPortsMissing ==
  ASSUME PortsSuffice
  PROVE  TopologySpec => []PortsKept
<1>1. ASSUME TopologyInv, Network  PROVE PortsKept
  <2>1. TopologyTypeOK
    BY <1>1 DEF TopologyInv
  <2>2. ASSUME WithinUsage, NEW sw \in Switches
        PROVE  Len(Bottom[sw]) + Len(Top[sw]) <=
                 IF sw \in Access THEN NUMBER_OF_PORTS_SWITCH_ACCESS
                                  ELSE NUMBER_OF_PORTS_SWITCH_UP
    <3>1. PICK b, t \in Nat : b = Len(Bottom[sw]) /\ t = Len(Top[sw])
      <4>1. Bottom[sw] \in Seq(Nat) /\ Top[sw] \in Seq(Switches)
        BY <2>1 DEF TopologyTypeOK
      <4>2. Len(Bottom[sw]) \in Nat /\ Len(Top[sw]) \in Nat
        BY <4>1
      <4> QED  BY <4>2
    <3>2. b \in Nat
      BY <3>1, <2>1 DEF TopologyTypeOK
    <3>3. t <= Redundancy /\ (~ (sw < i) => t = 0)
      BY <1>1, <3>1, RedundancyPositive DEF Network, Ports
    <3>4. CASE sw \in Access
      <4>1. b <= RackSize
        <5>1. pt <= m /\ m <= RackSize /\ pt \in Nat /\ m \in Nat /\ RackSize \in Nat
          BY <1>1, <2>1, <2>2, SizesKnown, RedundancyPositive DEF Network, Places, TopologyTypeOK
        <5>2. b <= IF sw < l THEN RackSize ELSE IF sw \in Group(l) THEN pt ELSE 0
          BY <1>1, <2>2, <3>1, <3>4 DEF Network, Ports
        <5> QED  BY <3>2, <5>1, <5>2
      <4>2. RackSize + Redundancy <= NUMBER_OF_PORTS_SWITCH_ACCESS /\ RackSize \in Nat
        BY <2>1, <2>2, RoomForARack, SizesKnown
      <4>3. b + t <= NUMBER_OF_PORTS_SWITCH_ACCESS
        BY ONLY <3>2, <3>3, <4>1, <4>2, RedundancyPositive, t \in Nat
      <4> QED  BY <3>1, <3>4, <4>3
    <3>5. CASE sw \notin Access
      <4>1. Switches # Access
        BY <3>5
      <4>2. stage \in {"aggregation", "core", "created"}
        BY <1>1, <2>1, <4>1 DEF TopologyInv, Wiring, TopologyTypeOK
      <4>3. PICK ag, co : /\ ag = Ceil(SWITCH_ACCESS * Redundancy, SWITCH_AGGREGATION)
                          /\ co = Ceil(SWITCH_AGGREGATION * Redundancy, SWITCH_CORE)
        OBVIOUS
      <4>4. /\ ag \in Nat /\ ag + Redundancy <= NUMBER_OF_PORTS_SWITCH_UP
            /\ co \in Nat /\ co <= NUMBER_OF_PORTS_SWITCH_UP
            /\ NUMBER_OF_PORTS_SWITCH_UP \in Nat
        <5>1. SWITCH_ACCESS * Redundancy \in Nat /\ SWITCH_AGGREGATION * Redundancy \in Nat
          BY Tiers, RedundancyPositive
        <5>2. ag \in Nat /\ co \in Nat
          BY <4>3, <5>1, Tiers, CeilBounds
        <5> QED  BY <4>3, <5>2, SizeAssumption DEF PortsSuffice
      <4>5. \A x \in Switches : Bottom[x] \in Seq(Nat)
        BY <2>1 DEF TopologyTypeOK
      <4>6. up \in Nat
        BY <2>1 DEF TopologyTypeOK
      <4>7. CASE sw \in Aggregation
        <5>1. b <= ag
          <6>1. CASE stage = "aggregation"
            <7>1. /\ Round(SWITCH_ACCESS, SWITCH_AGGREGATION, i)
                  /\ i \in Nat /\ i <= SWITCH_ACCESS
              BY <1>1, <2>1, <6>1 DEF Network, Ports, Places, TopologyTypeOK
            <7>2. Aggregation \subseteq Switches
              BY <1>1, <6>1 DEF TopologyInv, Wiring
            <7>3. \A x \in SWITCH_ACCESS..(SWITCH_ACCESS + SWITCH_AGGREGATION - 1) :
                    Bottom[x] \in Seq(Nat)
              BY <4>5, <7>2 DEF Aggregation
            <7>4. \A x \in SWITCH_ACCESS..(SWITCH_ACCESS + SWITCH_AGGREGATION - 1) :
                    Len(Bottom[x]) <= Ceil(SWITCH_ACCESS * Redundancy, SWITCH_AGGREGATION)
              BY <4>6, <7>1, <7>3, Tiers, RoundBound
            <7> QED  BY <3>1, <4>3, <4>7, <7>4 DEF Aggregation
          <6>2. CASE stage \in {"core", "created"}
            BY <1>1, <3>1, <4>3, <4>7, <6>2 DEF Network, Ports
          <6> QED  BY <4>2, <6>1, <6>2
        <5>2. b + t <= NUMBER_OF_PORTS_SWITCH_UP
          BY ONLY <3>2, <3>3, <4>4, <5>1, RedundancyPositive, t \in Nat
        <5> QED  BY <3>1, <3>5, <5>2
      <4>8. CASE sw \notin Aggregation
        <5>1. sw \in Core /\ Core \subseteq Switches /\ stage # "aggregation"
          <6>1. stage = "aggregation" => Switches = Access \cup Aggregation
            BY <1>1 DEF TopologyInv, Wiring
          <6>2. Switches = Access \cup Aggregation \cup Core
            BY <2>1, <3>5, <4>8 DEF TopologyTypeOK
          <6> QED  BY <3>5, <4>8, <6>1, <6>2
        <5>2. PICK lo : lo = SWITCH_ACCESS + SWITCH_AGGREGATION
          OBVIOUS
        <5>3. PICK n : n = i - SWITCH_ACCESS
          OBVIOUS
        <5>4. i \in Nat /\ SWITCH_ACCESS <= i /\ i <= lo
          BY <1>1, <2>1, <4>2, <5>1, <5>2, Tiers DEF Network, Places, TopologyTypeOK
        <5>5. lo \in Nat /\ n \in Nat /\ n <= SWITCH_AGGREGATION
          BY <5>2, <5>3, <5>4, Tiers
        <5>6. Round(lo, SWITCH_CORE, n)
          BY <1>1, <4>2, <5>1, <5>2, <5>3 DEF Network, Ports
        <5>7. \A x \in lo..(lo + SWITCH_CORE - 1) : Bottom[x] \in Seq(Nat)
          BY <4>5, <5>1, <5>2 DEF Core
        <5>8. \A x \in lo..(lo + SWITCH_CORE - 1) :
                Len(Bottom[x]) <= Ceil(SWITCH_AGGREGATION * Redundancy, SWITCH_CORE)
          BY <4>6, <5>5, <5>6, <5>7, Tiers, RoundBound
        <5>9. b <= co
          BY <3>1, <4>3, <5>1, <5>2, <5>8 DEF Core
        <5>10. ~ (sw < i)
          BY <5>1, <5>2, <5>4, TierRanges, Tiers
        <5>11. b + t <= NUMBER_OF_PORTS_SWITCH_UP
          BY ONLY <3>2, <3>3, <4>4, <5>9, <5>10, t \in Nat
        <5> QED  BY <3>1, <3>5, <5>11
      <4> QED  BY <4>7, <4>8
    <3> QED  BY <3>4, <3>5
  <2> QED  BY <2>1, <2>2 DEF PortsKept
<1> QED  BY <1>1, SpecNetwork, PTL

(* Whichever switch fails, each server still reaches a core switch when    *)
(* all switches are linked: the wiring passes every server and every       *)
(* switch, and gives it all switches of a group (CreateTopology).          *)
THEOREM RedundancyHolds ==
  ASSUME PortsSuffice, Redundancy >= 2
  PROVE  TopologySpec => []SurvivesOneSwitch
<1>1. ASSUME NEW x \in Nat, NEW broken
      PROVE  \E y \in Group(x) : y # broken
  <2>1. x \in Group(x) /\ x + 1 \in Group(x)
    BY RedundancyPositive DEF Group
  <2> QED  BY <2>1
<1>2. ASSUME TopologyInv, Network, stage = "created", WithinUsage,
             NEW s \in ServerNumbers, NEW broken \in Switches
      PROVE  \E a \in Above(s) \ {broken} :
               \E g \in ToSet(Top[a]) \ {broken} : ToSet(Top[g]) \ {broken} # {}
  <2>1. i = SWITCH_ACCESS + SWITCH_AGGREGATION /\ s < rck * RackSize + m
    BY <1>2 DEF Network, Places
  <2>2. PICK first \in Access : Group(first) \subseteq Above(s)
    BY <1>2, <2>1 DEF Network, Reach
  <2>3. Above(s) \subseteq Access
    <3>1. link[s] \in Seq(Access \X Nat)
      BY <1>2 DEF TopologyInv, TopologyTypeOK
    <3>2. \A k \in DOMAIN link[s] : link[s][k] \in Access \X Nat
      BY <3>1
    <3> QED  BY <3>2 DEF Above
  <2>4. PICK a \in Access : a \in Above(s) /\ a # broken
    BY <1>1, <2>2, <2>3, TierRanges
  <2>5. a < i
    BY <2>1, <2>4, TierRanges, Tiers
  <2>6. PICK x \in Aggregation : Group(x) \subseteq Aggregation \cap ToSet(Top[a])
    BY <1>2, <2>5 DEF Network, Reach
  <2>7. PICK g \in Aggregation : g \in ToSet(Top[a]) /\ g # broken
    BY <1>1, <2>6, TierRanges
  <2>8. g < i
    BY <2>1, TierRanges
  <2>9. PICK y \in Core : Group(y) \subseteq ToSet(Top[g])
    BY <1>2, <2>8 DEF Network, Reach
  <2>10. PICK c : c \in ToSet(Top[g]) /\ c # broken
    BY <1>1, <2>9, TierRanges
  <2> QED  BY <2>4, <2>7, <2>10
<1>3. TopologyInv /\ Network => SurvivesOneSwitch
  BY <1>2 DEF SurvivesOneSwitch
<1> QED  BY <1>3, SpecNetwork, PTL

-----------------------------------------------------------------------------
(* The air.                                                                *)

(* Between ClockPlusPlus and the control one temperature has not been sent *)
(* yet.                                                                    *)
OneSentPerSecond ==
  /\ pc \in {"heat", "crac"} => clock = Len(sent) + 1
  /\ pc \in {"modes", "run"} => clock = Len(sent)

(* The air that is on its way lies in the slots it will be read from.      *)
AirOnTheWay ==
  \A s \in Servers : \A k \in clock..(Len(sent) + Travel(s)) :
    supplyTempTimingBuffer[s][Slot(k)] = Arriving(s, k)

SameTime == \A s \in Servers : serverClock[s] = clock

(* The inductive invariant. *)
IInv ==
  /\ TypeOK
  /\ OneSentPerSecond
  /\ SameTime
  /\ AirOnTheWay
  /\ HeatOfThisSecond

-----------------------------------------------------------------------------
(* Remainders: two numbers that lie less than N apart fall into different  *)
(* slots of a buffer of size N.                                            *)

LEMMA ModRange ==
  ASSUME NEW N \in Nat \ {0}, NEW a \in Nat
  PROVE  a % N \in 0..(N - 1)
BY SMT

LEMMA DivMod ==
  ASSUME NEW N \in Nat \ {0}, NEW a \in Nat
  PROVE  a = N * (a \div N) + (a % N) /\ a \div N \in Nat
BY SMT

LEMMA TimesPositive ==
  ASSUME NEW N \in Nat \ {0}, NEW k \in Int, k >= 1
  PROVE  N * k >= N
BY SMT

LEMMA TimesNegative ==
  ASSUME NEW N \in Nat \ {0}, NEW k \in Int, k <= 0
  PROVE  N * k <= 0
BY SMT

LEMMA ModDistinct ==
  ASSUME NEW N \in Nat \ {0}, NEW a \in Nat, NEW b \in Nat, a < b, b < a + N
  PROVE  a % N # b % N
PROOF
  <1> DEFINE p == a \div N
             q == b \div N
  <1>1. /\ p \in Int /\ a = N * p + (a % N) /\ a % N \in Int
        /\ q \in Int /\ b = N * q + (b % N) /\ b % N \in Int
    BY DivMod, ModRange
  <1>2. SUFFICES ASSUME a % N = b % N PROVE FALSE
    OBVIOUS
  <1> HIDE DEF p, q
  <1>3. b - a = N * (q - p) /\ q - p \in Int
    BY <1>1, <1>2
  <1>4. CASE q - p >= 1
    BY <1>3, <1>4, TimesPositive
  <1>5. CASE q - p <= 0
    BY <1>3, <1>5, TimesNegative
  <1> QED
    BY <1>3, <1>4, <1>5

LEMMA SlotType ==
  ASSUME NEW t \in Nat
  PROVE  Slot(t) \in Slots
BY CoolingAssumption, ModRange DEF Slot, Slots

LEMMA SlotDistinct ==
  ASSUME NEW a \in Nat, NEW b \in Nat, a < b, b < a + SIZE_OF_HEAT_TIMING_BUFFER
  PROVE  Slot(a) # Slot(b)
BY CoolingAssumption, ModDistinct DEF Slot

LEMMA TravelType ==
  ASSUME TypeOK, NEW s \in Servers
  PROVE  /\ Travel(s) \in Nat
         /\ Travel(s) < SIZE_OF_HEAT_TIMING_BUFFER
BY CoolingAssumption DEF TypeOK, Travel

LEMMA HighestType ==
  ASSUME NEW T, T \subseteq Int, NEW h \in Highest(T)
  PROVE  h \in Int
BY DEF Highest

LEMMA CooledType ==
  ASSUME NEW cooled \in Cooled
  PROVE  cooled \in Nat /\ \A heat \in Heats : heat \in Int /\ -heat <= cooled
BY CoolingAssumption DEF Cooled

LEMMA NextBaseType ==
  ASSUME TypeOK, NEW inlet \in Int
  PROVE  NextBase(inlet) \in Nat /\ NextBase(inlet) >= LOWEST_SUPPLY_TEMPERATURE
PROOF
  <1>1. Change(inlet) \in Int
    BY CoolingAssumption DEF Change
  <1>2. LOWEST_SUPPLY_TEMPERATURE \in Nat /\ currentSupplyTempBase \in Nat
    BY CoolingAssumption DEF TypeOK
  <1> QED
    BY <1>1, <1>2 DEF NextBase

LEMMA SizeType == SIZE_OF_HEAT_TIMING_BUFFER \in Nat \ {0}
BY CoolingAssumption

LEMMA LowestType == LOWEST_SUPPLY_TEMPERATURE \in Nat
BY CoolingAssumption

-----------------------------------------------------------------------------
LEMMA InitIInv == Init => IInv
PROOF
  <1> SUFFICES ASSUME Init PROVE IInv
    OBVIOUS
  <1>1. TypeOK
    BY LowestType DEF Init, TypeOK
  <1>2. OneSentPerSecond /\ SameTime
    BY DEF Init, OneSentPerSecond, SameTime
  <1>3. HeatOfThisSecond
    BY DEF Init, HeatOfThisSecond
  <1>4. AirOnTheWay
    <2>1. SUFFICES ASSUME NEW s \in Servers, NEW k \in clock..(Len(sent) + Travel(s))
                   PROVE  supplyTempTimingBuffer[s][Slot(k)] = Arriving(s, k)
      BY DEF AirOnTheWay
    <2>2. k \in Nat /\ k <= Travel(s) /\ Travel(s) \in Nat
      BY <1>1, TravelType DEF Init
    <2>3. Slot(k) \in Slots
      BY <2>2, SlotType
    <2>4. ~ (k - Travel(s) >= 1)
      BY <2>2
    <2> QED
      BY <2>3, <2>4 DEF Init, Arriving
  <1> QED
    BY <1>1, <1>2, <1>3, <1>4 DEF IInv

LEMMA ChangeModesIInv ==
  ASSUME IInv, ChangeModes
  PROVE  IInv'
PROOF
  <1>1. UNCHANGED <<clock, sent, serverClock, supplyTempTimingBuffer,
                    additionalHeatTimingBuffer, INSTANT_COOL_AIR_TRAVEL_TIME>>
    BY DEF ChangeModes, options, supply
  <1>2. TypeOK'
    BY DEF IInv, TypeOK, ChangeModes, options, supply
  <1>3. OneSentPerSecond' /\ SameTime'
    BY <1>1 DEF IInv, OneSentPerSecond, SameTime, ChangeModes
  <1>4. AirOnTheWay'
    BY <1>1 DEF IInv, AirOnTheWay, Arriving, Travel
  <1>5. HeatOfThisSecond'
    BY <1>1 DEF IInv, HeatOfThisSecond, ChangeModes
  <1> QED
    BY <1>2, <1>3, <1>4, <1>5 DEF IInv

LEMMA RunServersIInv ==
  ASSUME IInv, RunServers
  PROVE  IInv'
PROOF
  <1>1. /\ UNCHANGED <<options, supply, unsensed>>
        /\ UNCHANGED <<sent, supplyTempTimingBuffer, INSTANT_COOL_AIR_TRAVEL_TIME>>
        /\ pc = "run" /\ pc' = "heat"
        /\ clock' = clock + 1 /\ clock \in Nat
    BY DEF RunServers, options, supply, IInv, TypeOK
  <1>2. \A s \in Servers : serverClock[s] = clock /\ Slot(clock) \in Slots
    BY <1>1, SlotType DEF IInv, SameTime
  <1>3. TypeOK'
    BY <1>1, <1>2 DEF IInv, TypeOK, RunServers, options, supply
  <1>4. OneSentPerSecond' /\ SameTime'
    BY <1>1, <1>2 DEF IInv, TypeOK, OneSentPerSecond, SameTime, RunServers
  <1>5. AirOnTheWay'
    <2>1. SUFFICES ASSUME NEW s \in Servers,
                          NEW k \in clock'..(Len(sent') + Travel(s)')
                   PROVE  supplyTempTimingBuffer'[s][Slot(k)] = Arriving(s, k)'
      BY DEF AirOnTheWay, Slot
    <2>2. Travel(s)' = Travel(s) /\ Arriving(s, k)' = Arriving(s, k)
      BY <1>1 DEF Travel, Arriving
    <2>3. Travel(s) \in Nat /\ Len(sent) \in Nat
      BY TravelType DEF IInv, TypeOK
    <2>4. k \in clock..(Len(sent) + Travel(s))
      BY <1>1, <2>2, <2>3
    <2> QED
      BY <1>1, <2>2, <2>4 DEF IInv, AirOnTheWay
  <1>6. HeatOfThisSecond'
    <2>1. SUFFICES ASSUME NEW s \in Servers, NEW k \in Slots
                   PROVE  additionalHeatTimingBuffer'[s][k] = 0
      BY DEF HeatOfThisSecond, Slots
    <2>2. k # Slot(clock) => additionalHeatTimingBuffer[s][k] = 0
      BY DEF IInv, HeatOfThisSecond
    <2> QED
      BY <1>2, <2>2 DEF IInv, TypeOK, RunServers
  <1> QED
    BY <1>3, <1>4, <1>5, <1>6 DEF IInv

LEMMA RecalculateHeatDistributionIInv ==
  ASSUME IInv, RecalculateHeatDistribution
  PROVE  IInv'
PROOF
  <1>1. /\ UNCHANGED <<options, supply, unsensed, clock, serverClock>>
        /\ UNCHANGED <<sent, supplyTempTimingBuffer, INSTANT_COOL_AIR_TRAVEL_TIME>>
        /\ pc = "heat" /\ pc' = "crac" /\ clock \in Nat
    BY DEF RecalculateHeatDistribution, options, supply, IInv, TypeOK
  <1>2. \A s \in Servers : serverClock[s] = clock /\ Slot(clock) \in Slots
    BY <1>1, SlotType DEF IInv, SameTime
  <1>3. PICK heat \in [Servers -> Heats] :
          additionalHeatTimingBuffer' =
            [s \in Servers |->
               [additionalHeatTimingBuffer[s]
                  EXCEPT ![Slot(serverClock[s])] = @ + heat[s]]]
    BY DEF RecalculateHeatDistribution
  <1>4. additionalHeatTimingBuffer' \in [Servers -> [Slots -> Int]]
    <2>1. \A s \in Servers : heat[s] \in Int
      BY CoolingAssumption
    <2>2. additionalHeatTimingBuffer \in [Servers -> [Slots -> Int]]
      BY DEF IInv, TypeOK
    <2> QED
      BY <1>2, <1>3, <2>1, <2>2
  <1>5. TypeOK'
    BY <1>1, <1>4 DEF IInv, TypeOK, options, supply
  <1>6. OneSentPerSecond' /\ SameTime'
    BY <1>1 DEF IInv, OneSentPerSecond, SameTime
  <1>7. AirOnTheWay'
    BY <1>1 DEF IInv, AirOnTheWay, Arriving, Travel
  <1>8. HeatOfThisSecond'
    <2>1. SUFFICES ASSUME NEW s \in Servers, NEW k \in Slots, k # Slot(clock)
                   PROVE  additionalHeatTimingBuffer'[s][k] = 0
      BY <1>1 DEF HeatOfThisSecond, Slots, Slot
    <2>2. additionalHeatTimingBuffer[s][k] = 0
      BY <2>1 DEF IInv, HeatOfThisSecond
    <2> QED
      BY <1>2, <1>3, <2>1, <2>2 DEF IInv, TypeOK
  <1> QED
    BY <1>5, <1>6, <1>7, <1>8 DEF IInv

(* The control writes the slot that is read Travel(s) seconds from now;    *)
(* the slots read before that keep what is on its way.                     *)
LEMMA SupplyIInv ==
  ASSUME IInv, pc = "crac", NEW temperature \in Int, Supply(temperature),
         currentSupplyTempBase' \in Nat,
         currentSupplyTempBase' >= LOWEST_SUPPLY_TEMPERATURE,
         blind' \in Nat
  PROVE  IInv'
PROOF
  <1>1. /\ UNCHANGED <<options, unsensed, clock, serverClock, additionalHeatTimingBuffer>>
        /\ UNCHANGED INSTANT_COOL_AIR_TRAVEL_TIME
        /\ pc' = "modes" /\ clock \in Nat
        /\ sent' = Append(sent, temperature)
    BY DEF Supply, options, IInv, TypeOK
  <1>2. /\ clock = Len(sent) + 1
        /\ sent \in Seq(Int) /\ sent' \in Seq(Int) /\ Len(sent) \in Nat
        /\ Len(sent') = Len(sent) + 1 /\ sent'[Len(sent) + 1] = temperature
        /\ \A j \in 1..Len(sent) : sent'[j] = sent[j]
    BY <1>1 DEF IInv, TypeOK, OneSentPerSecond
  <1>3. \A s \in Servers :
          /\ serverClock[s] = clock
          /\ Travel(s) \in Nat /\ Travel(s) < SIZE_OF_HEAT_TIMING_BUFFER
          /\ Slot(clock + Travel(s)) \in Slots
    BY <1>1, SlotType, TravelType DEF IInv, SameTime
  <1>4. \A s \in Servers : Travel(s)' = Travel(s)
    BY <1>1 DEF Travel
  <1>5. TypeOK'
    <2>1. supplyTempTimingBuffer' \in [Servers -> [Slots -> Int]]
      BY <1>3 DEF IInv, TypeOK, Supply
    <2> QED
      BY <1>1, <1>2, <2>1 DEF IInv, TypeOK, Supply, options
  <1>6. OneSentPerSecond' /\ SameTime'
    BY <1>1, <1>2 DEF IInv, OneSentPerSecond, SameTime
  <1>7. HeatOfThisSecond'
    BY <1>1 DEF IInv, HeatOfThisSecond, Supply
  <1>8. AirOnTheWay'
    <2>1. SUFFICES ASSUME NEW s \in Servers,
                          NEW k \in clock'..(Len(sent') + Travel(s)')
                   PROVE  supplyTempTimingBuffer'[s][Slot(k)] = Arriving(s, k)'
      BY DEF AirOnTheWay, Slot
    <2>2. /\ k \in clock..(clock + Travel(s)) /\ k \in Nat
          /\ Travel(s) \in Nat
      BY <1>1, <1>2, <1>3, <1>4
    <2>3. Slot(k) \in Slots
      BY <2>2, SlotType
    <2>4. supplyTempTimingBuffer'[s] =
            [supplyTempTimingBuffer[s]
               EXCEPT ![Slot(clock + Travel(s))] = temperature]
      BY <1>3 DEF Supply
    <2>5. supplyTempTimingBuffer[s] \in [Slots -> Int]
      BY DEF IInv, TypeOK
    <2>6. Arriving(s, k)' =
            IF k - Travel(s) >= 1 THEN sent'[k - Travel(s)]
                                  ELSE LOWEST_SUPPLY_TEMPERATURE
      BY <1>4 DEF Arriving
    <2>7. CASE k = clock + Travel(s)
      <3>1. k - Travel(s) = Len(sent) + 1 /\ k - Travel(s) >= 1
        BY <1>2, <2>2, <2>7
      <3>2. Arriving(s, k)' = temperature
        BY <1>2, <2>6, <3>1
      <3> QED
        BY <2>3, <2>4, <2>5, <2>7, <3>2
    <2>8. CASE k < clock + Travel(s)
      <3>1. Slot(k) # Slot(clock + Travel(s))
        <4>1. /\ clock + Travel(s) \in Nat
              /\ clock + Travel(s) < k + SIZE_OF_HEAT_TIMING_BUFFER
          BY <1>1, <1>3, <2>2, SizeType
        <4> QED
          BY <2>2, <2>8, <4>1, SlotDistinct
      <3>2. supplyTempTimingBuffer'[s][Slot(k)] = supplyTempTimingBuffer[s][Slot(k)]
        BY <2>3, <2>4, <2>5, <3>1
      <3>3. k \in clock..(Len(sent) + Travel(s))
        BY <1>2, <2>2, <2>8
      <3>4. supplyTempTimingBuffer[s][Slot(k)] = Arriving(s, k)
        BY <3>3 DEF IInv, AirOnTheWay
      <3>5. k - Travel(s) >= 1 => k - Travel(s) \in 1..Len(sent)
        <4>1. Len(sent) \in Nat /\ Travel(s) \in Nat /\ k \in Nat
          BY <1>2, <2>2
        <4>2. k <= Len(sent) + Travel(s)
          BY <3>3, <4>1
        <4> QED
          BY <4>1, <4>2
      <3>6. Arriving(s, k)' = Arriving(s, k)
        <4>1. ASSUME k - Travel(s) >= 1
              PROVE  sent'[k - Travel(s)] = sent[k - Travel(s)]
          BY <1>2, <3>5, <4>1
        <4> QED
          BY ONLY <2>6, <4>1 DEF Arriving
      <3> QED
        BY <3>2, <3>4, <3>6
    <2> QED
      BY <1>1, <2>2, <2>7, <2>8, SMTT(60)
  <1> QED
    BY <1>5, <1>6, <1>7, <1>8 DEF IInv

LEMMA CurrentTemperatures ==
  ASSUME IInv, NEW s \in Servers
  PROVE  CurrentAddedTemperature(s) \in Int /\ CurrentInletTemperature(s) \in Int
PROOF
  <1>1. Slot(serverClock[s]) \in Slots
    BY SlotType DEF IInv, TypeOK
  <1> QED
    BY <1>1 DEF IInv, TypeOK, CurrentAddedTemperature, CurrentInletTemperature

LEMMA NextIInv == IInv /\ [Next]_vars => IInv'
PROOF
  <1> SUFFICES ASSUME IInv, [Next]_vars PROVE IInv'
    OBVIOUS
  <1> USE DEF Next
  <1>1. CASE ChangeModes
    BY <1>1, ChangeModesIInv
  <1>2. CASE RunServers
    BY <1>2, RunServersIInv
  <1>3. CASE RecalculateHeatDistribution
    BY <1>3, RecalculateHeatDistributionIInv
  <1>4. CASE ConstantSupply
    <2>1. UNCHANGED <<currentSupplyTempBase, blind>> /\ CRAC_SUPPLY_TEMP_IS_CONSTANT_AT \in Int
      BY <1>4, CoolingAssumption DEF ConstantSupply
    <2>2. /\ currentSupplyTempBase' \in Nat /\ blind' \in Nat
          /\ currentSupplyTempBase' >= LOWEST_SUPPLY_TEMPERATURE
      BY <2>1 DEF IInv, TypeOK
    <2> QED
      BY <1>4, <2>1, <2>2, SupplyIInv DEF ConstantSupply
  <1>5. CASE InstantChange
    <2>1. PICK h \in Highest({CurrentAddedTemperature(s) : s \in Servers}) :
            Supply(EMERGENCY_TEMPERATURE - h)
      BY <1>5 DEF InstantChange
    <2>2. EMERGENCY_TEMPERATURE - h \in Int
      BY HighestType, CurrentTemperatures, CoolingAssumption
    <2>3. /\ pc = "crac"
          /\ currentSupplyTempBase' \in Nat /\ blind' \in Nat
          /\ currentSupplyTempBase' >= LOWEST_SUPPLY_TEMPERATURE
      BY <1>5 DEF InstantChange, IInv, TypeOK
    <2> QED
      BY <2>1, <2>2, <2>3, SupplyIInv
  <1>6. CASE GradualChange
    <2>1. PICK h \in Highest({CurrentInletTemperature(s) : s \in Sensed}) :
            currentSupplyTempBase' = NextBase(h) /\ Supply(NextBase(h))
      BY <1>6 DEF GradualChange
    <2>2. h \in Int
      BY HighestType, CurrentTemperatures DEF Sensed
    <2>3. NextBase(h) \in Nat /\ NextBase(h) >= LOWEST_SUPPLY_TEMPERATURE
      BY <2>2, NextBaseType DEF IInv
    <2>4. pc = "crac" /\ blind' \in Nat
      BY <1>6 DEF GradualChange, IInv, TypeOK
    <2> QED
      BY <2>1, <2>3, <2>4, SupplyIInv
  <1>7. CASE UNCHANGED vars
    <2>1. UNCHANGED <<pc, clock, serverClock, sent, supplyTempTimingBuffer, unsensed,
                      additionalHeatTimingBuffer, INSTANT_COOL_AIR_TRAVEL_TIME, control,
                      currentSupplyTempBase, currentSupplyTemp, blind>>
      BY <1>7 DEF vars, options, supply
    <2>2. TypeOK'
      BY <2>1 DEF IInv, TypeOK
    <2> QED
      BY <2>1, <2>2 DEF IInv, OneSentPerSecond, SameTime, AirOnTheWay, Arriving, Travel,
         HeatOfThisSecond
  <1> QED
    BY <1>1, <1>2, <1>3, <1>4, <1>5, <1>6, <1>7

LEMMA Invariance == Spec => []IInv
BY InitIInv, NextIInv, PTL DEF Spec

(* Every variable keeps its type; the base of the supply temperature never *)
(* falls below LOWEST_SUPPLY_TEMPERATURE.                                  *)
THEOREM TypeCorrect == Spec => []TypeOK
BY Invariance, PTL DEF IInv

(* Whatever the modes of the servers, the size of the buffers and the way  *)
(* of the air, a server senses what the CRAC sent Travel(s) seconds ago    *)
(* and the heat of one second.                                             *)
THEOREM InletsInStep == Spec => []InletsCurrent
PROOF
  <1>1. IInv => InletsCurrent
    <2>1. SUFFICES ASSUME IInv PROVE AirArrives
      BY DEF IInv, InletsCurrent
    <2>2. \A s \in Servers : Travel(s) \in Nat /\ Len(sent) \in Nat /\ clock \in Nat
      BY <2>1, TravelType DEF IInv, TypeOK
    <2> QED
      BY <2>1, <2>2 DEF IInv, SameTime, AirOnTheWay, AirArrives
  <1> QED
    BY <1>1, Invariance, PTL

-----------------------------------------------------------------------------
(* The supply temperature at second t. *)
Base(t) == IF t >= 1 THEN sent[t] ELSE LOWEST_SUPPLY_TEMPERATURE

(* The gradual control sends its base, which rises by 5 a second at most.  *)
(* Without this nothing relates what is sensed to what was sent since.     *)
RisesSlowly ==
  control = "gradual" =>
    /\ currentSupplyTempBase = Base(Len(sent))
    /\ \A t \in 0..Len(sent) : \A a \in Int :
         a <= t => Base(t) <= Base(a) + 5 * (t - a)

(* One step of the base: never more than 5, up or clamped. *)
LEMMA NextBaseRise ==
  ASSUME TypeOK, NEW inlet \in Int
  PROVE  /\ NextBase(inlet) <= currentSupplyTempBase + 5
         /\ inlet >= Warm => \/ NextBase(inlet) <= currentSupplyTempBase + 1
                             \/ NextBase(inlet) = LOWEST_SUPPLY_TEMPERATURE
         /\ inlet >= Hot => \/ NextBase(inlet) <= currentSupplyTempBase
                            \/ NextBase(inlet) = LOWEST_SUPPLY_TEMPERATURE
PROOF
  <1>1. /\ currentSupplyTempBase \in Nat
        /\ currentSupplyTempBase >= LOWEST_SUPPLY_TEMPERATURE
        /\ LOWEST_SUPPLY_TEMPERATURE \in Nat
        /\ Warm \in Nat /\ Hot \in Nat /\ EMERGENCY_TEMPERATURE \in Nat
        /\ Warm < Hot /\ Hot <= EMERGENCY_TEMPERATURE
    BY CoolingAssumption DEF TypeOK
  <1>2. /\ inlet < Warm => Change(inlet) = 5
        /\ inlet >= Warm /\ inlet < Hot => Change(inlet) = 1
        /\ inlet >= Hot /\ inlet < EMERGENCY_TEMPERATURE => Change(inlet) = 0
        /\ inlet >= EMERGENCY_TEMPERATURE => Change(inlet) = -2
    BY <1>1 DEF Change
  <1> QED
    BY <1>1, <1>2 DEF NextBase

LEMMA InitRisesSlowly == Init => RisesSlowly
PROOF
  <1> SUFFICES ASSUME Init PROVE RisesSlowly
    OBVIOUS
  <1>1. Len(sent) = 0 /\ currentSupplyTempBase = LOWEST_SUPPLY_TEMPERATURE
    BY DEF Init
  <1>2. \A a \in Int : a <= 0 => Base(a) = LOWEST_SUPPLY_TEMPERATURE
    BY DEF Base
  <1> QED
    BY <1>1, <1>2, LowestType DEF RisesSlowly

LEMMA NextRisesSlowly ==
  ASSUME IInv, RisesSlowly, [Next]_vars
  PROVE  RisesSlowly'
PROOF
  <1>1. CASE UNCHANGED <<control, sent, currentSupplyTempBase>>
    BY <1>1 DEF RisesSlowly, Base
  <1>2. CASE ConstantSupply \/ InstantChange
    <2>1. control' # "gradual"
      BY <1>2 DEF ConstantSupply, InstantChange, Supply, options
    <2> QED
      BY <2>1 DEF RisesSlowly
  <1>3. CASE GradualChange
    <2>1. PICK h \in Highest({CurrentInletTemperature(s) : s \in Sensed}) :
            currentSupplyTempBase' = NextBase(h) /\ Supply(NextBase(h))
      BY <1>3 DEF GradualChange
    <2>2. h \in Int
      BY HighestType, CurrentTemperatures DEF Sensed
    <2>3. /\ NextBase(h) \in Nat /\ NextBase(h) <= currentSupplyTempBase + 5
      BY <2>2, NextBaseType, NextBaseRise DEF IInv
    <2>9. PICK n \in Nat : n = Len(sent)
      BY DEF IInv, TypeOK
    <2>4. /\ sent' = Append(sent, NextBase(h)) /\ sent \in Seq(Int)
          /\ n \in Nat /\ n = Len(sent) /\ control = "gradual"
      BY <1>3, <2>1, <2>9 DEF Supply, GradualChange, IInv, TypeOK
    <2>5. /\ Len(sent') = n + 1
          /\ Base(n + 1)' = NextBase(h)
          /\ \A a \in Int : a <= n => Base(a)' = Base(a) /\ Base(a) \in Int
      <3>1. /\ Len(sent') = n + 1 /\ sent'[n + 1] = NextBase(h)
            /\ \A a \in 1..n : sent'[a] = sent[a] /\ sent[a] \in Int
        BY <2>3, <2>4
      <3> QED
        BY <2>4, <3>1, LowestType DEF Base
    <2>6. currentSupplyTempBase = Base(n)
      BY <2>4, <2>9 DEF RisesSlowly
    <2>11. \A t \in 0..n : \A a \in Int : a <= t => Base(t) <= Base(a) + 5 * (t - a)
      BY <2>4 DEF RisesSlowly
    <2>7. ASSUME NEW t \in 0..(n + 1), NEW a \in Int, a <= t
          PROVE  Base(t)' <= Base(a)' + 5 * (t - a)
      <3>1. CASE t <= n
        <4>1. t \in 0..n /\ t \in Int /\ a <= n
          BY <2>9, <2>7, <3>1
        <4>2. Base(t) <= Base(a) + 5 * (t - a)
          BY <2>7, <2>11, <4>1
        <4>3. Base(t)' = Base(t) /\ Base(a)' = Base(a)
          BY <2>5, <3>1, <4>1
        <4> QED
          BY <4>2, <4>3
      <3>2. CASE t = n + 1 /\ a = n + 1
        BY <2>3, <2>5, <3>2
      <3>3. CASE t = n + 1 /\ a <= n
        <4>1. Base(n) <= Base(a) + 5 * (n - a)
          <5>1. n \in 0..n
            BY <2>9
          <5> QED
            BY <2>7, <2>11, <3>3, <5>1
        <4>2. Base(n) \in Int /\ Base(a) \in Int /\ Base(a)' = Base(a)
          BY <2>4, <2>5, <3>3
        <4>3. Base(t)' = NextBase(h) /\ NextBase(h) <= Base(n) + 5
          BY <2>3, <2>5, <2>6, <3>3
        <4> QED
          BY <2>3, <2>4, <3>3, <4>1, <4>2, <4>3, SMTT(60)
      <3> QED
        BY <2>4, <2>7, <3>1, <3>2, <3>3
    <2>8. currentSupplyTempBase' = Base(Len(sent))'
      <3>1. Base(Len(sent))' = sent'[n + 1] /\ Base(n + 1)' = sent'[n + 1]
        BY <2>5, <2>9 DEF Base
      <3> QED
        BY <2>1, <2>5, <3>1
    <2>10. \A t \in 0..Len(sent') : \A a \in Int :
             a <= t => Base(t)' <= Base(a)' + 5 * (t - a)
      BY <2>5, <2>7
    <2> QED
      BY <2>8, <2>10 DEF RisesSlowly
  <1> QED
    BY <1>1, <1>2, <1>3 DEF Next, vars, options, supply, ChangeModes, RunServers,
       RecalculateHeatDistribution

(* The heat that the control senses is that of one second.                  *)
HeatPicked ==
  pc = "crac" => \A s \in Servers : additionalHeatTimingBuffer[s][Slot(clock)] \in Heats

LEMMA NextHeatPicked ==
  ASSUME IInv, HeatPicked, [Next]_vars
  PROVE  HeatPicked'
PROOF
  <1>1. CASE RecalculateHeatDistribution
    <2>1. PICK heat \in [Servers -> Heats] :
            additionalHeatTimingBuffer' =
              [s \in Servers |->
                 [additionalHeatTimingBuffer[s]
                    EXCEPT ![Slot(serverClock[s])] = @ + heat[s]]]
      BY <1>1 DEF RecalculateHeatDistribution
    <2>2. clock' = clock /\ clock \in Nat /\ pc = "heat" /\ Slot(clock)' = Slot(clock)
      BY <1>1 DEF RecalculateHeatDistribution, IInv, TypeOK, Slot
    <2>3. ASSUME NEW s \in Servers
          PROVE  additionalHeatTimingBuffer'[s][Slot(clock)] \in Heats
      <3>1. Slot(clock) \in Slots /\ serverClock[s] = clock
        BY <2>2, SlotType DEF IInv, SameTime
      <3>2. /\ additionalHeatTimingBuffer[s] \in [Slots -> Int]
            /\ additionalHeatTimingBuffer[s][Slot(clock)] = 0
        BY <2>2, <3>1 DEF IInv, TypeOK, HeatOfThisSecond
      <3>3. additionalHeatTimingBuffer'[s][Slot(clock)] = 0 + heat[s]
        BY <2>1, <3>1, <3>2
      <3>4. heat[s] \in Heats /\ heat[s] \in Int
        BY CoolingAssumption
      <3> QED
        BY <3>3, <3>4
    <2> QED
      BY <2>2, <2>3 DEF HeatPicked
  <1>2. CASE ChangeModes \/ RunServers \/ ConstantSupply \/ InstantChange \/ GradualChange
    <2>1. pc' # "crac"
      BY <1>2 DEF ChangeModes, RunServers, ConstantSupply, InstantChange, GradualChange, Supply
    <2> QED
      BY <2>1 DEF HeatPicked
  <1>3. CASE UNCHANGED vars
    BY <1>3 DEF HeatPicked, vars, Slot
  <1> QED
    BY <1>1, <1>2, <1>3 DEF Next

-----------------------------------------------------------------------------
LEMMA InitNoOvershoot == Init => NoOvershoot
PROOF
  <1> SUFFICES ASSUME Init PROVE NoOvershoot
    OBVIOUS
  <1>1. GradualBound
    <2>1. SUFFICES ASSUME NEW lag \in Lags, 0 \notin Lags, NEW cooled \in Cooled
                   PROVE  currentSupplyTempBase <= Hot + cooled + 5 * (lag - 1) + 5 * blind
      BY DEF GradualBound
    <2>2. lag \in Nat /\ lag >= 1 /\ cooled \in Nat
      BY <2>1, CoolingAssumption, CooledType DEF Lags
    <2>3. /\ Hot \in Nat /\ LOWEST_SUPPLY_TEMPERATURE \in Nat
          /\ LOWEST_SUPPLY_TEMPERATURE <= Hot
      BY CoolingAssumption
    <2> QED
      BY <2>2, <2>3 DEF Init
  <1>2. InstantBound
    <2>1. 0 \in Nat /\ Slot(0) \in Slots
      BY SlotType
    <2>2. /\ EMERGENCY_TEMPERATURE \in Nat /\ LOWEST_SUPPLY_TEMPERATURE \in Nat
          /\ LOWEST_SUPPLY_TEMPERATURE <= EMERGENCY_TEMPERATURE
      BY CoolingAssumption
    <2> QED
      BY <2>1, <2>2
      DEF Init, InstantBound, CurrentInletTemperature, CurrentAddedTemperature
  <1> QED
    BY <1>1, <1>2 DEF NoOvershoot

(* The base rises only if a server senses less than Hot.  The air it       *)
(* senses was sent when the base was that low, or as much higher as it has *)
(* been cooled, less than lag seconds ago.                                 *)
LEMMA GradualChangeBound ==
  ASSUME IInv, RisesSlowly, HeatPicked, GradualBound, GradualChange
  PROVE  GradualBound'
PROOF
  <1>1. SUFFICES ASSUME ~ INSTANT_COOL_AIR_TRAVEL_TIME, 0 \notin Lags,
                        NEW lag \in Lags, NEW cooled \in Cooled,
                        \A other \in Lags : other <= lag
                 PROVE  currentSupplyTempBase' <= Hot + cooled + 5 * (lag - 1) + 5 * blind'
    <2>1. UNCHANGED INSTANT_COOL_AIR_TRAVEL_TIME
      BY DEF GradualChange, Supply, options
    <2> QED
      BY <2>1 DEF GradualBound, Lags, Cooled
  <1>2. /\ lag \in Nat /\ lag >= 1 /\ blind \in Nat /\ cooled \in Nat
        /\ Hot \in Nat /\ LOWEST_SUPPLY_TEMPERATURE \in Nat /\ Warm \in Nat
        /\ LOWEST_SUPPLY_TEMPERATURE <= Hot /\ Warm + 4 <= Hot
        /\ currentSupplyTempBase \in Nat
    <2>1. lag \in Nat /\ lag >= 1
      BY <1>1, CoolingAssumption DEF Lags
    <2> QED
      BY <2>1, CoolingAssumption, CooledType DEF IInv, TypeOK
  <1>3. currentSupplyTempBase <= Hot + cooled + 5 * (lag - 1) + 5 * blind
    BY <1>1 DEF GradualBound, GradualChange
  <1>4. PICK h \in Highest({CurrentInletTemperature(s) : s \in Sensed}) :
          currentSupplyTempBase' = NextBase(h)
    BY DEF GradualChange
  <1>5. h \in Int
    BY HighestType, CurrentTemperatures DEF Sensed
  <1>6. /\ NextBase(h) \in Nat
        /\ NextBase(h) <= currentSupplyTempBase + 5
        /\ h >= Warm => \/ NextBase(h) <= currentSupplyTempBase + 1
                        \/ NextBase(h) = LOWEST_SUPPLY_TEMPERATURE
        /\ h >= Hot => \/ NextBase(h) <= currentSupplyTempBase
                       \/ NextBase(h) = LOWEST_SUPPLY_TEMPERATURE
    BY <1>5, NextBaseType, NextBaseRise DEF IInv
  <1>7. CASE Sensed = {}
    <2>1. blind' = blind + 1
      BY <1>7 DEF GradualChange
    <2> QED
      BY <1>2, <1>3, <1>4, <1>6, <2>1
  <1>8. CASE Sensed # {}
    <2>1. blind' = blind
      BY <1>8 DEF GradualChange
    <2>2. PICK s \in Servers : s \in Sensed
      BY <1>8 DEF Sensed
    <2>3. /\ Travel(s) \in Nat /\ Travel(s) >= 1 /\ Travel(s) <= lag
          /\ Travel(s) \in Int
      BY <1>1, <1>2, CoolingAssumption DEF Travel, Lags
    <2>4. PICK n \in Nat : n = Len(sent) /\ clock = n + 1
      BY DEF IInv, TypeOK, OneSentPerSecond, GradualChange
    <2>5. Base(clock - Travel(s)) <= h + cooled /\ Base(clock - Travel(s)) \in Int
      <3>1. /\ clock \in Nat /\ Slot(clock) \in Slots
        BY SlotType DEF IInv, TypeOK
      <3>2. clock \in clock..(Len(sent) + Travel(s))
        BY <2>3, <2>4
      <3>3. supplyTempTimingBuffer[s][Slot(clock)] = Base(clock - Travel(s))
        BY <3>2 DEF IInv, AirOnTheWay, Arriving, Base
      <3>4. /\ supplyTempTimingBuffer[s][Slot(clock)] \in Int
            /\ additionalHeatTimingBuffer[s][Slot(clock)] \in Int
            /\ -additionalHeatTimingBuffer[s][Slot(clock)] <= cooled
        <4>1. additionalHeatTimingBuffer[s][Slot(clock)] \in Heats
          BY DEF HeatPicked, GradualChange
        <4> QED
          BY <3>1, <4>1, CooledType DEF IInv, TypeOK
      <3>5. CurrentInletTemperature(s) <= h
        BY <2>2 DEF Highest
      <3>6. CurrentInletTemperature(s) =
              supplyTempTimingBuffer[s][Slot(clock)]
                + additionalHeatTimingBuffer[s][Slot(clock)]
        BY DEF CurrentInletTemperature, CurrentAddedTemperature, IInv, SameTime
      <3> QED
        BY <1>2, <1>5, <3>3, <3>4, <3>5, <3>6
    <2>6. currentSupplyTempBase
            <= Base(clock - Travel(s)) + 5 * (n - (clock - Travel(s)))
      <3>1. /\ n \in 0..Len(sent) /\ clock - Travel(s) \in Int
            /\ clock - Travel(s) <= n
        BY <2>3, <2>4
      <3> QED
        BY <2>4, <3>1 DEF RisesSlowly, GradualChange
    <2>7. currentSupplyTempBase <= h + cooled + 5 * (lag - 1)
      <3>1. PICK b \in Int, t \in Nat : b = Base(clock - Travel(s)) /\ t = Travel(s)
        BY <2>3, <2>5
      <3>2. currentSupplyTempBase \in Nat /\ lag \in Nat /\ t <= lag /\ b <= h + cooled
            /\ cooled \in Nat
        BY <1>2, <2>3, <2>5, <3>1
      <3>3. currentSupplyTempBase <= b + 5 * (n - ((n + 1) - t))
        BY <2>4, <2>6, <3>1
      <3> QED
        BY ONLY <1>5, <3>2, <3>3
    <2> QED
      BY <1>2, <1>3, <1>4, <1>5, <1>6, <2>1, <2>7
  <1> QED
    BY <1>7, <1>8

(* No server has more heat than the highest, which is taken off.           *)
LEMMA InstantChangeBound ==
  ASSUME IInv, InstantChange
  PROVE  InstantBound'
PROOF
  <1>1. SUFFICES ASSUME INSTANT_COOL_AIR_TRAVEL_TIME, NEW s \in Servers
                 PROVE  CurrentInletTemperature(s)' <= EMERGENCY_TEMPERATURE
    <2>1. UNCHANGED INSTANT_COOL_AIR_TRAVEL_TIME
      BY DEF InstantChange, Supply, options
    <2> QED
      BY <2>1 DEF InstantBound
  <1>2. PICK h \in Highest({CurrentAddedTemperature(t) : t \in Servers}) :
          Supply(EMERGENCY_TEMPERATURE - h)
    BY DEF InstantChange
  <1>3. /\ CurrentAddedTemperature(s) <= h /\ h \in Int
        /\ CurrentAddedTemperature(s) \in Int /\ EMERGENCY_TEMPERATURE \in Int
    <2>1. h \in Int
      BY HighestType, CurrentTemperatures
    <2>2. CurrentAddedTemperature(s) <= h
      BY DEF Highest
    <2> QED
      BY <2>1, <2>2, CurrentTemperatures, CoolingAssumption
  <1>4. Travel(s) = 0 /\ serverClock[s] \in Nat /\ Slot(serverClock[s]) \in Slots
    BY <1>1, SlotType DEF Travel, IInv, TypeOK
  <1>5. Slot(serverClock[s] + Travel(s)) = Slot(serverClock[s])
    BY <1>4
  <1>6. /\ supplyTempTimingBuffer'[s][Slot(serverClock[s])] = EMERGENCY_TEMPERATURE - h
        /\ UNCHANGED <<serverClock, additionalHeatTimingBuffer>>
    BY <1>2, <1>4, <1>5 DEF Supply, IInv, TypeOK
  <1>7. CurrentInletTemperature(s)' =
          EMERGENCY_TEMPERATURE - h + CurrentAddedTemperature(s)
    BY <1>6 DEF CurrentInletTemperature, CurrentAddedTemperature, Slot
  <1> QED
    BY <1>3, <1>7

LEMMA NextNoOvershoot ==
  ASSUME IInv, RisesSlowly, HeatPicked, NoOvershoot, [Next]_vars
  PROVE  NoOvershoot'
PROOF
  <1>1. CASE GradualChange
    <2>1. InstantBound'
      BY <1>1 DEF InstantBound, GradualChange, Supply, options
    <2> QED
      BY <1>1, <2>1, GradualChangeBound DEF NoOvershoot
  <1>2. CASE InstantChange
    <2>1. GradualBound'
      BY <1>2 DEF GradualBound, InstantChange, Supply, options
    <2> QED
      BY <1>2, <2>1, InstantChangeBound DEF NoOvershoot
  <1>3. CASE ConstantSupply
    BY <1>3 DEF NoOvershoot, GradualBound, InstantBound, ConstantSupply, Supply, options
  <1>4. CASE RunServers \/ RecalculateHeatDistribution
    <2>1. InstantBound'
      BY <1>4 DEF InstantBound, RunServers, RecalculateHeatDistribution
    <2>2. GradualBound'
      BY <1>4 DEF NoOvershoot, GradualBound, RunServers, RecalculateHeatDistribution,
         options, supply
    <2> QED
      BY <2>1, <2>2 DEF NoOvershoot
  <1>5. CASE ChangeModes \/ UNCHANGED vars
    <2>1. UNCHANGED <<serverClock, supplyTempTimingBuffer, additionalHeatTimingBuffer,
                      currentSupplyTempBase, blind, control,
                      INSTANT_COOL_AIR_TRAVEL_TIME>>
      BY <1>5 DEF ChangeModes, vars, options, supply
    <2>2. pc' \in {"modes", "run"} => pc \in {"modes", "run"}
      BY <1>5 DEF ChangeModes, vars
    <2> QED
      BY <2>1, <2>2 DEF NoOvershoot, GradualBound, InstantBound,
         CurrentInletTemperature, CurrentAddedTemperature, Slot
  <1> QED
    BY <1>1, <1>2, <1>3, <1>4, <1>5 DEF Next

(* However long the air travels, the gradual control does not let the      *)
(* supply temperature rise beyond Hot by more than recirculated air cools, *)
(* and 5 for each second of the way but one, and for each second without a *)
(* server to sense; the instant control with instant travel keeps every    *)
(* inlet that is read at EMERGENCY_TEMPERATURE or below.  Heats may be any *)
(* integers: the matrix of the code (DataCenter.h:146) has negative ones.  *)
THEOREM ControlBounded == Spec => []NoOvershoot
PROOF
  <1>1. Init => RisesSlowly /\ HeatPicked /\ NoOvershoot
    <2>1. Init => HeatPicked
      BY DEF Init, HeatPicked
    <2> QED
      BY <2>1, InitRisesSlowly, InitNoOvershoot
  <1>2. IInv /\ RisesSlowly /\ HeatPicked /\ NoOvershoot /\ [Next]_vars
          => (RisesSlowly /\ HeatPicked /\ NoOvershoot)'
    BY NextRisesSlowly, NextHeatPicked, NextNoOvershoot
  <1> QED
    BY <1>1, <1>2, Invariance, PTL DEF Spec

=============================================================================
