------------------------------ MODULE Topology ------------------------------
(***************************************************************************)
(* The three-tier network (Topology.cpp, Switches.cpp, Links.cpp,          *)
(* Rack.cpp): CreateTopology wires servers to access switches, these to    *)
(* aggregation and these to core switches; then servers are turned off and *)
(* on, with their links, and EveryASecond follows with the access switches.*)
(*                                                                         *)
(* The numbers of switches are computed from the default sizes of the data *)
(* center, when the globals of main.cpp are initialised; the program       *)
(* arguments choose the sizes that are wired.  Servers and switches are    *)
(* numbered from 0; speeds, delays and energy are left out.                *)
(***************************************************************************)
EXTENDS Integers, Sequences, FiniteSets, SequencesExt

CONSTANTS
  DefaultChassis, DefaultServers,  \* 50 chassis of 10 servers
  Sizes,                           \* <<chassis, servers>> of the arguments
  NUMBER_CHASSI_RACK,              \* 4
  NUMBER_OF_PORTS_SWITCH_ACCESS,   \* 48
  NUMBER_OF_PORTS_SWITCH_UP,       \* 24, of aggregation and core switches
  Redundancy                       \* links to each next tier, 2

ASSUME SizeAssumption ==
  /\ {DefaultChassis, DefaultServers, NUMBER_CHASSI_RACK, Redundancy,
      NUMBER_OF_PORTS_SWITCH_ACCESS, NUMBER_OF_PORTS_SWITCH_UP} \subseteq Nat \ {0}
  /\ Sizes \subseteq (1..DefaultChassis) \X (Nat \ {0})
  /\ Redundancy <= NUMBER_OF_PORTS_SWITCH_ACCESS

VARIABLES
  NUMBER_OF_CHASSIS, NUMBER_OF_SERVERS_IN_ONE_CHASSIS,
  stage,
  rck, l, m, pt,   \* rack, access switch, server of the rack, ports used
  i, up,           \* lower switch, first of the upper switches
  Bottom, Top,     \* of each switch: what its links lead to
  link,            \* of each server: its links, as switch and position there
  active,          \* the links between servers and switches that are active
  isOFF,           \* servers that are off
  switchOFF        \* switches that are off

sizes  == <<NUMBER_OF_CHASSIS, NUMBER_OF_SERVERS_IN_ONE_CHASSIS>>
indices == <<rck, l, m, pt>>
wiring == <<indices, i, up, Bottom, Top, link>>
power  == <<active, isOFF, switchOFF>>
topologyVars   == <<sizes, stage, wiring, power>>

Ceil(n, d) == (n + d - 1) \div d

SWITCH_ACCESS ==
  Ceil(DefaultServers * NUMBER_CHASSI_RACK + Redundancy,
       NUMBER_OF_PORTS_SWITCH_ACCESS)
  * Ceil(DefaultChassis, NUMBER_CHASSI_RACK) * Redundancy

SWITCH_AGGREGATION ==
  Ceil(SWITCH_ACCESS + Redundancy, NUMBER_OF_PORTS_SWITCH_UP) * Redundancy

SWITCH_CORE == Ceil(SWITCH_AGGREGATION, NUMBER_OF_PORTS_SWITCH_UP) * Redundancy

(* The vector Switches grows by a tier at a time; a switch has no links    *)
(* when it is made, and is on.                                             *)
Access      == 0..(SWITCH_ACCESS - 1)
Aggregation == SWITCH_ACCESS..(SWITCH_ACCESS + SWITCH_AGGREGATION - 1)
Core        == (SWITCH_ACCESS + SWITCH_AGGREGATION)..
               (SWITCH_ACCESS + SWITCH_AGGREGATION + SWITCH_CORE - 1)

Switches == DOMAIN Bottom

Switch_ACCESS      == [sw \in Access |-> <<>>]
Switch_AGGREGATION == [sw \in Aggregation |-> <<>>]
Switch_CORE        == [sw \in Core |-> <<>>]

Grown(lists, tier) ==
  [sw \in DOMAIN lists \cup DOMAIN tier |->
     IF sw \in DOMAIN lists THEN lists[sw] ELSE tier[sw]]

ServerNumbers == 0..(NUMBER_OF_CHASSIS * NUMBER_OF_SERVERS_IN_ONE_CHASSIS - 1)

Racks == 0..(Ceil(NUMBER_OF_CHASSIS, NUMBER_CHASSI_RACK) - 1)

RackSize == NUMBER_CHASSI_RACK * NUMBER_OF_SERVERS_IN_ONE_CHASSIS

(* The servers join the racks in their order; the last rack may have less. *)
Rack(r) == {s \in ServerNumbers : s \div RackSize = r}

TopologyInit ==
  /\ \E size \in Sizes : /\ NUMBER_OF_CHASSIS = size[1]
                         /\ NUMBER_OF_SERVERS_IN_ONE_CHASSIS = size[2]
  /\ stage = "servers"
  /\ rck = 0 /\ l = 0 /\ m = 0 /\ pt = 0 /\ i = 0 /\ up = 0
  /\ Bottom = Switch_ACCESS /\ Top = Switch_ACCESS
  /\ link = [s \in ServerNumbers |-> <<>>]
  /\ active = {}
  /\ isOFF = {} /\ switchOFF = {}

-----------------------------------------------------------------------------
(* Servers to access switches.  A group of switches, as many as a server   *)
(* has links, is full when its ports but those for the links up are used   *)
(* and one more is.                                                        *)

(* Mutant: the ports for the links up are counted twice. *)
FullEarly == pt > NUMBER_OF_PORTS_SWITCH_ACCESS - 2 * Redundancy

Full == pt > NUMBER_OF_PORTS_SWITCH_ACCESS - Redundancy

Group(first) == first..(first + Redundancy - 1)

EstablishingConnection(first, below) ==
  Bottom' = [sw \in Switches |-> IF sw \in Group(first)
              THEN Append(Bottom[sw], below) ELSE Bottom[sw]]

(* Links are active when they are made. *)
Link_SV_to_SW(first) ==
  [n \in 1..Redundancy |-> <<first + n - 1, Len(Bottom[first + n - 1]) + 1>>]

(* The server m of the rack gets a link to each switch of the group. *)
Connect(first) ==
  LET s == rck * RackSize + m
  IN  /\ EstablishingConnection(first, s)
      /\ link' = [link EXCEPT ![s] = @ \o Link_SV_to_SW(first)]
      /\ active' = active \cup ToSet(Link_SV_to_SW(first))

InRack == m < Cardinality(Rack(rck))

ConnectServer ==
  /\ stage = "servers" /\ m < RackSize
  /\ InRack /\ ~ Full
  /\ Connect(l)
  /\ pt' = pt + 1 /\ m' = m + 1
  /\ UNCHANGED <<sizes, stage, rck, l, i, up, Top, isOFF, switchOFF>>

(* The group is full: the loop over the servers takes the next one. *)
ConnectServerToNextGroup ==
  /\ stage = "servers" /\ m < RackSize
  /\ InRack /\ Full
  /\ l' = l + Redundancy
  /\ l' \in Access
  /\ Connect(l')
  /\ pt' = 1 /\ m' = m + 1
  /\ UNCHANGED <<sizes, stage, rck, i, up, Top, isOFF, switchOFF>>

(* There is none: the code calls a switch beyond the end of the vector.    *)
ConnectOutOfRange ==
  /\ stage = "servers" /\ m < RackSize
  /\ InRack /\ Full
  /\ l + Redundancy \notin Access
  /\ stage' = "undefined"
  /\ UNCHANGED <<sizes, wiring, power>>

SkipPlace ==
  /\ stage = "servers" /\ m < RackSize
  /\ ~ InRack /\ Full
  /\ pt' = 0 /\ l' = l + Redundancy /\ m' = m + 1
  /\ UNCHANGED <<sizes, stage, rck, i, up, Bottom, Top, link, power>>

(* Mutant: the next group starts in the middle of this one. *)
NextRackByOne ==
  /\ stage = "servers"
  /\ m = RackSize \/ (~ InRack /\ ~ Full)
  /\ rck' = rck + 1 /\ pt' = 0 /\ m' = 0
  /\ l' = l + 1
  /\ stage' = IF rck' \in Racks /\ l' \in Access THEN "servers" ELSE "connected"
  /\ UNCHANGED <<sizes, i, up, Bottom, Top, link, power>>

NextRack ==
  /\ stage = "servers"
  /\ m = RackSize \/ (~ InRack /\ ~ Full)
  /\ rck' = rck + 1 /\ pt' = 0 /\ m' = 0
  /\ l' = l + Redundancy
  /\ stage' = IF rck' \in Racks /\ l' \in Access THEN "servers" ELSE "connected"
  /\ UNCHANGED <<sizes, i, up, Bottom, Top, link, power>>

-----------------------------------------------------------------------------
(* Switch i gets links to the next switches of the upper tier, round and   *)
(* round: back to its first when the vector ends.                          *)
EstablishingConnection_Top_To_Bottom(uppers) == Top' = [Top EXCEPT ![i] = @ \o uppers]

(* Mutant: all links lead to one switch. *)
ConnectUpToOne(locSwitch) ==
  /\ EstablishingConnection_Top_To_Bottom([n \in 1..Redundancy |-> up])
  /\ Bottom' = [Bottom EXCEPT ![up] = @ \o [n \in 1..Redundancy |-> i]]
  /\ up' = IF up + Redundancy >= Cardinality(Switches) THEN locSwitch ELSE up + Redundancy
  /\ i' = i + 1
  /\ UNCHANGED <<sizes, stage, indices, link, power>>

ConnectUp(locSwitch) ==
  /\ EstablishingConnection_Top_To_Bottom([n \in 1..Redundancy |-> up + n - 1])
  /\ EstablishingConnection(up, i)
  /\ up' = IF up + Redundancy >= Cardinality(Switches) THEN locSwitch ELSE up + Redundancy
  /\ i' = i + 1
  /\ UNCHANGED <<sizes, stage, indices, link, power>>

CreateAggregation ==
  /\ stage = "connected"
  /\ stage' = "aggregation" /\ up' = SWITCH_ACCESS
  /\ Bottom' = Grown(Bottom, Switch_AGGREGATION) /\ Top' = Grown(Top, Switch_AGGREGATION)
  /\ UNCHANGED <<sizes, indices, i, link, power>>

ConnectAccess == stage = "aggregation" /\ i \in Access /\ ConnectUp(SWITCH_ACCESS)

CreateCore ==
  /\ stage = "aggregation" /\ i \notin Access
  /\ stage' = "core" /\ up' = SWITCH_ACCESS + SWITCH_AGGREGATION
  /\ Bottom' = Grown(Bottom, Switch_CORE) /\ Top' = Grown(Top, Switch_CORE)
  /\ UNCHANGED <<sizes, indices, i, link, power>>

ConnectAggregation ==
  stage = "core" /\ i \in Aggregation /\ ConnectUp(SWITCH_ACCESS + SWITCH_AGGREGATION)

Created ==
  /\ stage = "core" /\ i \notin Aggregation
  /\ stage' = "created"
  /\ UNCHANGED <<sizes, wiring, power>>

-----------------------------------------------------------------------------
(* Server::TurnOFF and TurnON, with the links of the server. *)
TurnOFF(s) ==
  /\ stage = "created" /\ s \notin isOFF
  /\ isOFF' = isOFF \cup {s}
  /\ active' = active \ ToSet(link[s])
  /\ UNCHANGED <<sizes, stage, wiring, switchOFF>>

(* Mutant: the first link only. *)
TurnONFirstLink(s) ==
  /\ stage = "created" /\ s \in isOFF
  /\ isOFF' = isOFF \ {s}
  /\ active' = active \cup {link[s][1]}
  /\ UNCHANGED <<sizes, stage, wiring, switchOFF>>

TurnON(s) ==
  /\ stage = "created" /\ s \in isOFF
  /\ isOFF' = isOFF \ {s}
  /\ active' = active \cup ToSet(link[s])
  /\ UNCHANGED <<sizes, stage, wiring, switchOFF>>

ChecksIfThereIsActiveConnections(sw) ==
  \E k \in DOMAIN Bottom[sw] : <<sw, k>> \in active

(* Topology::EveryASecond.  Aggregation and core switches stay on. *)
EveryASecond ==
  /\ stage = "created"
  /\ switchOFF' = {sw \in Access : ~ ChecksIfThereIsActiveConnections(sw)}
  /\ UNCHANGED <<sizes, stage, wiring, active, isOFF>>

TopologyNext ==
  \/ ConnectServer \/ ConnectServerToNextGroup \/ ConnectOutOfRange
  \/ SkipPlace \/ NextRack
  \/ CreateAggregation \/ ConnectAccess
  \/ CreateCore \/ ConnectAggregation \/ Created
  \/ \E s \in ServerNumbers : TurnOFF(s) \/ TurnON(s)
  \/ EveryASecond

TopologySpec == TopologyInit /\ [][TopologyNext]_topologyVars

TopologyFairSpec == TopologySpec /\ WF_topologyVars(TopologyNext)

-----------------------------------------------------------------------------
TopologyTypeOK ==
  /\ sizes \in Sizes
  /\ stage \in {"servers", "connected", "aggregation", "core", "created", "undefined"}
  /\ rck \in Nat /\ l \in Nat /\ m \in 0..RackSize
  /\ pt \in 0..NUMBER_OF_PORTS_SWITCH_ACCESS
  /\ i \in Nat /\ up \in Nat
  /\ Switches \in {Access, Access \cup Aggregation, Access \cup Aggregation \cup Core}
  /\ Bottom \in [Switches -> Seq(Nat)] /\ Top \in [Switches -> Seq(Switches)]
  /\ link \in [ServerNumbers -> Seq(Access \X Nat)]
  /\ active \subseteq Access \X Nat
  /\ isOFF \subseteq ServerNumbers /\ switchOFF \subseteq Switches

(* The sizes that the usage text allows: at most the default. *)
WithinUsage == NUMBER_OF_SERVERS_IN_ONE_CHASSIS <= DefaultServers

Above(s) == {link[s][k][1] : k \in DOMAIN link[s]}

(* Redundancy is what it says: whichever switch fails, every server still  *)
(* reaches a core switch, although the numbers of switches were computed   *)
(* from other sizes than those that are wired.                             *)
SurvivesOneSwitch ==
  stage = "created" /\ WithinUsage =>
    \A s \in ServerNumbers, broken \in Switches :
      \E a \in Above(s) \ {broken} :
        \E g \in ToSet(Top[a]) \ {broken} : ToSet(Top[g]) \ {broken} # {}

(* The types, and that no switch gets more links than it has ports. *)
PortsKept ==
  /\ TopologyTypeOK
  /\ WithinUsage =>
       \A sw \in Switches :
         Len(Bottom[sw]) + Len(Top[sw]) <=
           IF sw \in Access THEN NUMBER_OF_PORTS_SWITCH_ACCESS
                            ELSE NUMBER_OF_PORTS_SWITCH_UP

(* The wiring never indexes beyond its switches, and ends. *)
IsCreated == WithinUsage => <>(stage = "created")

(* When EveryASecond turns access switches off or on, exactly those are    *)
(* off whose servers are all off: none is cut off, none wastes energy.     *)
(* A switch counts the active links of its own list, a server turns off    *)
(* and on the links of its own.                                            *)
SwitchesFollowServers ==
  [][switchOFF' # switchOFF =>
       \A sw \in Access : sw \in switchOFF' <=> ToSet(Bottom[sw]) \subseteq isOFF]_topologyVars

=============================================================================
