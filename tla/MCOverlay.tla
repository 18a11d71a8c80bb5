------------------------------ MODULE MCOverlay ------------------------------
(***************************************************************************)
(* Walks every node and every round of the overlay of every number of      *)
(* homes up to MaxMeters (Simulator.cpp:64 rounds it up to the modulus),   *)
(* with every number of aggregation groups that pick_proxies accepts, and  *)
(* in those up to MaxPathMeters every choice of proxies and the paths to   *)
(* them, of a crash-tolerant protocol's two phases.                        *)
(***************************************************************************)
EXTENDS PathFinder

CONSTANTS
  MaxMeters,     \* bound: the largest number of homes tried
  MaxPathMeters  \* bound: the largest overlay in which paths are looked for

\* PrimeModuli.h has a modulus for every number of homes.
ASSUME WalkAssumption ==
  /\ MaxMeters \in Nat /\ MaxPathMeters \in Nat
  /\ \E p \in valid_prime_moduli : MaxMeters <= p

VARIABLES
  num_meters, num_groups, node_id, round,
  proxies        \* the proxies of a value that node_id holds, or <<>>

walk_vars == <<num_meters, num_groups, node_id, round, proxies>>

\* The last round of Shuffle, and the number of rounds of Echo after it
\* (CtProtocolState.cpp:101, 125; FAILURES_TOLERATED is num_groups - 1).
LastOfPhase == (num_groups - 1) + 2 * log2n(num_meters) + 1

WalkInit ==
  /\ num_meters \in {get_valid_prime_modulus(homes) : homes \in 4..MaxMeters}
  /\ num_groups \in {g \in 2..num_meters : pick_proxies_defined(g, num_meters)}
  /\ node_id = 0
  /\ round = 0
  /\ proxies = <<>>

NextRound ==
  /\ node_id = 0
  /\ proxies = <<>>
  /\ round < num_meters - 2
  /\ round' = round + 1
  /\ UNCHANGED <<num_meters, num_groups, node_id, proxies>>

NextNode ==
  /\ proxies = <<>>
  /\ node_id < num_meters - 1
  /\ node_id' = node_id + 1
  /\ UNCHANGED <<num_meters, num_groups, round, proxies>>

Group(id) == aggregation_group_for(id, num_groups, num_meters)

\* On to the first round of Echo.
NextPhase ==
  /\ round = 0
  /\ proxies = <<>>
  /\ num_meters <= MaxPathMeters
  /\ round' = LastOfPhase + 1
  /\ UNCHANGED <<num_meters, num_groups, node_id, proxies>>

\* pick_proxies, group after group: for node_id's own value in Shuffle, and for
\* a value that node_id is a proxy of in Echo.
PickProxy ==
  /\ num_meters <= MaxPathMeters
  /\ round \in {0, LastOfPhase + 1}
  /\ Len(proxies) < num_groups
  /\ \E p \in IF round > 0 /\ Group(node_id) = Len(proxies) THEN {node_id}
             ELSE proxy_candidates(node_id, Len(proxies), num_groups, num_meters) :
       proxies' = Append(proxies, p)
  /\ UNCHANGED <<num_meters, num_groups, node_id, round>>

WalkNext == NextRound \/ NextNode \/ NextPhase \/ PickProxy

WalkSpec == WalkInit /\ [][WalkNext]_walk_vars

ParentOf(id) == aggregation_tree_parent(id, num_groups, num_meters)
ChildrenOf(id) == aggregation_tree_children(id, num_groups, num_meters)

\* The moduli of PrimeModuli.h make 2 a primitive root, so that over any
\* num_meters - 1 consecutive rounds a meter sends to every other meter
\* exactly once (PathFinder and waiting_messages both count on it), each of
\* which waits in that round for it: gossip_predecessor inverts gossip_target.
GossipReachesEveryone ==
  LET Targets(t) == {p \in {gossip_target(node_id, t, num_meters)} :
                       gossip_predecessor(p, t, num_meters) = node_id}
  IN UNION {Targets(t) : t \in round..(round + num_meters - 2)}
       = (0..(num_meters - 1)) \ {node_id}

\* A meter is a child of its parent and of nobody else, stays in its parent's
\* group, and only the first ID of a group reports to the utility.
TreeMatchesGroup ==
  LET claimants == {p \in 0..(num_meters - 1) :
                      \E c \in 1..2 : ChildrenOf(p)[c] = node_id}
  IN IF ParentOf(node_id) = -1
     THEN /\ claimants = {}
          /\ \A other \in 0..(node_id - 1) : Group(other) < Group(node_id)
     ELSE /\ claimants = {ParentOf(node_id)}
          /\ ParentOf(node_id) < node_id
          /\ Group(ParentOf(node_id)) = Group(node_id)

\* pick_proxies chooses a member of the group other than the meter itself, and
\* can choose every one of them.
ProxiesMatchGroup(g) ==
  proxy_candidates(node_id, g, num_groups, num_meters)
    = {p \in 0..(num_meters - 1) : Group(p) = g} \ {node_id}

\* aggregation_group_for, aggregation_tree_parent, aggregation_tree_children and
\* pick_proxies each work out the bounds of the groups for themselves, and agree
\* on them, also for the last two groups, which share the remainder.
GroupsAgree ==
  TreeMatchesGroup /\ \A g \in 0..(num_groups - 1) : ProxiesMatchGroup(g)

\* The paths encrypted_multicast_to_proxies and end_overlay_round_impl use.
Paths ==
  IF Len(proxies) < num_groups THEN <<>>
  ELSE find_paths(node_id, RemoveFirst(proxies, node_id), num_meters, round)

\* The paths find_paths finds are "node-disjoint" (PathFinder.h:17): no relay,
\* and no proxy, is on two of them, nor is the node they start from on one.
PathsDisjoint ==
  LET paths == Paths
  IN \A i, j \in DOMAIN paths :
       /\ node_id \notin Range(paths[i])
       /\ i # j => Range(paths[i]) \cap Range(paths[j]) = {}

\* There is a path to every proxy, and a message that follows it reaches the
\* proxy before the phase it is sent in is over, although find_paths looks for
\* paths of any length within rounds_limit.
PathsFitPhase ==
  LET paths == Paths
      last == IF round = 0 THEN LastOfPhase ELSE 2 * LastOfPhase
  IN \A i \in DOMAIN paths :
       /\ paths[i] # NoPath
       /\ arrival(node_id, paths[i], num_meters, round) <= last + 1

=============================================================================
