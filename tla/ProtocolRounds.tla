---------------------------- MODULE ProtocolRounds ----------------------------
(***************************************************************************)
(* The overlay rounds as the protocols above them see them, for one query  *)
(* and the value of one meter: values do not touch one another on their    *)
(* way.  Rounds are those that GossipRounds promises: one ends with the    *)
(* batch of the predecessor, or without it if the predecessor is down.     *)
(* Batches that arrive early stay in the network here, not in a buffer.    *)
(*                                                                         *)
(* A message is the path that is left of it: its destination, and those of *)
(* the layers or the rest of the path inside.  An operator marked "fault"  *)
(* is what a slip in the code would make of the definition it precedes;    *)
(* no action uses it.                                                      *)
(***************************************************************************)
EXTENDS PathFinder

CONSTANTS
  num_meters,
  FAILURES_TOLERATED,
  MaxCrashes,   \* bound: meters that may stop
  MaxLead       \* bound: rounds between two meters of one query

Meter == 0..(num_meters - 1)
num_aggregation_groups == FAILURES_TOLERATED + 1
LastRound == 2 * (FAILURES_TOLERATED + 2 * log2n(num_meters) + 1) + 1

ASSUME RoundsAssumption ==
  /\ num_meters \in Nat \ {0, 1}
  /\ FAILURES_TOLERATED \in Nat
  /\ MaxCrashes \in Nat
  /\ MaxLead \in Nat

VARIABLES
  meter_id,          \* the meter whose value is followed
  proxies,           \* the proxies in its ValueTuple, one of each group
  protocol_phase,
  overlay_round,
  proxy_values,      \* the meters with the value in proxy_values
  net,               \* batches sent and not yet handled
  crashed

contribution == <<meter_id, proxies>>

Hop == [round \in 0..LastRound |-> mod_pow(2, round, num_meters)]

\* gossip_target, and gossip_predecessor in the current round.
Target(m, round) == (m + Hop[round]) % num_meters
Predecessor(m) == mod_subtract(m, Hop[overlay_round[m]], num_meters)

Proxies(m) ==
  {p \in [1..num_aggregation_groups -> Meter] :
     \A g \in DOMAIN p :
       p[g] \in proxy_candidates(m, g - 1, num_aggregation_groups, num_meters)}

InitRounds ==
  /\ meter_id \in Meter
  /\ proxies \in Proxies(meter_id)
  /\ protocol_phase = [m \in Meter |-> "IDLE"]
  /\ overlay_round = [m \in Meter |-> -1]
  /\ proxy_values = {}
  /\ net = {}
  /\ crashed = {}

is_in_overlay_phase(m) == protocol_phase[m] \notin {"IDLE", "AGGREGATE"}

InStep(m) ==
  \A other \in Meter \ crashed :
    protocol_phase[other] # "AGGREGATE" => overlay_round[m] - overlay_round[other] < MaxLead

\* start_query, before the protocol's start_query_impl.
Starts(m) ==
  /\ m \notin crashed
  /\ protocol_phase[m] = "IDLE"
  /\ InStep(m)

\* The final message of the round has come.
Arrives(m, b) ==
  /\ m \notin crashed
  /\ is_in_overlay_phase(m)
  /\ b.to = m /\ b.round = overlay_round[m]
  /\ InStep(m)

NeverSkips(m) == FALSE  \* fault: nobody is ever given up

\* The round ends without a batch, which is lost if it was under way.
Skips(m) ==
  /\ m \notin crashed
  /\ is_in_overlay_phase(m)
  /\ Predecessor(m) \in crashed
  /\ InStep(m)

Unhandled(m) == net \ {b \in net : b.to = m /\ b.round = overlay_round[m]}

\* super_end_overlay_round at m: `sent` leaves in the batch of the new round.
NextRound(m, sent) ==
  LET round == overlay_round[m] + 1
  IN /\ overlay_round' = [overlay_round EXCEPT ![m] = round]
     /\ net' = Unhandled(m) \cup {[to |-> Target(m, round), round |-> round, paths |-> sent]}

Crashes(m) ==
  /\ m \notin crashed
  /\ Cardinality(crashed) < MaxCrashes
  /\ crashed' = crashed \cup {m}
  /\ UNCHANGED <<contribution, protocol_phase, overlay_round, proxy_values, net>>

Over == \A m \in Meter \ crashed : protocol_phase[m] = "AGGREGATE"

\* Every live meter reaches the aggregation phase: the last round of a phase
\* ends like any other, also next to a meter that has stopped.
OverlayEnds == <>Over

=============================================================================
