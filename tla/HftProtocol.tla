------------------------------ MODULE HftProtocol ------------------------------
(***************************************************************************)
(* Scatter and Gather of the protocol that floods (HftProtocolState.cpp),  *)
(* over the rounds of ProtocolRounds: a meter floods its value to a relay  *)
(* for each of its proxies, inside of a layer for the relay, and when      *)
(* Scatter is over the relay floods what was inside to the proxy.  A       *)
(* flooded message goes out again in every round of its phase.             *)
(***************************************************************************)
EXTENDS ProtocolRounds

PhaseLength == FAILURES_TOLERATED + log2n(num_meters)

VARIABLES
  relays,            \* relays[g] is the relay for proxies[g]
  gather_start_round,
  current_flood_messages,
  relay_messages

vars == <<contribution, relays, protocol_phase, overlay_round, gather_start_round,
          current_flood_messages, relay_messages, proxy_values, net, crashed>>

\* sample_range_excluding(0, num_meters, exclude, number, ...): set_intersection
\* leaves the values to exclude instead of the others.
sample_range_excluding(exclude, number) ==
  LET filtered_range == Meter \cap exclude
  IN {sample \in [1..number -> filtered_range] : IsInjective(sample)}

Init ==
  /\ InitRounds
  /\ relays \in sample_range_excluding(Range(proxies), Len(proxies))
  /\ gather_start_round = [m \in Meter |-> 0]
  /\ current_flood_messages = [m \in Meter |-> {}]
  /\ relay_messages = [m \in Meter |-> {}]

----------------------------------------------------------------------------

SentOnce(floods, target) ==  \* fault: a message goes out in one round only
  {}

\* What is left to flood when everything in `floods` has gone to target.
Undelivered(floods, target) == {path \in floods : Head(path) # target}

\* The next round; every message in `floods` is sent to its target.
Flood(m, floods) ==
  /\ current_flood_messages' =
       [current_flood_messages EXCEPT ![m] = Undelivered(floods, Target(m, overlay_round[m] + 1))]
  /\ NextRound(m, floods)

start_query(m) ==
  /\ Starts(m)
  /\ protocol_phase' = [protocol_phase EXCEPT ![m] = "SCATTER"]
  /\ Flood(m, IF m = meter_id THEN {<<relays[g], proxies[g]>> : g \in DOMAIN proxies} ELSE {})
  /\ UNCHANGED <<contribution, relays, gather_start_round, relay_messages, proxy_values, crashed>>

scatter_over(m) ==
  protocol_phase[m] = "SCATTER" /\ overlay_round[m] >= PhaseLength

gather_over_at_once(m) ==  \* fault: rounds of Gather counted from the query's start
  protocol_phase[m] = "GATHER" /\ overlay_round[m] >= PhaseLength

gather_over(m) ==
  protocol_phase[m] = "GATHER" /\ overlay_round[m] >= gather_start_round[m] + PhaseLength

\* end_overlay_round_impl, then the round, with `floods` what m floods and
\* `held` what it keeps as a relay.
end_overlay_round(m, floods, held) ==
  \/ /\ ~ scatter_over(m) /\ ~ gather_over(m)
     /\ relay_messages' = [relay_messages EXCEPT ![m] = held]
     /\ Flood(m, floods)
     /\ UNCHANGED <<protocol_phase, gather_start_round>>
  \/ /\ scatter_over(m)
     /\ relay_messages' = [relay_messages EXCEPT ![m] = {}]
     /\ Flood(m, held)
     /\ gather_start_round' = [gather_start_round EXCEPT ![m] = overlay_round[m]]
     /\ protocol_phase' = [protocol_phase EXCEPT ![m] = "GATHER"]
  \/ /\ gather_over(m)
     /\ relay_messages' = [relay_messages EXCEPT ![m] = held]
     /\ current_flood_messages' = [current_flood_messages EXCEPT ![m] = {}]
     /\ protocol_phase' = [protocol_phase EXCEPT ![m] = "AGGREGATE"]
     /\ net' = Unhandled(m)
     /\ UNCHANGED <<overlay_round, gather_start_round>>

ForMe(m, b) == {path \in b.paths : Head(path) = m}

\* handle_scatter_phase_message: what is inside of a layer is kept for Gather;
\* a value without a layer is rejected.
Unwrapped(m, b) ==
  IF protocol_phase[m] = "SCATTER"
  THEN {Tail(path) : path \in {p \in ForMe(m, b) : Len(p) > 1}}
  ELSE {}

\* handle_gather_phase_message: a value is kept, a layer is rejected.
ValueArrived(m, b) ==
  protocol_phase[m] = "GATHER" /\ \E path \in ForMe(m, b) : Len(path) = 1

handle_overlay_message(m, b) ==
  /\ Arrives(m, b)
  /\ proxy_values' = proxy_values \cup {p \in {m} : ValueArrived(p, b)}
  /\ end_overlay_round(m, current_flood_messages[m] \cup (b.paths \ ForMe(m, b)),
                          relay_messages[m] \cup Unwrapped(m, b))
  /\ UNCHANGED <<contribution, relays, crashed>>

Skip(m) ==
  /\ Skips(m)
  /\ end_overlay_round(m, current_flood_messages[m], relay_messages[m])
  /\ UNCHANGED <<contribution, relays, proxy_values, crashed>>

Crash(m) ==
  /\ Crashes(m)
  /\ UNCHANGED <<relays, gather_start_round, current_flood_messages, relay_messages>>

Step(m) ==
  \/ start_query(m)
  \/ \E b \in net : handle_overlay_message(m, b)
  \/ Skip(m)

Next == \E m \in Meter : Step(m) \/ Crash(m)

Spec == Init /\ [][Next]_vars

----------------------------------------------------------------------------
(* What a flood needs of the hops. *)

\* Ways of a message that source floods from round start on, among `live`
\* meters: way[round] is a meter that has it before round `round`.
Ways(source, start, end, live) ==
  {way \in [start..end -> live] :
     /\ way[start] = source
     /\ \A round \in start..(end - 1) :
          way[round + 1] \in {way[round], Target(way[round], round)}}

FloodReaches(source, target, start, end, live) ==
  \E way \in Ways(source, start, end, live) :
    \E round \in start..end : Target(way[round], round) = target

\* In either phase there is a way around as many failures as tolerated; in
\* Gather also back to the relay itself, which may be the proxy.
FloodsReach ==
  \A live \in SUBSET Meter : Cardinality(Meter \ live) <= FAILURES_TOLERATED =>
    \A source, target \in live :
      /\ source # target => FloodReaches(source, target, 0, PhaseLength, live)
      /\ FloodReaches(source, target, PhaseLength + 1, 2 * PhaseLength, live)

----------------------------------------------------------------------------
(* Properties. *)

\* log2n + FAILURES_TOLERATED rounds are enough to flood a message from any
\* meter to any other, in Scatter and again in Gather, although a relay may
\* have to get its own message back from others: without failures, every proxy
\* has the value when Gather is over at it.
FloodsArrive ==
  crashed = {} =>
    \A p \in Range(proxies) : protocol_phase[p] = "AGGREGATE" => p \in proxy_values

\* As many crashes as tolerated, at any moment of the floods, keep a value from
\* a proxy only by stopping its meter, the proxy or its relay.
LiveRelayDelivers ==
  Over /\ Cardinality(crashed) <= FAILURES_TOLERATED =>
    \A g \in DOMAIN proxies :
      {meter_id, relays[g], proxies[g]} \cap crashed = {} => proxies[g] \in proxy_values

\* A meter that starts a query floods its value to relays that are picked "from
\* non-proxy nodes" (HftProtocolState.cpp:43), by a sample "excluding all values in
\* exclude_values" (Random.h:31).  Violated at once: the sample is of those very
\* values, so that all relays are proxies.
RelaysAreNonProxies ==
  \A path \in current_flood_messages[meter_id] :
    protocol_phase[meter_id] = "SCATTER" => Head(path) \notin Range(proxies)

=============================================================================
