------------------------------ MODULE CtProtocol ------------------------------
(***************************************************************************)
(* Shuffle and Echo of the crash-tolerant protocol (CtProtocolState.cpp),  *)
(* over the rounds of ProtocolRounds: a meter sends its value along        *)
(* disjoint paths to a proxy in each group, and the proxies send it on to  *)
(* each other.                                                             *)
(***************************************************************************)
EXTENDS ProtocolRounds

PhaseLength == FAILURES_TOLERATED + 2 * log2n(num_meters) + 1

VARIABLES
  routes,            \* the paths it chooses to them, and each of them to the others
  echo_start_round,
  waiting_messages   \* the paths that messages with the value at a meter have left

vars == <<contribution, routes, protocol_phase, overlay_round,
          echo_start_round, proxy_values, waiting_messages, net, crashed>>

\* Both the onion of a value and a PathOverlayMessage go to the first meter of
\* a path, with the rest of the path inside: a path is all of a message here.
Routes(m, targets) ==
  LET others == RemoveFirst(targets, m)
      start == IF others = targets THEN 0 ELSE PhaseLength + 1
  IN Range(find_paths(m, others, num_meters, start))

Init ==
  /\ InitRounds
  /\ routes = [m \in {meter_id} \cup Range(proxies) |-> Routes(m, proxies)]
  /\ echo_start_round = [m \in Meter |-> 0]
  /\ waiting_messages = [m \in Meter |-> {}]

----------------------------------------------------------------------------

SendHeldOnce(m, held) ==  \* fault: what is not for this target is lost
  LET sent == {path \in held : Head(path) = Target(m, overlay_round[m] + 1)}
  IN /\ waiting_messages' = [waiting_messages EXCEPT ![m] = {}]
     /\ NextRound(m, sent)

\* The next round, with the messages `held` to be sent: those for its target
\* leave, the others wait.
SendHeld(m, held) ==
  LET sent == {path \in held : Head(path) = Target(m, overlay_round[m] + 1)}
  IN /\ waiting_messages' = [waiting_messages EXCEPT ![m] = held \ sent]
     /\ NextRound(m, sent)

start_query(m) ==
  /\ Starts(m)
  /\ protocol_phase' = [protocol_phase EXCEPT ![m] = "SHUFFLE"]
  /\ SendHeld(m, IF m = meter_id THEN routes[m] ELSE {})
  /\ UNCHANGED <<contribution, routes, echo_start_round, proxy_values, crashed>>

EchoOwn(m, values) ==  \* fault: only the meter's own value is sent again
  IF m = meter_id THEN routes[m] ELSE {}

\* "Multicast each received value to its other proxies" (line 103).  Shuffle
\* is over in the same round everywhere, so that routes can start from it.
Echo(m, values) ==
  IF m \in values THEN routes[m] ELSE {}

shuffle_over_early(m) ==  \* fault: the bound without its logarithms
  protocol_phase[m] = "SHUFFLE" /\ overlay_round[m] >= FAILURES_TOLERATED + 1

shuffle_over(m) ==
  protocol_phase[m] = "SHUFFLE" /\ overlay_round[m] >= PhaseLength

echo_over(m) ==
  protocol_phase[m] = "ECHO" /\ overlay_round[m] >= echo_start_round[m] + PhaseLength

\* end_overlay_round_impl, then the round, with `values` the meters that hold
\* the value and `held` what m has to forward.
end_overlay_round(m, values, held) ==
  \/ /\ ~ shuffle_over(m) /\ ~ echo_over(m)
     /\ SendHeld(m, held)
     /\ UNCHANGED <<protocol_phase, echo_start_round>>
  \/ /\ shuffle_over(m)
     /\ SendHeld(m, held \cup Echo(m, values))
     /\ echo_start_round' = [echo_start_round EXCEPT ![m] = overlay_round[m]]
     /\ protocol_phase' = [protocol_phase EXCEPT ![m] = "ECHO"]
  \/ /\ echo_over(m)
     /\ protocol_phase' = [protocol_phase EXCEPT ![m] = "AGGREGATE"]
     /\ waiting_messages' = [waiting_messages EXCEPT ![m] = held]
     /\ net' = Unhandled(m)
     /\ UNCHANGED <<overlay_round, echo_start_round>>

ArrivedAtRelay(b) == b.paths  \* fault: a relay keeps the value

Arrived(b) == {path \in b.paths : Len(path) = 1}

\* What remains of a path is forwarded; at its end, the value is kept.
handle_overlay_message(m, b) ==
  /\ Arrives(m, b)
  /\ proxy_values' = proxy_values \cup {m : path \in Arrived(b)}
  /\ end_overlay_round(m, proxy_values \cup {m : path \in Arrived(b)},
       waiting_messages[m] \cup {Tail(path) : path \in b.paths \ Arrived(b)})
  /\ UNCHANGED <<contribution, routes, crashed>>

Skip(m) ==
  /\ Skips(m)
  /\ end_overlay_round(m, proxy_values, waiting_messages[m])
  /\ UNCHANGED <<contribution, routes, proxy_values, crashed>>

Crash(m) ==
  /\ Crashes(m)
  /\ UNCHANGED <<routes, echo_start_round, waiting_messages>>

Step(m) ==
  \/ start_query(m)
  \/ \E b \in net : handle_overlay_message(m, b)
  \/ Skip(m)

Next == \E m \in Meter : Step(m) \/ Crash(m)

Spec == Init /\ [][Next]_vars

\* Query requests and batches arrive, and timeouts fire.
FairSpec == Spec /\ \A m \in Meter : WF_vars(Step(m))

----------------------------------------------------------------------------
(* What a value's journey needs of find_paths. *)

\* A message that source has from round start on makes the hops of path in the
\* rounds `hops`, each in the first round in which the next meter is the target.
Hops(source, path, start, hops) ==
  \A i \in 1..Len(path) :
    LET from == IF i = 1 THEN source ELSE path[i-1]
        since == IF i = 1 THEN start ELSE hops[i-1] + 1
    IN /\ since <= hops[i]
       /\ \A round \in since..hops[i] : Target(from, round) = path[i] <=> round = hops[i]

\* It is at the end of path, which is one of targets, by round last.
InTime(source, path, targets, start, last) ==
  /\ path \in Seq(Meter) \ {NoPath}
  /\ Last(path) \in Range(targets)
  /\ \E hops \in [1..Len(path) -> start..last] : Hops(source, path, start, hops)

\* find_paths has a path to every proxy, and no path is longer than its phase.
\* (It looks for paths of up to rounds_limit, which is not the same bound.)
RoutesFit ==
  \A m \in Meter : \A targets \in Proxies(m) :
    /\ \A p \in Range(targets) : \E path \in Routes(m, targets) : Last(path) = p
    /\ \A path \in Routes(m, targets) : InTime(m, path, targets, 0, PhaseLength)
    /\ \A p \in Range(targets) : \A path \in Routes(p, targets) :
         InTime(p, path, targets, PhaseLength + 1, 2 * PhaseLength)

\* "Node-disjoint" (PathFinder.h:17): the paths to two proxies share no meter.
RoutesDisjoint ==
  \A m \in Meter : \A targets \in Proxies(m) :
    \A g, h \in DOMAIN targets : \A path, other \in Routes(m, targets) :
      g # h /\ Last(path) = targets[g] /\ Last(other) = targets[h]
        => Range(path) \cap Range(other) = {}

----------------------------------------------------------------------------
(* Properties. *)

\* A value ends up at its proxies and nowhere else: end_overlay_round_impl
\* counts on it when it copies the other proxies into an array that has one
\* place less (CtProtocolState.cpp:106-108).
OnlyProxiesHoldValue == proxy_values \subseteq Range(proxies)

\* The bounds on the rounds of Shuffle and Echo leave enough of them: without
\* failures, a meter that has finished Shuffle has the value if it is one of its
\* proxies, and no message of a query stays in waiting_messages, which start_query
\* does not clear, when the overlay phase is over.
PhasesLongEnough ==
  crashed = {} =>
    \A m \in Meter :
      /\ protocol_phase[m] \in {"ECHO", "AGGREGATE"} /\ m \in Range(proxies) => m \in proxy_values
      /\ protocol_phase[m] = "AGGREGATE" => waiting_messages[m] = {}

\* As many crashes as tolerated cannot lose the value of a live meter: with
\* one proxy in each of FAILURES_TOLERATED + 1 groups, over disjoint paths, a
\* live proxy has it when the overlay phase is over.
ValueSurvives ==
  Over /\ meter_id \notin crashed /\ Cardinality(crashed) <= FAILURES_TOLERATED =>
    \E p \in Range(proxies) \ crashed : p \in proxy_values

\* The path from m to p, if no meter on it has stopped.
CleanPath(m, p) == \E path \in routes[m] : Last(path) = p /\ Range(path) \cap crashed = {}

\* Nothing but a crash on the paths to it keeps a value from a proxy: it comes
\* from its meter, or by Echo from a proxy that got it from there.
CleanPathsDeliver ==
  Over /\ meter_id \notin crashed =>
    \A p, q \in Range(proxies) :
      CleanPath(meter_id, p) /\ (q = p \/ CleanPath(p, q)) => q \in proxy_values

=============================================================================
