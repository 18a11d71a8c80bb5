-------------------------- MODULE HftProtocolProofs --------------------------
(***************************************************************************)
(* Theorems about HftProtocol, in overlays in which floods get around the  *)
(* failures tolerated, as FloodsReach says.                                *)
(***************************************************************************)
EXTENDS HftProtocol, OverlayProofs, TLAPS, FiniteSetTheorems

\* A phase has rounds, and LastRound is beyond those of Gather.
LEMMA PhaseLengthPositive ==
  PhaseLength \in Nat \ {0} /\ 2 * PhaseLength <= LastRound /\ LastRound \in Nat
<1>1. log2n(num_meters) \in Nat \ {0}
  BY RoundsAssumption, Log2Positive
<1> QED
  BY <1>1, RoundsAssumption DEF PhaseLength, LastRound

\* gossip_predecessor inverts gossip_target.
LEMMA TargetInverse ==
  ASSUME NEW s \in Meter, NEW round \in 0..LastRound
  PROVE  /\ Target(s, round) \in Meter
         /\ mod_subtract(Target(s, round), Hop[round], num_meters) = s
<1>1. num_meters \in Nat \ {0, 1} /\ s \in 0..(num_meters - 1)
  BY RoundsAssumption DEF Meter
<1>2. round \in Nat
  BY PhaseLengthPositive
<1>3. Hop[round] \in 0..(num_meters - 1)
  BY <1>1, <1>2, NextPower DEF Hop
<1> QED
  BY <1>1, <1>3, OffsetInverse DEF Target, Meter

\* So a meter hears from one meter in a round.
LEMMA OneSender ==
  ASSUME NEW s \in Meter, NEW u \in Meter, NEW round \in 0..LastRound,
         Target(s, round) = Target(u, round)
  PROVE  s = u
<1>1. mod_subtract(Target(s, round), Hop[round], num_meters) = s
  BY TargetInverse
<1>2. mod_subtract(Target(u, round), Hop[round], num_meters) = u
  BY TargetInverse
<1> QED
  BY <1>1, <1>2

----------------------------------------------------------------------------
(* Floods.  There is one of Scatter and one of Gather for every proxy. *)

Phase == {"SCATTER", "GATHER"}

Source(g, phase) == IF phase = "SCATTER" THEN meter_id ELSE relays[g]
Destination(g, phase) == IF phase = "SCATTER" THEN relays[g] ELSE proxies[g]
Message(g, phase) == IF phase = "SCATTER" THEN <<relays[g], proxies[g]>> ELSE <<proxies[g]>>
First(phase) == IF phase = "SCATTER" THEN 0 ELSE PhaseLength + 1
Final(phase) == IF phase = "SCATTER" THEN PhaseLength ELSE 2 * PhaseLength

\* Sets of live meters with those that the value needs for proxy g, and with
\* enough others.
Live(g) ==
  {live \in SUBSET (Meter \ crashed) :
     /\ Cardinality(Meter \ live) <= FAILURES_TOLERATED
     /\ {meter_id, relays[g], proxies[g]} \subseteq live}

WaysOf(g, phase, live) == Ways(Source(g, phase), First(phase), Final(phase), live)

\* m has left round `round` behind.
Past(m, round) == overlay_round[m] > round \/ protocol_phase[m] = "AGGREGATE"

\* The destination has the message.
Landed(g, phase) ==
  IF phase = "SCATTER"
  THEN \/ protocol_phase[relays[g]] \in {"GATHER", "AGGREGATE"}
       \/ <<proxies[g]>> \in relay_messages[relays[g]]
  ELSE proxies[g] \in proxy_values

\* It will not miss the batch that has it.
Pending(g, phase, live) ==
  \E b \in net :
    /\ b.to = Destination(g, phase) /\ b.round \in First(phase)..Final(phase)
    /\ ~ Past(b.to, b.round)
    /\ Message(g, phase) \in b.paths
    /\ \E s \in live : Target(s, b.round) = b.to

Got(g, phase, live) == Landed(g, phase) \/ Pending(g, phase, live)

\* Until then, whoever is on a way of the message floods it in every round.
Carries(g, phase, live, way, round) ==
  LET m == way[round]
      u == Target(m, round)
  IN overlay_round[m] >= round =>
       /\ protocol_phase[m] = phase =>
            Message(g, phase) \in current_flood_messages[m] \/ Got(g, phase, live)
       /\ ~ Past(u, round) =>
            \/ \E b \in net : b.to = u /\ b.round = round /\ Message(g, phase) \in b.paths
            \/ Got(g, phase, live)
       /\ u = Destination(g, phase) => Got(g, phase, live)

FloodsCarried ==
  \A g \in DOMAIN proxies, phase \in Phase : \A live \in Live(g) :
    \A way \in WaysOf(g, phase, live), round \in First(phase)..Final(phase) :
      Carries(g, phase, live, way, round)

\* What is chosen in Init and never changes.
Contribution ==
  /\ meter_id \in Meter
  /\ proxies \in [1..num_aggregation_groups -> Meter \ {meter_id}]
  /\ relays \in [1..num_aggregation_groups -> Meter \ {meter_id}]

\* Round and phase of a meter agree.
Phases ==
  /\ protocol_phase \in [Meter -> {"IDLE", "SCATTER", "GATHER", "AGGREGATE"}]
  /\ overlay_round \in [Meter -> -1..(2 * PhaseLength)]
  /\ gather_start_round \in [Meter -> Nat]
  /\ DOMAIN current_flood_messages = Meter
  /\ DOMAIN relay_messages = Meter
  /\ crashed \subseteq Meter
  /\ \A m \in Meter :
       /\ protocol_phase[m] = "IDLE" => overlay_round[m] = -1
       /\ protocol_phase[m] = "SCATTER" => overlay_round[m] \in 0..PhaseLength
       /\ protocol_phase[m] = "GATHER" =>
            /\ overlay_round[m] \in (PhaseLength + 1)..(2 * PhaseLength)
            /\ gather_start_round[m] = PhaseLength
       /\ protocol_phase[m] = "AGGREGATE" => overlay_round[m] = 2 * PhaseLength

\* A meter sends one batch in a round, and nobody else sends one to its target.
Batches ==
  /\ \A b \in net : b.round \in 0..(2 * PhaseLength)
  /\ \A b \in net : \E s \in Meter : b.to = Target(s, b.round) /\ b.round <= overlay_round[s]
  /\ \A b, c \in net : b.to = c.to /\ b.round = c.round => b = c

\* Nobody passes a round before its live predecessor has entered it.
InOrder ==
  \A s \in Meter \ crashed, round \in 0..(2 * PhaseLength) :
    Past(Target(s, round), round) => overlay_round[s] >= round

FloodInv == Contribution /\ Phases /\ Batches /\ InOrder /\ FloodsCarried
----------------------------------------------------------------------------
(* What a step of a meter does. *)

\* Nobody is a proxy of its own value (random_int_exclude), and the relays are
\* proxies.
LEMMA InitContribution == Init => Contribution
<1> SUFFICES ASSUME Init PROVE Contribution
  OBVIOUS
<1>1. /\ meter_id \in Meter /\ proxies \in [1..num_aggregation_groups -> Meter]
      /\ \A g \in DOMAIN proxies :
           proxies[g] \in proxy_candidates(meter_id, g - 1, num_aggregation_groups, num_meters)
      /\ num_aggregation_groups \in Nat
  BY RoundsAssumption DEF Init, InitRounds, Proxies, num_aggregation_groups
<1>2. ASSUME NEW g \in 1..num_aggregation_groups PROVE proxies[g] # meter_id
  <2>1. /\ proxies[g] \in proxy_candidates(meter_id, g - 1, num_aggregation_groups, num_meters)
        /\ meter_id \in Int
    BY <1>1, <1>2, RoundsAssumption DEF Meter
  <2> DEFINE begin == group_begin(g - 1, num_aggregation_groups, num_meters)
             end == begin + group_size_of(g - 1, num_aggregation_groups, num_meters) - 1
  <2>2. CASE meter_id \in begin..end
    <3>1. PICK choice \in begin..(end - 1) :
            proxies[g] = IF choice = meter_id THEN end ELSE choice
      BY <2>1, <2>2 DEF proxy_candidates, random_int_exclude
    <3> QED
      BY <2>1, <2>2, <3>1
  <2>3. CASE meter_id \notin begin..end
    BY <2>1, <2>3 DEF proxy_candidates
  <2> QED
    BY <2>2, <2>3
<1>3. relays \in [1..Len(proxies) -> Meter \cap Range(proxies)]
  BY DEF Init, sample_range_excluding
<1>4. Len(proxies) = num_aggregation_groups
  BY <1>1
<1>5. \A g \in 1..num_aggregation_groups : relays[g] \in Meter /\ relays[g] # meter_id
  BY <1>1, <1>2, <1>3, <1>4 DEF Range
<1> QED
  BY <1>1, <1>2, <1>3, <1>4, <1>5 DEF Contribution

\* The messages for m among `paths`, which it keeps in Scatter.
Mine(m, paths) == {path \in paths : Head(path) = m}
Inside(m, paths) ==
  IF protocol_phase[m] = "SCATTER"
  THEN {Tail(path) : path \in {p \in Mine(m, paths) : Len(p) > 1}}
  ELSE {}

\* A live predecessor is heard, and was in the round.
Heard(m, paths) ==
  \A s \in Meter \ crashed : Target(s, overlay_round[m]) = m =>
    /\ overlay_round[s] >= overlay_round[m]
    /\ \A b \in net : b.to = m /\ b.round = overlay_round[m] => b.paths = paths

Fixed == UNCHANGED <<meter_id, proxies, relays, crashed>>

\* handle_overlay_message and Skip, which is like the arrival of nothing.
RoundEnds(m, paths) ==
  /\ m \in Meter \ crashed /\ is_in_overlay_phase(m)
  /\ Heard(m, paths)
  /\ proxy_values' = proxy_values \cup
       {p \in {m} : protocol_phase[m] = "GATHER" /\ \E path \in Mine(m, paths) : Len(path) = 1}
  /\ end_overlay_round(m, current_flood_messages[m] \cup (paths \ Mine(m, paths)),
                          relay_messages[m] \cup Inside(m, paths))
  /\ Fixed

\* Rounds are those of the sends, in the overlay phase.
LEMMA RoundInRange ==
  ASSUME FloodInv, NEW m \in Meter, is_in_overlay_phase(m)
  PROVE  /\ overlay_round[m] \in 0..(2 * PhaseLength)
         /\ overlay_round[m] \in 0..LastRound
         /\ protocol_phase[m] \in Phase
BY PhaseLengthPositive DEF FloodInv, Phases, is_in_overlay_phase, Phase

\* With a batch, the round ends on what is in it.
LEMMA BatchHeard ==
  ASSUME FloodInv, NEW m \in Meter, NEW b \in net, handle_overlay_message(m, b)
  PROVE  RoundEnds(m, b.paths)
<1>1. /\ m \notin crashed /\ is_in_overlay_phase(m)
      /\ b.to = m /\ b.round = overlay_round[m]
  BY DEF handle_overlay_message, Arrives
<1>2. ForMe(m, b) = Mine(m, b.paths) /\ Unwrapped(m, b) = Inside(m, b.paths)
  BY DEF ForMe, Mine, Unwrapped, Inside
<1>3. Heard(m, b.paths)
  <2> SUFFICES ASSUME NEW s \in Meter \ crashed, Target(s, overlay_round[m]) = m
               PROVE  /\ overlay_round[s] >= overlay_round[m]
                      /\ \A c \in net : c.to = m /\ c.round = overlay_round[m]
                           => c.paths = b.paths
    BY DEF Heard
  <2>1. PICK u \in Meter : b.to = Target(u, b.round) /\ b.round <= overlay_round[u]
    BY DEF FloodInv, Batches
  <2>2. u = s
    BY <1>1, <2>1, RoundInRange, OneSender
  <2>3. \A c \in net : c.to = m /\ c.round = overlay_round[m] => c = b
    BY <1>1 DEF FloodInv, Batches
  <2>4. overlay_round[s] \in Int /\ overlay_round[m] \in Int
    BY DEF FloodInv, Phases
  <2> QED
    BY <1>1, <2>1, <2>2, <2>3, <2>4
<1>4. proxy_values' = proxy_values \cup
        {p \in {m} : protocol_phase[m] = "GATHER" /\ \E path \in Mine(m, b.paths) : Len(path) = 1}
  BY <1>2 DEF handle_overlay_message, ValueArrived
<1>5. end_overlay_round(m, current_flood_messages[m] \cup (b.paths \ Mine(m, b.paths)),
                           relay_messages[m] \cup Inside(m, b.paths))
  BY <1>2 DEF handle_overlay_message
<1>6. Fixed
  BY DEF handle_overlay_message, Fixed, contribution
<1> QED
  BY <1>1, <1>3, <1>4, <1>5, <1>6 DEF RoundEnds

\* Without one, it ends on nothing new, and only a crashed meter goes unheard.
LEMMA SkipHeard ==
  ASSUME FloodInv, NEW m \in Meter, Skip(m)
  PROVE  RoundEnds(m, {})
<1>1. m \notin crashed /\ is_in_overlay_phase(m) /\ Predecessor(m) \in crashed
  BY DEF Skip, Skips
<1>2. Mine(m, {}) = {} /\ Inside(m, {}) = {}
  BY DEF Mine, Inside
<1>3. Heard(m, {})
  <2> SUFFICES ASSUME NEW s \in Meter \ crashed, Target(s, overlay_round[m]) = m
               PROVE  FALSE
    BY DEF Heard
  <2>1. mod_subtract(Target(s, overlay_round[m]), Hop[overlay_round[m]], num_meters) = s
    BY <1>1, RoundInRange, TargetInverse
  <2> QED
    BY <1>1, <2>1 DEF Predecessor
<1>4. proxy_values' = proxy_values \cup
        {p \in {m} : protocol_phase[m] = "GATHER" /\ \E path \in Mine(m, {}) : Len(path) = 1}
  BY <1>2 DEF Skip
<1>5. current_flood_messages[m] \cup ({} \ Mine(m, {})) = current_flood_messages[m]
      /\ relay_messages[m] \cup Inside(m, {}) = relay_messages[m]
  BY <1>2
<1>6. end_overlay_round(m, current_flood_messages[m] \cup ({} \ Mine(m, {})),
                           relay_messages[m] \cup Inside(m, {}))
  BY <1>5 DEF Skip
<1>7. Fixed
  BY DEF Skip, Fixed, contribution
<1> QED
  BY <1>1, <1>3, <1>4, <1>6, <1>7 DEF RoundEnds

\* m goes on to the next round, or is done with them.
Stays(m) ==
  /\ \A s \in Meter \ {m} : protocol_phase'[s] = protocol_phase[s]
  /\ protocol_phase[m] # "AGGREGATE"
  /\ Fixed

Goes(m, floods) ==
  Stays(m) /\ overlay_round[m] < 2 * PhaseLength /\ protocol_phase'[m] # "AGGREGATE" /\ Flood(m, floods)

Done(m) ==
  /\ Stays(m) /\ protocol_phase'[m] = "AGGREGATE" /\ overlay_round[m] = 2 * PhaseLength
  /\ current_flood_messages' = [current_flood_messages EXCEPT ![m] = {}]
  /\ net' = Unhandled(m)
  /\ UNCHANGED overlay_round

\* The three ends of a round.
LEMMA RoundEndsHow ==
  ASSUME FloodInv, NEW m \in Meter, NEW paths, RoundEnds(m, paths)
  PROVE  LET floods == current_flood_messages[m] \cup (paths \ Mine(m, paths))
             held == relay_messages[m] \cup Inside(m, paths)
         IN \/ /\ overlay_round[m] # PhaseLength
               /\ Goes(m, floods)
               /\ relay_messages' = [relay_messages EXCEPT ![m] = held]
               /\ UNCHANGED <<protocol_phase, gather_start_round>>
            \/ /\ protocol_phase[m] = "SCATTER" /\ overlay_round[m] = PhaseLength
               /\ Goes(m, held)
               /\ relay_messages' = [relay_messages EXCEPT ![m] = {}]
               /\ protocol_phase' = [protocol_phase EXCEPT ![m] = "GATHER"]
               /\ gather_start_round' = [gather_start_round EXCEPT ![m] = PhaseLength]
            \/ /\ protocol_phase[m] = "GATHER" /\ Done(m)
               /\ relay_messages' = [relay_messages EXCEPT ![m] = held]
               /\ protocol_phase' = [protocol_phase EXCEPT ![m] = "AGGREGATE"]
               /\ UNCHANGED gather_start_round
<1> DEFINE floods == current_flood_messages[m] \cup (paths \ Mine(m, paths))
           held == relay_messages[m] \cup Inside(m, paths)
<1>1. PhaseLength \in Nat \ {0} /\ protocol_phase[m] \in Phase /\ m \in Meter
  BY PhaseLengthPositive, RoundInRange DEF RoundEnds
<1>2. /\ protocol_phase \in [Meter -> {"IDLE", "SCATTER", "GATHER", "AGGREGATE"}]
      /\ overlay_round[m] \in Int
      /\ protocol_phase[m] = "SCATTER" => overlay_round[m] \in 0..PhaseLength
      /\ protocol_phase[m] = "GATHER" =>
           /\ overlay_round[m] \in (PhaseLength + 1)..(2 * PhaseLength)
           /\ gather_start_round[m] = PhaseLength
  BY DEF FloodInv, Phases
<1>3. end_overlay_round(m, floods, held) /\ Fixed
  BY DEF RoundEnds
<1> HIDE DEF floods, held
<1>4. CASE /\ ~ scatter_over(m) /\ ~ gather_over(m)
           /\ relay_messages' = [relay_messages EXCEPT ![m] = held]
           /\ Flood(m, floods)
           /\ UNCHANGED <<protocol_phase, gather_start_round>>
  <2>1. overlay_round[m] # PhaseLength /\ overlay_round[m] < 2 * PhaseLength
    BY <1>1, <1>2, <1>4 DEF scatter_over, gather_over, Phase
  <2>2. Goes(m, floods)
    BY <1>1, <1>3, <1>4, <2>1 DEF Goes, Stays, Phase
  <2> QED
    BY <1>4, <2>1, <2>2 DEF floods, held
<1>5. CASE /\ scatter_over(m)
           /\ relay_messages' = [relay_messages EXCEPT ![m] = {}]
           /\ Flood(m, held)
           /\ gather_start_round' = [gather_start_round EXCEPT ![m] = overlay_round[m]]
           /\ protocol_phase' = [protocol_phase EXCEPT ![m] = "GATHER"]
  <2>1. protocol_phase[m] = "SCATTER" /\ overlay_round[m] = PhaseLength
    BY <1>1, <1>2, <1>5 DEF scatter_over
  <2>2. Goes(m, held)
    BY <1>1, <1>2, <1>3, <1>5, <2>1 DEF Goes, Stays
  <2> QED
    BY <1>5, <2>1, <2>2 DEF floods, held
<1>6. CASE /\ gather_over(m)
           /\ relay_messages' = [relay_messages EXCEPT ![m] = held]
           /\ current_flood_messages' = [current_flood_messages EXCEPT ![m] = {}]
           /\ protocol_phase' = [protocol_phase EXCEPT ![m] = "AGGREGATE"]
           /\ net' = Unhandled(m)
           /\ UNCHANGED <<overlay_round, gather_start_round>>
  <2>1. protocol_phase[m] = "GATHER" /\ overlay_round[m] = 2 * PhaseLength
    BY <1>1, <1>2, <1>6 DEF gather_over
  <2>2. Done(m)
    BY <1>1, <1>2, <1>3, <1>6, <2>1 DEF Done, Stays
  <2> QED
    BY <1>6, <2>1, <2>2 DEF floods, held
<1> QED
  BY <1>3, <1>4, <1>5, <1>6 DEF end_overlay_round

\* What `Flood` makes of rounds and batches.
LEMMA FloodEffect ==
  ASSUME FloodInv, NEW m \in Meter, NEW floods, Flood(m, floods)
  PROVE  LET round == overlay_round[m] + 1
             target == Target(m, round)
         IN /\ round \in Int
            /\ overlay_round'[m] = round
            /\ \A s \in Meter \ {m} : overlay_round'[s] = overlay_round[s]
            /\ current_flood_messages'[m] = {path \in floods : Head(path) # target}
            /\ \A s \in Meter \ {m} : current_flood_messages'[s] = current_flood_messages[s]
            /\ net' = Unhandled(m) \cup {[to |-> target, round |-> round, paths |-> floods]}
BY DEF FloodInv, Phases, Flood, NextRound, Undelivered

\* The end of a round takes no other batch out of flight.
LEMMA OthersStayInFlight ==
  ASSUME FloodInv, NEW m \in Meter, NEW paths, RoundEnds(m, paths)
  PROVE  Unhandled(m) \subseteq net'
<1>1. ASSUME NEW floods, Goes(m, floods) PROVE Unhandled(m) \subseteq net'
  <2>1. Flood(m, floods)
    BY <1>1 DEF Goes
  <2> QED
    BY <2>1, FloodEffect
<1>2. ASSUME Done(m) PROVE Unhandled(m) \subseteq net'
  BY <1>2 DEF Done
<1>3. (\E floods : Goes(m, floods)) \/ Done(m)
  BY RoundEndsHow
<1> QED
  BY <1>1, <1>2, <1>3

\* What never changes of the floods, and what does not while no meter crashes.
LEMMA SamePhases == \A phase : First(phase)' = First(phase) /\ Final(phase)' = Final(phase)
BY DEF First, Final, PhaseLength

LEMMA SameWays ==
  ASSUME Fixed
  PROVE  /\ \A g : Live(g)' = Live(g)
         /\ \A g, phase, live : WaysOf(g, phase, live)' = WaysOf(g, phase, live)
<1>1. ASSUME NEW g PROVE Live(g)' = Live(g)
  BY DEF Fixed, Live, Meter
<1>2. ASSUME NEW g, NEW phase, NEW live
      PROVE  WaysOf(g, phase, live)' = WaysOf(g, phase, live)
  <2>1. Source(g, phase)' = Source(g, phase)
    BY DEF Fixed, Source
  <2>2. Ways(Source(g, phase), First(phase), Final(phase), live)'
          = Ways(Source(g, phase)', First(phase)', Final(phase)', live)
    BY DEF Ways, Target, Hop
  <2> QED
    BY <2>1, <2>2, SamePhases DEF WaysOf
<1> QED
  BY <1>1, <1>2

\* So it is enough to look at the floods one by one.
LEMMA FloodsOneByOne ==
  ASSUME Fixed,
         \A g \in DOMAIN proxies, phase \in Phase : \A live \in Live(g) :
           \A way \in WaysOf(g, phase, live), round \in First(phase)..Final(phase) :
             Carries(g, phase, live, way, round)'
  PROVE  FloodsCarried'
<1>1. (DOMAIN proxies)' = DOMAIN proxies
  BY DEF Fixed
<1> QED
  BY <1>1, SameWays, SamePhases DEF FloodsCarried

\* What is chosen for a flood.
LEMMA FloodTypes ==
  ASSUME FloodInv, NEW g \in DOMAIN proxies, NEW phase \in Phase
  PROVE  /\ Source(g, phase) \in Meter /\ Destination(g, phase) \in Meter
         /\ First(phase) \in 0..Final(phase) /\ Final(phase) \in Nat
         /\ Final(phase) <= 2 * PhaseLength
         /\ Head(Message(g, phase)) = Destination(g, phase)
         /\ \A round \in First(phase)..Final(phase) :
              /\ round \in 0..(2 * PhaseLength) /\ round \in 0..LastRound
              /\ phase = "SCATTER" <=> round <= PhaseLength
<1>1. PhaseLength \in Nat \ {0} /\ 2 * PhaseLength <= LastRound /\ LastRound \in Nat
  BY PhaseLengthPositive
<1>2. /\ meter_id \in Meter /\ relays[g] \in Meter /\ proxies[g] \in Meter
  BY DEF FloodInv, Contribution
<1>3. CASE phase = "SCATTER"
  BY <1>1, <1>2, <1>3 DEF Source, Destination, First, Final, Message
<1>4. CASE phase = "GATHER"
  BY <1>1, <1>2, <1>4 DEF Source, Destination, First, Final, Message
<1> QED
  BY <1>3, <1>4 DEF Phase

PastNow(m, round) == overlay_round'[m] > round \/ protocol_phase'[m] = "AGGREGATE"

\* What has landed stays, and what is pending lands when its batch is handled.
LEMMA GotStays ==
  ASSUME FloodInv, NEW m \in Meter, NEW paths, RoundEnds(m, paths),
         NEW g \in DOMAIN proxies, NEW phase \in Phase, NEW live \in Live(g),
         Got(g, phase, live)
  PROVE  Got(g, phase, live)'
<1> DEFINE held == relay_messages[m] \cup Inside(m, paths)
           t == Destination(g, phase)
           w == Message(g, phase)
<1>1. /\ t \in Meter /\ Head(w) = t /\ First(phase) \in Nat /\ Final(phase) \in Nat
      /\ Final(phase) <= 2 * PhaseLength
      /\ relays[g] \in Meter
  BY FloodTypes DEF FloodInv, Contribution
<1>2. /\ protocol_phase[m] \in Phase /\ overlay_round[m] \in 0..(2 * PhaseLength)
      /\ overlay_round[m] \in 0..LastRound
  BY RoundInRange DEF RoundEnds
<1>3. Destination(g, phase)' = t /\ Message(g, phase)' = w
      /\ First(phase)' = First(phase) /\ Final(phase)' = Final(phase)
      /\ \A s, round : Target(s, round)' = Target(s, round)
  BY DEF RoundEnds, Fixed, Destination, Message, First, Final, PhaseLength, Target, Hop
<1>4. /\ \A s \in Meter \ {m} : protocol_phase'[s] = protocol_phase[s]
      /\ \A s \in Meter \ {m} : relay_messages'[s] = relay_messages[s]
      /\ relay_messages'[m] = held \/ protocol_phase'[m] = "GATHER"
      /\ protocol_phase[m] = "SCATTER" => protocol_phase'[m] \in {"SCATTER", "GATHER"}
      /\ protocol_phase[m] = "GATHER" => protocol_phase'[m] \in {"GATHER", "AGGREGATE"}
      /\ relays' = relays /\ proxies' = proxies
  BY <1>2, RoundEndsHow DEF FloodInv, Phases, RoundEnds, Fixed, Phase
<1>5. proxy_values \subseteq proxy_values'
  BY DEF RoundEnds
<1>6. ASSUME Landed(g, phase) PROVE Landed(g, phase)'
  <2>1. CASE phase = "SCATTER"
    BY <1>1, <1>2, <1>4, <1>6, <2>1 DEF Landed, Phase
  <2>2. CASE phase = "GATHER"
    BY <1>4, <1>5, <1>6, <2>2 DEF Landed
  <2> QED
    BY <2>1, <2>2 DEF Phase
<1>7. ASSUME NEW b \in net, b.to = t, b.round \in First(phase)..Final(phase),
             ~ Past(t, b.round), w \in b.paths,
             NEW s \in live, Target(s, b.round) = b.to
      PROVE  Got(g, phase, live)'
  <2>1. s \in Meter \ crashed
    BY DEF Live
  <2>2. CASE t = m /\ b.round = overlay_round[m]
    <3>1. b.paths = paths
      BY <1>7, <2>1, <2>2 DEF RoundEnds, Heard
    <3>2. w \in Mine(m, paths)
      BY <1>1, <1>7, <2>2, <3>1 DEF Mine
    <3>3. protocol_phase[m] = phase
      <4>1. phase = "SCATTER" <=> overlay_round[m] <= PhaseLength
        BY <1>7, <2>2, FloodTypes
      <4> QED
        BY <1>2, <4>1, PhaseLengthPositive DEF FloodInv, Phases, Phase
    <3>4. CASE phase = "SCATTER"
      <4>1. w = <<relays[g], proxies[g]>> /\ relays[g] = m
        BY <2>2, <3>4 DEF Message, Destination
      <4>2. Tail(w) = <<proxies[g]>> /\ Len(w) > 1
        BY <4>1
      <4>3. <<proxies[g]>> \in Inside(m, paths)
        BY <3>2, <3>3, <3>4, <4>2 DEF Inside
      <4> QED
        BY <1>4, <3>4, <4>1, <4>3 DEF Got, Landed
    <3>5. CASE phase = "GATHER"
      <4>1. w = <<proxies[g]>> /\ proxies[g] = m
        BY <2>2, <3>5 DEF Message, Destination
      <4>2. Len(w) = 1
        BY <4>1
      <4>3. m \in proxy_values'
        BY <3>2, <3>3, <3>5, <4>2 DEF RoundEnds
      <4> QED
        BY <1>4, <3>5, <4>1, <4>3 DEF Got, Landed
    <3> QED
      BY <3>4, <3>5 DEF Phase
  <2>3. CASE ~ (t = m /\ b.round = overlay_round[m])
    <3>1. b \in net'
      <4>1. b \in Unhandled(m)
        BY <1>7, <2>3 DEF Unhandled
      <4> QED
        BY <4>1, OthersStayInFlight
    <3>2. ~ PastNow(t, b.round)
      <4>1. overlay_round[t] <= b.round /\ protocol_phase[t] # "AGGREGATE"
            /\ overlay_round[t] \in Int /\ b.round \in Int
        BY <1>1, <1>7 DEF Past, FloodInv, Phases
      <4>2. CASE t # m
        <5>1. t \in Meter \ {m}
          BY <1>1, <4>2
        <5>2. overlay_round'[t] = overlay_round[t]
          BY <5>1, RoundEndsHow, FloodEffect DEF Goes, Done
        <5> QED
          BY <1>4, <4>1, <5>1, <5>2 DEF PastNow
      <4>3. CASE t = m
        <5>1. overlay_round[m] < b.round /\ b.round <= 2 * PhaseLength
          BY <1>1, <1>7, <2>3, <4>1, <4>3, PhaseLengthPositive
        <5>2. ~ Done(m)
          BY <4>1, <5>1, PhaseLengthPositive DEF Done
        <5>3. overlay_round'[m] = overlay_round[m] + 1 /\ protocol_phase'[m] # "AGGREGATE"
          BY <5>2, RoundEndsHow, FloodEffect DEF Goes
        <5> QED
          BY <4>1, <4>3, <5>1, <5>3 DEF PastNow
      <4> QED
        BY <4>2, <4>3
    <3>3. Pending(g, phase, live)'
      BY <1>3, <1>7, <3>1, <3>2 DEF Pending, Past, PastNow
    <3> QED
      BY <3>3 DEF Got
  <2> QED
    BY <2>2, <2>3
<1> QED
  BY <1>6, <1>7 DEF Got, Pending

\* m has what it must flood in its next round.
Ready(m, floods) ==
  LET now == overlay_round[m] + 1
  IN \A g \in DOMAIN proxies, phase \in Phase : \A live \in Live(g) :
       \A way \in WaysOf(g, phase, live) : \A round \in First(phase)..now :
         now <= Final(phase) /\ way[round] = m
           => Message(g, phase) \in floods \/ Got(g, phase, live)

\* What is got stays so in the step.
Kept ==
  \A g \in DOMAIN proxies, phase \in Phase : \A live \in Live(g) :
    Got(g, phase, live) => Got(g, phase, live)'

\* Then all floods are carried on into that round.
LEMMA GoesFloods ==
  ASSUME FloodInv, Phases', NEW m \in Meter, m \notin crashed, NEW floods,
         Goes(m, floods), Ready(m, floods), Kept
  PROVE  FloodsCarried'
<1> DEFINE now == overlay_round[m] + 1
           new == [to |-> Target(m, now), round |-> now, paths |-> floods]
<1>1. /\ now \in Int /\ overlay_round'[m] = now
      /\ \A s \in Meter \ {m} : overlay_round'[s] = overlay_round[s]
      /\ current_flood_messages'[m] = {path \in floods : Head(path) # Target(m, now)}
      /\ \A s \in Meter \ {m} : current_flood_messages'[s] = current_flood_messages[s]
      /\ net' = Unhandled(m) \cup {new}
  BY FloodEffect DEF Goes
<1>2. /\ Fixed /\ \A s \in Meter \ {m} : protocol_phase'[s] = protocol_phase[s]
      /\ protocol_phase[m] # "AGGREGATE" /\ protocol_phase'[m] # "AGGREGATE"
  BY DEF Goes, Stays
<1>3. new.to = Target(m, now) /\ new.round = now /\ new.paths = floods
  OBVIOUS
<1> HIDE DEF new
<1>4. SUFFICES ASSUME NEW g \in DOMAIN proxies, NEW phase \in Phase, NEW live \in Live(g),
                      NEW way \in WaysOf(g, phase, live),
                      NEW round \in First(phase)..Final(phase)
               PROVE  Carries(g, phase, live, way, round)'
  BY <1>2, FloodsOneByOne
<1> DEFINE x == way[round]
           u == Target(x, round)
           t == Destination(g, phase)
           w == Message(g, phase)
<1>5. /\ t \in Meter /\ Head(w) = t /\ First(phase) \in Nat /\ Final(phase) \in Nat
      /\ round \in 0..(2 * PhaseLength) /\ round \in 0..LastRound
  BY FloodTypes
<1>6. t' = t /\ w' = w /\ u' = u /\ First(phase)' = First(phase) /\ Final(phase)' = Final(phase)
      /\ \A s, r : Target(s, r)' = Target(s, r)
  BY <1>2 DEF Fixed, Destination, Message, First, Final, PhaseLength, Target, Hop
<1>7. x \in live /\ x \in Meter \ crashed
  BY DEF WaysOf, Ways, Live
<1>8. u \in Meter
  BY <1>5, <1>7, TargetInverse
<1>9. Carries(g, phase, live, way, round)
  BY DEF FloodInv, FloodsCarried
<1>10. Got(g, phase, live) => Got(g, phase, live)'
  BY DEF Kept
<1>11. \A s \in Meter : overlay_round[s] \in Int /\ overlay_round'[s] \in Int
  BY DEF FloodInv, Phases
\* Sent to the destination, it is got.
<1>12. ASSUME x = m, round = now, u = t, w \in floods PROVE Got(g, phase, live)'
  <2>1. new \in net' /\ new.to = t /\ new.round = round /\ w \in new.paths
    BY <1>1, <1>3, <1>12
  <2>2. ~ Past(t, round)
    BY <1>1, <1>5, <1>7, <1>11, <1>12 DEF FloodInv, InOrder
  <2>3. ~ PastNow(t, round)
    <3>1. CASE t = m
      BY <1>1, <1>2, <1>11, <1>12, <3>1 DEF Past, PastNow
    <3>2. CASE t # m
      BY <1>1, <1>2, <1>5, <2>2, <3>2 DEF Past, PastNow
    <3> QED
      BY <3>1, <3>2
  <2> QED
    BY <1>6, <1>7, <1>12, <2>1, <2>3 DEF Got, Pending, Past, PastNow
<1>13. ASSUME x = m, round = now PROVE w \in floods \/ Got(g, phase, live)
  <2>1. round \in First(phase)..now /\ now <= Final(phase)
    BY <1>5, <1>13
  <2> QED
    BY <1>13, <2>1 DEF Ready
<1>14. ASSUME overlay_round'[x] >= round PROVE (x = m /\ round = now) \/ overlay_round[x] >= round
  BY <1>1, <1>5, <1>7, <1>11, <1>14
<1>15. ASSUME overlay_round'[x] >= round, protocol_phase'[x] = phase
       PROVE  w \in current_flood_messages'[x] \/ Got(g, phase, live)'
  <2>1. CASE x # m
    <3>1. overlay_round[x] >= round /\ protocol_phase[x] = phase
          /\ current_flood_messages'[x] = current_flood_messages[x]
      BY <1>1, <1>2, <1>7, <1>15, <2>1
    <3> QED
      BY <1>9, <1>10, <3>1 DEF Carries
  <2>2. CASE x = m
    <3>1. now <= Final(phase) /\ round \in First(phase)..now
      <4>1. now <= Final(phase)
        BY <1>1, <1>15, <2>2, PhaseLengthPositive DEF Phases, Final, Phase
      <4> QED
        BY <1>1, <1>5, <1>15, <2>2, <4>1
    <3>2. w \in floods \/ Got(g, phase, live)
      BY <2>2, <3>1 DEF Ready
    <3>3. CASE w \in floods /\ Head(w) # Target(m, now)
      BY <1>1, <2>2, <3>3
    <3>4. CASE w \in floods /\ Head(w) = Target(m, now)
      <4>1. Pending(g, phase, live)'
        <5>1. new \in net' /\ new.to = t /\ new.round = now /\ w \in new.paths
          BY <1>1, <1>3, <1>5, <3>4
        <5>2. now \in First(phase)..Final(phase) /\ now \in 0..(2 * PhaseLength)
          <6>1. now \in First(phase)..Final(phase)
            BY <1>1, <1>5, <3>1
          <6> QED
            BY <6>1, FloodTypes
        <5>3. ~ Past(t, now)
          BY <1>1, <1>5, <1>11, <3>4, <5>2 DEF FloodInv, InOrder
        <5>4. ~ PastNow(t, now)
          <6>1. CASE t = m
            BY <1>1, <1>2, <6>1 DEF Past, PastNow
          <6>2. CASE t # m
            BY <1>1, <1>2, <1>5, <5>3, <6>2 DEF Past, PastNow
          <6> QED
            BY <6>1, <6>2
        <5> QED
          BY <1>5, <1>6, <1>7, <2>2, <3>4, <5>1, <5>2, <5>4 DEF Pending, Past, PastNow
      <4> QED
        BY <4>1 DEF Got
    <3> QED
      BY <1>10, <3>2, <3>3, <3>4
  <2> QED
    BY <2>1, <2>2
<1>16. ASSUME overlay_round'[x] >= round, ~ Past(u, round)'
       PROVE  \/ \E b \in net' : b.to = u /\ b.round = round /\ w \in b.paths
              \/ Got(g, phase, live)'
  <2>1. CASE x = m /\ round = now
    BY <1>1, <1>3, <1>10, <1>13, <2>1
  <2>2. CASE overlay_round[x] >= round
    <3>1. ~ Past(u, round) /\ ~ (u = m /\ round = overlay_round[m])
      BY <1>1, <1>2, <1>8, <1>11, <1>16 DEF Past
    <3>2. ASSUME NEW b \in net, b.to = u, b.round = round PROVE b \in net'
      BY <1>1, <3>1, <3>2 DEF Unhandled
    <3> QED
      BY <1>9, <1>10, <2>2, <3>1, <3>2 DEF Carries
  <2> QED
    BY <1>14, <1>16, <2>1, <2>2
<1>17. ASSUME overlay_round'[x] >= round, u = t PROVE Got(g, phase, live)'
  BY <1>9, <1>10, <1>12, <1>13, <1>14, <1>17 DEF Carries
<1> QED
  BY <1>6, <1>15, <1>16, <1>17 DEF Carries, Past

\* The end of the last round disturbs no flood.
LEMMA DoneFloods ==
  ASSUME FloodInv, NEW m \in Meter, m \notin crashed, Done(m), Kept
  PROVE  FloodsCarried'
<1>1. /\ Fixed /\ \A s \in Meter \ {m} : protocol_phase'[s] = protocol_phase[s]
      /\ protocol_phase'[m] = "AGGREGATE"
      /\ net' = Unhandled(m) /\ overlay_round' = overlay_round
      /\ \A s \in Meter \ {m} : current_flood_messages'[s] = current_flood_messages[s]
  BY DEF Done, Stays, FloodInv, Phases
<1>2. SUFFICES ASSUME NEW g \in DOMAIN proxies, NEW phase \in Phase, NEW live \in Live(g),
                      NEW way \in WaysOf(g, phase, live),
                      NEW round \in First(phase)..Final(phase)
               PROVE  Carries(g, phase, live, way, round)'
  BY <1>1, FloodsOneByOne
<1> DEFINE x == way[round]
           u == Target(x, round)
           w == Message(g, phase)
<1>3. x \in live /\ x \in Meter
  BY DEF WaysOf, Ways, Live
<1>4. u \in Meter
  BY <1>3, FloodTypes, TargetInverse
<1>5. Carries(g, phase, live, way, round)
  BY DEF FloodInv, FloodsCarried
<1>6. Got(g, phase, live) => Got(g, phase, live)'
  BY DEF Kept
<1>7. w' = w /\ Destination(g, phase)' = Destination(g, phase)
  BY <1>1 DEF Fixed, Message, Destination
<1>8. ASSUME overlay_round[x] >= round, protocol_phase'[x] = phase
      PROVE  w \in current_flood_messages'[x] \/ Got(g, phase, live)'
  <2>1. x # m
    BY <1>1, <1>8 DEF Phase
  <2> QED
    BY <1>1, <1>3, <1>5, <1>6, <1>8, <2>1 DEF Carries
<1>9. ASSUME overlay_round[x] >= round, ~ Past(u, round)'
      PROVE  \/ \E b \in net' : b.to = u /\ b.round = round /\ w \in b.paths
             \/ Got(g, phase, live)'
  <2>1. u # m /\ ~ Past(u, round)
    BY <1>1, <1>4, <1>9 DEF Past
  <2>2. ASSUME NEW b \in net, b.to = u PROVE b \in net'
    BY <1>1, <2>1, <2>2 DEF Unhandled
  <2> QED
    BY <1>5, <1>6, <1>9, <2>1, <2>2 DEF Carries
<1>10. ASSUME overlay_round[x] >= round, u = Destination(g, phase) PROVE Got(g, phase, live)'
  BY <1>5, <1>6, <1>10 DEF Carries
<1> QED
  BY <1>1, <1>7, <1>8, <1>9, <1>10 DEF Carries, Past

\* What was heard, or floods already, is ready for the next round.
LEMMA GoesOnReady ==
  ASSUME FloodInv, NEW m \in Meter, NEW paths, RoundEnds(m, paths),
         overlay_round[m] # PhaseLength
  PROVE  Ready(m, current_flood_messages[m] \cup (paths \ Mine(m, paths)))
<1> DEFINE now == overlay_round[m] + 1
           floods == current_flood_messages[m] \cup (paths \ Mine(m, paths))
<1>1. SUFFICES ASSUME NEW g \in DOMAIN proxies, NEW phase \in Phase, NEW live \in Live(g),
                      NEW way \in WaysOf(g, phase, live), NEW round \in First(phase)..now,
                      now <= Final(phase), way[round] = m
               PROVE  Message(g, phase) \in floods \/ Got(g, phase, live)
  BY DEF Ready
<1> DEFINE w == Message(g, phase)
<1>2. /\ overlay_round[m] \in 0..(2 * PhaseLength) /\ overlay_round[m] \in 0..LastRound
      /\ protocol_phase[m] \in Phase
  BY RoundInRange DEF RoundEnds
<1>3. PhaseLength \in Nat \ {0} /\ First(phase) \in Nat /\ Final(phase) \in Nat
  BY PhaseLengthPositive, FloodTypes
<1>4. overlay_round[m] \in First(phase)..Final(phase) /\ protocol_phase[m] = phase
  <2>1. overlay_round[m] \in First(phase)..Final(phase)
    BY <1>1, <1>2, <1>3 DEF First, Final, Phase
  <2>2. phase = "SCATTER" <=> overlay_round[m] <= PhaseLength
    BY <2>1, FloodTypes
  <2> QED
    BY <1>2, <1>3, <2>1, <2>2 DEF FloodInv, Phases, Phase
<1>5. ASSUME NEW r \in First(phase)..overlay_round[m], way[r] = m
      PROVE  w \in floods \/ Got(g, phase, live)
  <2>1. r \in First(phase)..Final(phase)
    BY <1>2, <1>3, <1>4
  <2>2. Carries(g, phase, live, way, r)
    BY <2>1 DEF FloodInv, FloodsCarried
  <2> QED
    BY <1>2, <1>3, <1>4, <1>5, <2>2 DEF Carries
<1>6. CASE round # now
  <2>1. round \in First(phase)..overlay_round[m]
    BY <1>1, <1>2, <1>3, <1>6
  <2> QED
    BY <1>1, <1>5, <2>1
<1>7. CASE round = now
  <2> DEFINE r == overlay_round[m]
             x == way[r]
  <2>1. way[now] \in {x, Target(x, r)}
    <3>1. r \in First(phase)..(Final(phase) - 1) /\ now = r + 1
      BY <1>1, <1>2, <1>3, <1>4
    <3> QED
      BY <3>1 DEF WaysOf, Ways
  <2>2. CASE x = m
    BY <1>2, <1>3, <1>4, <1>5, <2>2
  <2>3. CASE Target(x, r) = m
    <3>1. x \in live /\ x \in Meter \ crashed
      BY <1>4 DEF WaysOf, Ways, Live
    <3>2. overlay_round[x] >= r /\ \A b \in net : b.to = m /\ b.round = r => b.paths = paths
      BY <2>3, <3>1 DEF RoundEnds, Heard
    <3>3. Carries(g, phase, live, way, r)
      BY <1>4 DEF FloodInv, FloodsCarried
    <3>4. ~ Past(m, r)
      BY <1>2 DEF Past, Phase
    <3>5. w \in paths \/ Got(g, phase, live)
      BY <2>3, <3>2, <3>3, <3>4 DEF Carries
    <3>6. CASE w \in Mine(m, paths)
      <4>1. m = Destination(g, phase)
        BY <3>6, FloodTypes DEF Mine
      <4> QED
        BY <2>3, <3>2, <3>3, <4>1 DEF Carries
    <3> QED
      BY <3>5, <3>6
  <2> QED
    BY <1>1, <1>7, <2>1, <2>2, <2>3
<1> QED
  BY <1>6, <1>7

\* When Scatter is over, what was flooded to a relay is what it floods.
LEMMA GatherReady ==
  ASSUME FloodsReach, FloodInv, NEW m \in Meter, NEW paths, RoundEnds(m, paths),
         overlay_round[m] = PhaseLength, protocol_phase[m] = "SCATTER"
  PROVE  Ready(m, relay_messages[m] \cup Inside(m, paths))
<1> DEFINE now == overlay_round[m] + 1
           held == relay_messages[m] \cup Inside(m, paths)
<1>1. SUFFICES ASSUME NEW g \in DOMAIN proxies, NEW phase \in Phase, NEW live \in Live(g),
                      NEW way \in WaysOf(g, phase, live), NEW round \in First(phase)..now,
                      now <= Final(phase), way[round] = m
               PROVE  Message(g, phase) \in held
  BY DEF Ready
<1>2. PhaseLength \in Nat \ {0} /\ PhaseLength \in 0..LastRound
  BY PhaseLengthPositive
<1>3. phase = "GATHER" /\ round = First(phase)
  BY <1>1, <1>2 DEF First, Final, Phase
<1>4. relays[g] = m /\ meter_id # m /\ meter_id \in live /\ m \in live
  <2>1. way[First(phase)] = relays[g]
    BY <1>3 DEF WaysOf, Ways, Source
  <2>2. relays[g] \in Meter \ {meter_id}
    BY DEF FloodInv, Contribution
  <2> QED
    BY <1>1, <1>3, <2>1, <2>2 DEF Live
<1>5. FloodReaches(meter_id, m, 0, PhaseLength, live)
  <2>1. live \in SUBSET Meter /\ Cardinality(Meter \ live) <= FAILURES_TOLERATED
    BY DEF Live
  <2> QED
    BY <1>4, <2>1 DEF FloodsReach
<1>6. PICK out \in WaysOf(g, "SCATTER", live), last \in 0..PhaseLength : Target(out[last], last) = m
  BY <1>5 DEF FloodReaches, WaysOf, Source, First, Final
<1>7. out[last] \in live /\ out[last] \in Meter \ crashed
  BY <1>6 DEF WaysOf, Ways, Live, First, Final
<1>8. overlay_round[out[last]] >= last
  <2>1. CASE last = PhaseLength
    BY <1>6, <1>7, <2>1 DEF RoundEnds, Heard
  <2>2. CASE last # PhaseLength
    <3>1. Past(m, last) /\ last \in 0..(2 * PhaseLength)
      BY <1>2, <2>2 DEF Past
    <3> QED
      BY <1>6, <1>7, <3>1 DEF FloodInv, InOrder
  <2> QED
    BY <2>1, <2>2
<1>9. Got(g, "SCATTER", live)
  <2>1. Carries(g, "SCATTER", live, out, last)
    BY <1>6 DEF FloodInv, FloodsCarried, Phase, First, Final
  <2> QED
    BY <1>4, <1>6, <1>8, <2>1 DEF Carries, Destination
<1>10. Message(g, phase) = <<proxies[g]>>
  BY <1>3 DEF Message
<1>11. CASE Landed(g, "SCATTER")
  BY <1>4, <1>10, <1>11 DEF Landed
<1>12. CASE Pending(g, "SCATTER", live)
  <2>1. PICK b \in net :
          /\ b.to = m /\ b.round \in 0..PhaseLength /\ ~ Past(m, b.round)
          /\ <<m, proxies[g]>> \in b.paths
          /\ \E s \in live : Target(s, b.round) = m
    BY <1>4, <1>12 DEF Pending, Destination, Message, First, Final
  <2>2. b.round = overlay_round[m]
    BY <1>2, <2>1 DEF Past
  <2>3. b.paths = paths
    BY <2>1, <2>2 DEF RoundEnds, Heard, Live
  <2> DEFINE w == <<m, proxies[g]>>
  <2>4. Head(w) = m /\ Len(w) > 1 /\ Tail(w) = <<proxies[g]>>
    OBVIOUS
  <2>5. w \in Mine(m, paths)
    BY <2>1, <2>3, <2>4 DEF Mine
  <2>6. Tail(w) \in Inside(m, paths)
    BY <2>4, <2>5 DEF Inside
  <2> QED
    BY <1>10, <2>4, <2>6
<1> QED
  BY <1>9, <1>11, <1>12 DEF Got

\* A meter that goes on leaves no round before its predecessor has entered it.
LEMMA GoesRest ==
  ASSUME FloodInv, Phases', NEW m \in Meter, m \notin crashed, NEW floods, Goes(m, floods),
         \A s \in Meter \ crashed :
           Target(s, overlay_round[m]) = m => overlay_round[s] >= overlay_round[m]
  PROVE  Contribution' /\ Batches' /\ InOrder'
<1> DEFINE now == overlay_round[m] + 1
           new == [to |-> Target(m, now), round |-> now, paths |-> floods]
<1>1. /\ now \in Int /\ overlay_round'[m] = now
      /\ \A s \in Meter \ {m} : overlay_round'[s] = overlay_round[s]
      /\ net' = Unhandled(m) \cup {new}
  BY FloodEffect DEF Goes
<1>2. /\ Fixed /\ \A s \in Meter \ {m} : protocol_phase'[s] = protocol_phase[s]
      /\ protocol_phase'[m] # "AGGREGATE" /\ protocol_phase[m] # "AGGREGATE"
      /\ overlay_round[m] < 2 * PhaseLength
  BY DEF Goes, Stays
<1>3. PhaseLength \in Nat \ {0} /\ 2 * PhaseLength <= LastRound /\ LastRound \in Nat
  BY PhaseLengthPositive
<1>4. \A s \in Meter : /\ overlay_round[s] \in -1..(2 * PhaseLength)
                       /\ overlay_round'[s] \in Int /\ overlay_round[s] <= overlay_round'[s]
  BY <1>1 DEF FloodInv, Phases
<1>5. now \in 0..(2 * PhaseLength) /\ now \in 0..LastRound
  BY <1>2, <1>3, <1>4
<1>6. new.to = Target(m, now) /\ new.round = now
  OBVIOUS
<1> HIDE DEF new
<1>7. Unhandled(m) \subseteq net
  BY DEF Unhandled
<1>8. Contribution'
  BY <1>2 DEF Fixed, FloodInv, Contribution, num_aggregation_groups, Meter
<1>9. Batches'
  <2>1. \A b \in net' : b.round \in 0..(2 * PhaseLength)
    BY <1>1, <1>5, <1>6, <1>7 DEF FloodInv, Batches
  <2>2. ASSUME NEW b \in net'
        PROVE  \E s \in Meter : b.to = Target(s, b.round) /\ b.round <= overlay_round'[s]
    <3>1. CASE b = new
      BY <1>1, <1>6, <3>1
    <3>2. CASE b \in net
      <4>1. PICK s \in Meter : b.to = Target(s, b.round) /\ b.round <= overlay_round[s]
        BY <3>2 DEF FloodInv, Batches
      <4>2. b.round \in Int
        BY <3>2 DEF FloodInv, Batches
      <4> QED
        BY <1>4, <4>1, <4>2
    <3> QED
      BY <1>1, <1>7, <3>1, <3>2
  <2>3. ASSUME NEW b \in net, b.to = new.to, b.round = new.round PROVE FALSE
    <3>1. PICK s \in Meter : b.to = Target(s, b.round) /\ b.round <= overlay_round[s]
      BY DEF FloodInv, Batches
    <3>2. s = m
      BY <1>5, <1>6, <2>3, <3>1, OneSender
    <3> QED
      BY <1>4, <1>6, <2>3, <3>1, <3>2
  <2>4. \A b, c \in net' : b.to = c.to /\ b.round = c.round => b = c
    BY <1>1, <1>7, <2>3 DEF FloodInv, Batches
  <2> QED
    BY <2>1, <2>2, <2>4 DEF Batches, Target, Hop, PhaseLength
<1>10. InOrder'
  <2> SUFFICES ASSUME NEW s \in Meter \ crashed, NEW round \in 0..(2 * PhaseLength),
                      PastNow(Target(s, round), round)
               PROVE  overlay_round'[s] >= round
    BY <1>2 DEF Fixed, InOrder, PastNow, Past, Target, Hop, PhaseLength, Meter
  <2>1. Target(s, round) \in Meter
    BY <1>3, TargetInverse
  <2>2. CASE Past(Target(s, round), round)
    <3>1. overlay_round[s] >= round
      BY <2>2 DEF FloodInv, InOrder
    <3> QED
      BY <1>4, <3>1
  <2>3. CASE ~ Past(Target(s, round), round)
    <3>1. Target(s, round) = m /\ round = overlay_round[m]
      BY <1>1, <1>2, <1>4, <2>1, <2>3 DEF Past, PastNow
    <3>2. overlay_round[s] >= round
      BY <3>1
    <3> QED
      BY <1>4, <3>2
  <2> QED
    BY <2>2, <2>3
<1> QED
  BY <1>8, <1>9, <1>10

\* Nor does one that is done.
LEMMA DoneRest ==
  ASSUME FloodInv, NEW m \in Meter, m \notin crashed, Done(m),
         \A s \in Meter \ crashed :
           Target(s, overlay_round[m]) = m => overlay_round[s] >= overlay_round[m]
  PROVE  Contribution' /\ Batches' /\ InOrder'
<1>1. /\ Fixed /\ \A s \in Meter \ {m} : protocol_phase'[s] = protocol_phase[s]
      /\ protocol_phase'[m] = "AGGREGATE"
      /\ overlay_round[m] = 2 * PhaseLength
      /\ net' = Unhandled(m) /\ overlay_round' = overlay_round
  BY DEF Done, Stays
<1>2. PhaseLength \in Nat \ {0} /\ 2 * PhaseLength <= LastRound /\ LastRound \in Nat
  BY PhaseLengthPositive
<1>3. Contribution'
  BY <1>1 DEF Fixed, FloodInv, Contribution, num_aggregation_groups, Meter
<1>4. Batches'
  BY <1>1 DEF FloodInv, Batches, Unhandled, Target, Hop, PhaseLength
<1>5. InOrder'
  <2> SUFFICES ASSUME NEW s \in Meter \ crashed, NEW round \in 0..(2 * PhaseLength),
                      PastNow(Target(s, round), round)
               PROVE  overlay_round[s] >= round
    BY <1>1 DEF Fixed, InOrder, PastNow, Past, Target, Hop, PhaseLength, Meter
  <2>1. Target(s, round) \in Meter
    BY <1>2, TargetInverse
  <2>2. CASE Past(Target(s, round), round)
    BY <2>2 DEF FloodInv, InOrder
  <2>3. CASE ~ Past(Target(s, round), round)
    <3>1. Target(s, round) = m /\ round = overlay_round[m]
      BY <1>1, <1>2, <2>1, <2>3 DEF Past, PastNow
    <3> QED
      BY <3>1
  <2> QED
    BY <2>2, <2>3
<1> QED
  BY <1>3, <1>4, <1>5

\* The end of a round keeps the invariant, whether the phase goes on, Gather
\* starts or Gather is over.
LEMMA RoundEndsFloodInv ==
  ASSUME FloodsReach, FloodInv, NEW m \in Meter, NEW paths, RoundEnds(m, paths)
  PROVE  FloodInv'
<1> DEFINE floods == current_flood_messages[m] \cup (paths \ Mine(m, paths))
           held == relay_messages[m] \cup Inside(m, paths)
<1>1. Kept
  BY GotStays DEF Kept
<1>2. /\ m \notin crashed /\ Fixed
      /\ \A s \in Meter \ crashed :
           Target(s, overlay_round[m]) = m => overlay_round[s] >= overlay_round[m]
  BY DEF RoundEnds, Heard
<1>3. /\ overlay_round[m] \in 0..(2 * PhaseLength) /\ protocol_phase[m] \in Phase
      /\ PhaseLength \in Nat \ {0}
  BY RoundInRange, PhaseLengthPositive DEF RoundEnds
<1>4. CASE /\ overlay_round[m] # PhaseLength
           /\ Goes(m, floods)
           /\ relay_messages' = [relay_messages EXCEPT ![m] = held]
           /\ UNCHANGED <<protocol_phase, gather_start_round>>
  <2>1. Phases'
    BY <1>2, <1>3, <1>4
      DEF Goes, Flood, NextRound, Fixed, FloodInv, Phases, PhaseLength, Meter, Phase
  <2>2. Contribution' /\ Batches' /\ InOrder'
    BY <1>2, <1>4, <2>1, GoesRest
  <2>3. Ready(m, floods)
    BY <1>4, GoesOnReady
  <2>4. FloodsCarried'
    BY <1>1, <1>2, <1>4, <2>1, <2>3, GoesFloods
  <2> QED
    BY <2>1, <2>2, <2>4 DEF FloodInv
<1>5. CASE /\ protocol_phase[m] = "SCATTER" /\ overlay_round[m] = PhaseLength
           /\ Goes(m, held)
           /\ relay_messages' = [relay_messages EXCEPT ![m] = {}]
           /\ protocol_phase' = [protocol_phase EXCEPT ![m] = "GATHER"]
           /\ gather_start_round' = [gather_start_round EXCEPT ![m] = PhaseLength]
  <2>1. Phases'
    BY <1>2, <1>3, <1>5
      DEF Goes, Flood, NextRound, Fixed, FloodInv, Phases, PhaseLength, Meter, Phase
  <2>2. Contribution' /\ Batches' /\ InOrder'
    BY <1>2, <1>5, <2>1, GoesRest
  <2>3. Ready(m, held)
    BY <1>5, GatherReady
  <2>4. FloodsCarried'
    BY <1>1, <1>2, <1>5, <2>1, <2>3, GoesFloods
  <2> QED
    BY <2>1, <2>2, <2>4 DEF FloodInv
<1>6. CASE /\ protocol_phase[m] = "GATHER" /\ Done(m)
           /\ relay_messages' = [relay_messages EXCEPT ![m] = held]
           /\ protocol_phase' = [protocol_phase EXCEPT ![m] = "AGGREGATE"]
           /\ UNCHANGED gather_start_round
  <2>1. Phases'
    BY <1>2, <1>3, <1>6 DEF Done, Fixed, FloodInv, Phases, PhaseLength, Meter, Phase
  <2>2. Contribution' /\ Batches' /\ InOrder'
    BY <1>2, <1>6, DoneRest
  <2>3. FloodsCarried'
    BY <1>1, <1>2, <1>6, DoneFloods
  <2> QED
    BY <2>1, <2>2, <2>3 DEF FloodInv
<1> QED
  BY <1>4, <1>5, <1>6, RoundEndsHow

\* So does the start of a query, from which the value is flooded to all relays.
LEMMA StartFloodInv ==
  ASSUME FloodInv, NEW m \in Meter, start_query(m)
  PROVE  FloodInv'
<1> DEFINE all == IF m = meter_id THEN {<<relays[g], proxies[g]>> : g \in DOMAIN proxies} ELSE {}
<1>1. /\ protocol_phase[m] = "IDLE" /\ overlay_round[m] = -1 /\ m \notin crashed
      /\ protocol_phase' = [protocol_phase EXCEPT ![m] = "SCATTER"]
      /\ Flood(m, all) /\ Fixed
      /\ UNCHANGED <<gather_start_round, relay_messages, proxy_values>>
  BY DEF start_query, Starts, FloodInv, Phases, Fixed, contribution
<1>2. PhaseLength \in Nat \ {0}
  BY PhaseLengthPositive
<1>3. Goes(m, all)
  BY <1>1, <1>2 DEF Goes, Stays, FloodInv, Phases
<1>4. Phases'
  BY <1>1, <1>2 DEF Flood, NextRound, Fixed, FloodInv, Phases, PhaseLength, Meter
<1>5. ASSUME NEW s \in Meter, Target(s, overlay_round[m]) = m
      PROVE  overlay_round[s] >= overlay_round[m]
  BY <1>1, <1>2 DEF FloodInv, Phases
<1>6. Contribution' /\ Batches' /\ InOrder'
  BY <1>1, <1>3, <1>4, <1>5, GoesRest
<1>7. Ready(m, all)
  <2> SUFFICES ASSUME NEW g \in DOMAIN proxies, NEW phase \in Phase, NEW live \in Live(g),
                      NEW way \in WaysOf(g, phase, live),
                      NEW round \in First(phase)..(overlay_round[m] + 1), way[round] = m
               PROVE  Message(g, phase) \in all
    BY DEF Ready
  <2>1. phase = "SCATTER" /\ round = 0
    BY <1>1, <1>2 DEF First, Phase
  <2>2. m = meter_id
    BY <2>1 DEF WaysOf, Ways, Source, First
  <2> QED
    BY <2>1, <2>2 DEF Message
<1>8. Kept
  <2> SUFFICES ASSUME NEW g \in DOMAIN proxies, NEW phase \in Phase, NEW live \in Live(g),
                      Got(g, phase, live)
               PROVE  Got(g, phase, live)'
    BY DEF Kept
  <2>1. Landed(g, phase) => Landed(g, phase)'
    BY <1>1 DEF Landed, Fixed, FloodInv, Phases
  <2>2. ASSUME NEW b \in net, b.to = Destination(g, phase), ~ Past(b.to, b.round)
        PROVE  b \in net' /\ ~ PastNow(b.to, b.round)
    <3>1. b.round \in 0..(2 * PhaseLength) /\ b.to \in Meter
      BY <2>2, FloodTypes DEF FloodInv, Batches
    <3>2. b \in net'
      BY <1>1, <3>1, FloodEffect DEF Unhandled
    <3>3. overlay_round'[m] = 0
          /\ \A s \in Meter \ {m} : overlay_round'[s] = overlay_round[s]
      BY <1>1, FloodEffect
    <3> QED
      BY <1>1, <2>2, <3>1, <3>2, <3>3 DEF Past, PastNow, FloodInv, Phases
  <2>3. /\ Destination(g, phase)' = Destination(g, phase) /\ Message(g, phase)' = Message(g, phase)
        /\ First(phase)' = First(phase) /\ Final(phase)' = Final(phase)
    BY <1>1 DEF Fixed, Destination, Message, First, Final, PhaseLength
  <2>4. Pending(g, phase, live) => Pending(g, phase, live)'
    BY <2>2, <2>3 DEF Pending, Past, PastNow, Target, Hop
  <2> QED
    BY <2>1, <2>4 DEF Got
<1>9. FloodsCarried'
  BY <1>1, <1>3, <1>4, <1>7, <1>8, GoesFloods
<1> QED
  BY <1>4, <1>6, <1>9 DEF FloodInv

\* A crash leaves fewer to promise something of.
LEMMA CrashFloodInv ==
  ASSUME FloodInv, NEW m \in Meter, Crash(m)
  PROVE  FloodInv'
<1>1. /\ crashed' = crashed \cup {m}
      /\ UNCHANGED <<meter_id, proxies, relays, protocol_phase, overlay_round, proxy_values, net,
                     gather_start_round, current_flood_messages, relay_messages>>
  BY DEF Crash, Crashes, contribution
<1>2. Contribution' /\ Phases' /\ Batches' /\ InOrder'
  BY <1>1 DEF FloodInv, Contribution, Phases, Batches, InOrder, Past, Target, Hop, PhaseLength,
              Meter, num_aggregation_groups
<1>3. FloodsCarried'
  <2>1. \A g : Live(g)' \subseteq Live(g)
    BY <1>1 DEF Live, Meter
  <2>2. \A g, phase, live : WaysOf(g, phase, live)' = WaysOf(g, phase, live)
    BY <1>1 DEF WaysOf, Ways, Source, First, Final, PhaseLength, Target, Hop
  <2>3. \A g, phase, live, way, round :
          Carries(g, phase, live, way, round)' <=> Carries(g, phase, live, way, round)
    BY <1>1 DEF Carries, Got, Landed, Pending, Past, Message, Destination, First, Final,
                PhaseLength, Target, Hop
  <2>4. DOMAIN proxies' = DOMAIN proxies
        /\ \A phase : First(phase)' = First(phase) /\ Final(phase)' = Final(phase)
    BY <1>1 DEF First, Final, PhaseLength
  <2> QED
    BY <2>1, <2>2, <2>3, <2>4 DEF FloodInv, FloodsCarried
<1> QED
  BY <1>2, <1>3 DEF FloodInv

\* The invariant holds before the query.
LEMMA InitFloodInv == Init => FloodInv
<1> SUFFICES ASSUME Init PROVE FloodInv
  OBVIOUS
<1>1. PhaseLength \in Nat \ {0} /\ 2 * PhaseLength <= LastRound /\ LastRound \in Nat
  BY PhaseLengthPositive
<1>2. Contribution
  BY InitContribution
<1>3. Phases /\ Batches
  BY <1>1 DEF Init, InitRounds, Phases, Batches
<1>4. InOrder
  BY <1>1, TargetInverse DEF Init, InitRounds, InOrder, Past
<1>5. FloodsCarried
  <2> SUFFICES ASSUME NEW g \in DOMAIN proxies, NEW phase \in Phase, NEW live \in Live(g),
                      NEW way \in WaysOf(g, phase, live),
                      NEW round \in First(phase)..Final(phase)
               PROVE  ~ overlay_round[way[round]] >= round
    BY DEF FloodsCarried, Carries
  <2>1. way[round] \in Meter /\ round \in Nat
    BY <1>1 DEF WaysOf, Ways, Live, First, Final
  <2> QED
    BY <2>1 DEF Init, InitRounds
<1> QED
  BY <1>2, <1>3, <1>4, <1>5 DEF FloodInv

\* Every action keeps the invariant.
LEMMA StepFloodInv == FloodsReach /\ FloodInv /\ [Next]_vars => FloodInv'
<1> SUFFICES ASSUME FloodsReach, FloodInv, [Next]_vars PROVE FloodInv'
  OBVIOUS
<1>1. ASSUME NEW m \in Meter, start_query(m) PROVE FloodInv'
  BY <1>1, StartFloodInv
<1>2. ASSUME NEW m \in Meter, NEW b \in net, handle_overlay_message(m, b) PROVE FloodInv'
  BY <1>2, BatchHeard, RoundEndsFloodInv
<1>3. ASSUME NEW m \in Meter, Skip(m) PROVE FloodInv'
  BY <1>3, SkipHeard, RoundEndsFloodInv
<1>4. ASSUME NEW m \in Meter, Crash(m) PROVE FloodInv'
  BY <1>4, CrashFloodInv
<1>5. CASE UNCHANGED vars
  <2>1. UNCHANGED <<meter_id, proxies, relays, protocol_phase, overlay_round, proxy_values, net,
                    gather_start_round, current_flood_messages, relay_messages, crashed>>
    BY <1>5 DEF vars, contribution
  <2>2. Contribution' /\ Phases' /\ Batches' /\ InOrder'
    BY <2>1 DEF FloodInv, Contribution, Phases, Batches, InOrder, Past, Target, Hop, PhaseLength,
                Meter, num_aggregation_groups
  <2>3. \A g, phase, live, way, round :
          Carries(g, phase, live, way, round)' <=> Carries(g, phase, live, way, round)
    BY <2>1 DEF Carries, Got, Landed, Pending, Past, Message, Destination, First, Final,
                PhaseLength, Target, Hop
  <2>4. FloodsCarried'
    <3>1. FloodsCarried /\ Fixed
      BY <2>1 DEF FloodInv, Fixed
    <3> QED
      BY <2>3, <3>1, FloodsOneByOne DEF FloodsCarried
  <2> QED
    BY <2>2, <2>4 DEF FloodInv
<1> QED
  BY <1>1, <1>2, <1>3, <1>4, <1>5 DEF Next, Step

----------------------------------------------------------------------------
(* What is promised of the proxies. *)

\* A live proxy that is done has the value, if its meter and its relay live.
LEMMA ProxyGetsValue ==
  ASSUME FloodsReach, FloodInv, NEW g \in DOMAIN proxies,
         {meter_id, relays[g], proxies[g]} \cap crashed = {},
         Cardinality(crashed) <= FAILURES_TOLERATED,
         protocol_phase[proxies[g]] = "AGGREGATE"
  PROVE  proxies[g] \in proxy_values
<1> DEFINE live == Meter \ crashed
           p == proxies[g]
<1>1. meter_id \in Meter /\ relays[g] \in Meter /\ p \in Meter
  BY DEF FloodInv, Contribution
<1>2. Meter \ live = crashed
  BY DEF FloodInv, Phases
<1>3. live \in Live(g) /\ live \in SUBSET Meter /\ relays[g] \in live /\ p \in live
  BY <1>1, <1>2 DEF Live
<1> HIDE DEF live
<1>4. FloodReaches(relays[g], p, PhaseLength + 1, 2 * PhaseLength, live)
  BY <1>2, <1>3 DEF FloodsReach
<1>5. PICK way \in WaysOf(g, "GATHER", live), round \in (PhaseLength + 1)..(2 * PhaseLength) :
        Target(way[round], round) = p
  BY <1>4 DEF FloodReaches, WaysOf, Source, First, Final
<1>6. way[round] \in Meter \ crashed
  BY <1>3, <1>5 DEF WaysOf, Ways, First, Final, live
<1>7. overlay_round[way[round]] >= round
  <2>1. Past(p, round) /\ round \in 0..(2 * PhaseLength)
    BY <1>5, PhaseLengthPositive DEF Past
  <2> QED
    BY <1>5, <1>6, <2>1 DEF FloodInv, InOrder
<1>8. Carries(g, "GATHER", live, way, round)
  BY <1>3, <1>5 DEF FloodInv, FloodsCarried, Phase, First, Final
<1>9. Got(g, "GATHER", live)
  BY <1>5, <1>7, <1>8 DEF Carries, Destination
<1> QED
  BY <1>9 DEF Got, Landed, Pending, Past, Destination

\* The counted rounds are enough for both floods: without a crash, every proxy
\* that is done with Gather has the value (end_overlay_round_impl).
THEOREM CountedRoundsAreEnough == FloodsReach => (Spec => []FloodsArrive)
<1> SUFFICES ASSUME FloodsReach PROVE Spec => []FloodsArrive
  OBVIOUS
<1>1. FloodInv /\ [Next]_vars => FloodInv'
  BY StepFloodInv
<1>2. FloodInv => FloodsArrive
  <2> SUFFICES ASSUME FloodInv, crashed = {}, NEW p \in Range(proxies),
                      protocol_phase[p] = "AGGREGATE"
               PROVE  p \in proxy_values
    BY DEF FloodsArrive
  <2>1. PICK g \in DOMAIN proxies : p = proxies[g]
    BY DEF Range
  <2>2. Cardinality(crashed) <= FAILURES_TOLERATED
    BY FS_EmptySet, RoundsAssumption
  <2> QED
    BY <2>1, <2>2, ProxyGetsValue
<1> QED
  BY <1>1, <1>2, InitFloodInv, PTL DEF Spec

\* As many crashes as tolerated, in any rounds of the floods, keep a value from
\* a proxy only by stopping its meter, its relay or itself.
THEOREM LiveRelaysDeliver == FloodsReach => (Spec => []LiveRelayDelivers)
<1> SUFFICES ASSUME FloodsReach PROVE Spec => []LiveRelayDelivers
  OBVIOUS
<1>1. FloodInv /\ [Next]_vars => FloodInv'
  BY StepFloodInv
<1>2. FloodInv => LiveRelayDelivers
  <2> SUFFICES ASSUME FloodInv, Over, Cardinality(crashed) <= FAILURES_TOLERATED,
                      NEW g \in DOMAIN proxies,
                      {meter_id, relays[g], proxies[g]} \cap crashed = {}
               PROVE  proxies[g] \in proxy_values
    BY DEF LiveRelayDelivers
  <2>1. proxies[g] \in Meter \ crashed
    BY DEF FloodInv, Contribution
  <2> QED
    BY <2>1, ProxyGetsValue DEF Over
<1> QED
  BY <1>1, <1>2, InitFloodInv, PTL DEF Spec


=============================================================================
