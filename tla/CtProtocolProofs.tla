--------------------------- MODULE CtProtocolProofs ---------------------------
(***************************************************************************)
(* Theorems about CtProtocol, in overlays for which find_paths finds what  *)
(* RoutesFit says.                                                         *)
(***************************************************************************)
EXTENDS CtProtocol, OverlayProofs, TLAPS, FiniteSetTheorems, SequenceTheorems

\* A phase has rounds, and LastRound is the last round of Echo.
LEMMA PhaseLengthPositive ==
  /\ PhaseLength \in Nat \ {0}
  /\ LastRound = 2 * PhaseLength + 1
<1>1. log2n(num_meters) \in Nat \ {0}
  BY RoundsAssumption, Log2Positive
<1> QED
  BY <1>1, RoundsAssumption DEF PhaseLength, LastRound

\* gossip_predecessor inverts gossip_target, so that no two meters send to the
\* same one in a round.
LEMMA TargetInverse ==
  ASSUME NEW s \in Meter, NEW round \in 0..LastRound
  PROVE  /\ Target(s, round) \in Meter
         /\ mod_subtract(Target(s, round), Hop[round], num_meters) = s
<1>1. num_meters \in Nat \ {0, 1} /\ s \in 0..(num_meters - 1)
  BY RoundsAssumption DEF Meter
<1>2. round \in Nat
  BY PhaseLengthPositive
<1>3. Hop[round] \in 0..(num_meters - 1)
  BY <1>1, <1>2, NextPower DEF Hop
<1> QED
  BY <1>1, <1>3, OffsetInverse DEF Target, Meter

\* So a meter hears from one meter in a round.
LEMMA OneSender ==
  ASSUME NEW s \in Meter, NEW u \in Meter, NEW round \in 0..LastRound,
         Target(s, round) = Target(u, round)
  PROVE  s = u
<1>1. mod_subtract(Target(s, round), Hop[round], num_meters) = s
  BY TargetInverse
<1>2. mod_subtract(Target(u, round), Hop[round], num_meters) = u
  BY TargetInverse
<1> QED
  BY <1>1, <1>2

----------------------------------------------------------------------------
(* Journeys.  A leg is one hop of one message: hop `hop` of `path`, on      *)
(* which `source` sends the value from round `start` on.                    *)

Sources == {meter_id} \cup Range(proxies)
Start(source) == IF source = meter_id THEN 0 ELSE PhaseLength + 1
End(start) == IF start = 0 THEN PhaseLength ELSE 2 * PhaseLength

\* A hop that InTime promises, for every hop of the path.
Rounds(l) ==
  CHOOSE hops \in [1..Len(l.path) -> l.start..End(l.start)] : Hops(l.source, l.path, l.start, hops)

From(l) == IF l.hop = 1 THEN l.source ELSE l.path[l.hop - 1]
To(l) == l.path[l.hop]
At(l) == Rounds(l)[l.hop]
Since(l) == IF l.hop = 1 THEN l.start ELSE Rounds(l)[l.hop - 1] + 1

\* The message that makes the hop.
Rest(l) == SubSeq(l.path, l.hop, Len(l.path))

IsLast(l) == l.hop = Len(l.path)
OtherHop(l, hop) == [source |-> l.source, path |-> l.path, start |-> l.start, hop |-> hop]
NextLeg(l) == OtherHop(l, l.hop + 1)
LegBefore(l) == OtherHop(l, l.hop - 1)

Legs ==
  {l \in [source : Sources, path : Seq(Meter), start : Nat, hop : Nat] :
     /\ l.path \in routes[l.source]
     /\ l.start = Start(l.source)
     /\ l.hop \in 1..Len(l.path)}

\* What is chosen in Init and never changes.
Contribution ==
  /\ meter_id \in Meter
  /\ proxies \in Proxies(meter_id)
  /\ routes = [m \in Sources |-> Routes(m, proxies)]

\* Nobody is a proxy of its own value (random_int_exclude).
LEMMA ProxiesAreOthers ==
  Contribution => meter_id \notin Range(proxies) /\ Range(proxies) \subseteq Meter
<1> SUFFICES ASSUME Contribution PROVE meter_id \notin Range(proxies) /\ Range(proxies) \subseteq Meter
  OBVIOUS
<1>1. proxies \in [1..num_aggregation_groups -> Meter]
  BY DEF Contribution, Proxies
<1>2. ASSUME NEW g \in DOMAIN proxies PROVE proxies[g] # meter_id
  <2>1. /\ proxies[g] \in proxy_candidates(meter_id, g - 1, num_aggregation_groups, num_meters)
        /\ meter_id \in Int
    BY <1>2, RoundsAssumption DEF Contribution, Proxies, Meter
  <2> DEFINE begin == group_begin(g - 1, num_aggregation_groups, num_meters)
             end == begin + group_size_of(g - 1, num_aggregation_groups, num_meters) - 1
  <2>2. CASE meter_id \in begin..end
    <3>1. PICK choice \in begin..(end - 1) :
            proxies[g] = IF choice = meter_id THEN end ELSE choice
      BY <2>1, <2>2 DEF proxy_candidates, random_int_exclude
    <3> QED
      BY <2>1, <2>2, <3>1
  <2>3. CASE meter_id \notin begin..end
    BY <2>1, <2>3 DEF proxy_candidates
  <2> QED
    BY <2>2, <2>3
<1> QED
  BY <1>1, <1>2 DEF Range

\* All that the journeys of a value owe to find_paths.
LegOK(l) ==
  /\ From(l) \in Meter /\ To(l) \in Meter
  /\ Since(l) \in Nat /\ At(l) \in Since(l)..End(l.start)
  /\ \A round \in Since(l)..At(l) : Target(From(l), round) = To(l) <=> round = At(l)
  /\ Head(Rest(l)) = To(l)
  /\ Len(Rest(l)) = 1 <=> IsLast(l)
  /\ IsLast(l) => To(l) \in Range(proxies)
  /\ ~ IsLast(l) => NextLeg(l) \in Legs /\ Rest(NextLeg(l)) = Tail(Rest(l))
  /\ l.hop # 1 => LegBefore(l) \in Legs /\ ~ IsLast(LegBefore(l)) /\ NextLeg(LegBefore(l)) = l

\* Every leg belongs to a route that fits the phase it starts in.
LEMMA LegOfRoute ==
  ASSUME RoutesFit, Contribution, NEW l \in Legs
  PROVE  /\ InTime(l.source, l.path, proxies, l.start, End(l.start))
         /\ l.start \in {0, PhaseLength + 1}
<1>1. Range(proxies) \subseteq Meter /\ meter_id \notin Range(proxies)
  BY ProxiesAreOthers
<1>2. /\ l.source \in Sources /\ l.start = Start(l.source)
      /\ l.path \in Routes(l.source, proxies)
  BY DEF Legs, Contribution
<1>3. CASE l.source = meter_id
  BY <1>2, <1>3 DEF RoutesFit, Contribution, Start, End
<1>4. CASE l.source # meter_id
  <2>1. l.start # 0 /\ l.start = PhaseLength + 1 /\ l.source \in Range(proxies)
    BY <1>2, <1>4, PhaseLengthPositive DEF Start, Sources
  <2> QED
    BY <1>2, <2>1 DEF RoutesFit, Contribution, End
<1> QED
  BY <1>3, <1>4

\* Rounds(l) places the hops of a route so that each leg follows the one before.
LEMMA LegsOK == RoutesFit /\ Contribution => \A l \in Legs : LegOK(l)
<1> SUFFICES ASSUME RoutesFit, Contribution, NEW l \in Legs PROVE LegOK(l)
  OBVIOUS
<1>1. /\ InTime(l.source, l.path, proxies, l.start, End(l.start))
      /\ l.start \in {0, PhaseLength + 1}
  BY LegOfRoute
<1>2. /\ l.source \in Meter /\ l.path \in Seq(Meter) /\ l.start \in Nat
      /\ Len(l.path) \in Nat /\ l.hop \in 1..Len(l.path)
  BY ProxiesAreOthers DEF Legs, Sources, Contribution
<1> DEFINE hops == Rounds(l)
<1>3. /\ hops \in [1..Len(l.path) -> l.start..End(l.start)]
      /\ Hops(l.source, l.path, l.start, hops)
  BY <1>1 DEF InTime, Rounds
<1>4. \A hop : Rounds(OtherHop(l, hop)) = hops
  BY DEF Rounds, OtherHop
<1>5. End(l.start) \in Nat
  BY PhaseLengthPositive DEF End
<1> HIDE DEF hops
<1>6. From(l) \in Meter /\ To(l) \in Meter
  BY <1>2 DEF From, To
<1>7. Since(l) \in Nat /\ At(l) \in Since(l)..End(l.start)
  <2>1. Since(l) <= At(l)
    BY <1>2, <1>3 DEF Hops, Since, At, hops
  <2>2. At(l) \in l.start..End(l.start) /\ Since(l) \in Nat
    BY <1>2, <1>3, <1>5 DEF Since, At, hops
  <2> QED
    BY <1>2, <1>5, <2>1, <2>2
<1>8. \A round \in Since(l)..At(l) : Target(From(l), round) = To(l) <=> round = At(l)
  BY <1>2, <1>3 DEF Hops, Since, At, From, To, hops
<1>9. /\ Head(Rest(l)) = To(l)
      /\ Tail(Rest(l)) = SubSeq(l.path, l.hop + 1, Len(l.path))
  <2>1. Len(l.path) \in l.hop..Len(l.path)
    BY <1>2
  <2>2. /\ Head(SubSeq(l.path, l.hop, Len(l.path))) = l.path[l.hop]
        /\ Tail(SubSeq(l.path, l.hop, Len(l.path))) = SubSeq(l.path, l.hop + 1, Len(l.path))
    BY <1>2, <2>1, HeadTailOfSubSeq
  <2> QED
    BY <2>2 DEF Rest, To
<1>10. Len(Rest(l)) = 1 <=> IsLast(l)
  <2>1. Len(Rest(l)) = Len(l.path) - l.hop + 1
    BY <1>2, SubSeqProperties DEF Rest
  <2> QED
    BY <1>2, <2>1 DEF IsLast
<1>11. IsLast(l) => To(l) \in Range(proxies)
  BY <1>1 DEF InTime, Last, IsLast, To
<1>12. ASSUME ~ IsLast(l)
       PROVE  NextLeg(l) \in Legs /\ Rest(NextLeg(l)) = Tail(Rest(l))
  <2>1. l.hop + 1 \in 1..Len(l.path)
    BY <1>2, <1>12 DEF IsLast
  <2>2. NextLeg(l) \in Legs
    BY <1>2, <2>1 DEF NextLeg, OtherHop, Legs
  <2> QED
    BY <1>9, <2>2 DEF NextLeg, OtherHop, Rest
<1>13. ASSUME l.hop # 1
       PROVE  LegBefore(l) \in Legs /\ ~ IsLast(LegBefore(l)) /\ NextLeg(LegBefore(l)) = l
  <2>1. l.hop - 1 \in 1..Len(l.path) /\ l.hop - 1 # Len(l.path) /\ (l.hop - 1) + 1 = l.hop
    BY <1>2, <1>13
  <2>2. l = [source |-> l.source, path |-> l.path, start |-> l.start, hop |-> l.hop]
    BY DEF Legs
  <2> QED
    BY <1>2, <2>1, <2>2 DEF NextLeg, LegBefore, OtherHop, Legs, IsLast
<1> QED
  BY <1>6, <1>7, <1>8, <1>9, <1>10, <1>11, <1>12, <1>13 DEF LegOK

\* Between two hops a message is where the first has taken it.
LEMMA LegsFollow ==
  ASSUME RoutesFit, Contribution, NEW l \in Legs, l.hop # 1
  PROVE  /\ From(l) = To(LegBefore(l))
         /\ Since(l) = At(LegBefore(l)) + 1
         /\ Rest(l) = Tail(Rest(LegBefore(l)))
         /\ LegBefore(l).source = l.source /\ LegBefore(l).path = l.path
<1>1. Rounds(LegBefore(l)) = Rounds(l)
  BY DEF Rounds, LegBefore, OtherHop
<1>2. LegBefore(l) \in Legs /\ ~ IsLast(LegBefore(l)) /\ NextLeg(LegBefore(l)) = l
  BY LegsOK DEF LegOK
<1>3. Rest(l) = Tail(Rest(LegBefore(l)))
  BY <1>2, LegsOK DEF LegOK
<1> QED
  BY <1>1, <1>3 DEF From, To, Since, At, LegBefore, OtherHop

\* A value's journey begins with its whole path at its source.
LEMMA FirstLeg ==
  ASSUME RoutesFit, Contribution, NEW m \in Sources, NEW path \in routes[m]
  PROVE  \E l \in Legs : /\ Rest(l) = path /\ From(l) = m /\ Since(l) = Start(m)
                         /\ l.source = m /\ l.path = path
<1> DEFINE l == [source |-> m, path |-> path, start |-> Start(m), hop |-> 1]
<1>1. path \in Seq(Meter) \ {NoPath}
  <2>1. path \in Routes(m, proxies)
    BY DEF Contribution
  <2> QED
    BY <2>1 DEF RoutesFit, Contribution, InTime, Sources
<1>2. l \in Legs
  BY <1>1, PhaseLengthPositive DEF Legs, Start, NoPath
<1> QED
  BY <1>1, <1>2, SubSeqFull DEF Rest, From, Since

\* It ends at the last meter of the path.
LEMMA LastLeg ==
  ASSUME RoutesFit, Contribution, NEW m \in Sources, NEW path \in routes[m]
  PROVE  \E l \in Legs : IsLast(l) /\ To(l) = Last(path) /\ l.source = m /\ l.path = path
<1> DEFINE l == [source |-> m, path |-> path, start |-> Start(m), hop |-> Len(path)]
<1>1. path \in Seq(Meter) \ {NoPath}
  <2>1. path \in Routes(m, proxies)
    BY DEF Contribution
  <2> QED
    BY <2>1 DEF RoutesFit, Contribution, InTime, Sources
<1>2. l \in Legs
  BY <1>1, PhaseLengthPositive DEF Legs, Start, NoPath
<1> QED
  BY <1>1, <1>2 DEF IsLast, To, Last

----------------------------------------------------------------------------
(* The invariant. *)

\* Phases and rounds, and what there is of them in the network.
Phases ==
  /\ protocol_phase \in [Meter -> {"IDLE", "SHUFFLE", "ECHO", "AGGREGATE"}]
  /\ overlay_round \in [Meter -> -1..(2 * PhaseLength)]
  /\ echo_start_round \in [Meter -> Nat]
  /\ waiting_messages \in [Meter -> SUBSET Seq(Meter)]
  /\ \A m \in Meter :
       /\ protocol_phase[m] = "IDLE" => overlay_round[m] = -1
       /\ protocol_phase[m] = "SHUFFLE" => overlay_round[m] \in 0..PhaseLength
       /\ protocol_phase[m] = "ECHO" =>
            /\ overlay_round[m] \in (PhaseLength + 1)..(2 * PhaseLength)
            /\ echo_start_round[m] = PhaseLength
       /\ protocol_phase[m] = "AGGREGATE" => overlay_round[m] = 2 * PhaseLength

\* A meter sends one batch in a round, and nobody else sends one to its target.
Batches ==
  /\ \A b \in net : b.round \in 0..(2 * PhaseLength)
  /\ \A b \in net : \E s \in Meter : b.to = Target(s, b.round) /\ b.round <= overlay_round[s]
  /\ \A b, c \in net : b.to = c.to /\ b.round = c.round => b = c

\* m has message w to send, and round is neither before nor after the rounds in
\* which it waits for its target.
Due(m, w, round) ==
  \E l \in Legs : w = Rest(l) /\ m = From(l) /\ round \in Since(l)..At(l)

\* No message is late, whatever meters crash.
OnSchedule ==
  /\ \A m \in Meter : \A w \in waiting_messages[m] : Due(m, w, overlay_round[m] + 1)
  /\ \A b \in net : \A w \in b.paths :
       \E l \in Legs : w = Rest(l) /\ b.to = To(l) /\ b.round = At(l)

\* m has left round `round` behind.
Past(m, round) == overlay_round[m] > round \/ protocol_phase[m] = "AGGREGATE"

\* The meters that the value needs for l are up: on l's path, and on that to the
\* proxy that l's path comes from.
Clean(l) ==
  /\ meter_id \notin crashed
  /\ l.source = meter_id \/ CleanPath(meter_id, l.source)
  /\ Range(l.path) \cap crashed = {}

\* Where the message of leg l is, before, during and after the hop.
Underway(l) ==
  /\ overlay_round[From(l)] \in Since(l)..(At(l) - 1) => Rest(l) \in waiting_messages[From(l)]
  /\ overlay_round[From(l)] >= At(l) /\ ~ Past(To(l), At(l)) =>
       \E b \in net : b.to = To(l) /\ b.round = At(l) /\ Rest(l) \in b.paths
  /\ IsLast(l) /\ Past(To(l), At(l)) => To(l) \in proxy_values

Delivers == \A l \in Legs : Clean(l) => Underway(l)

JourneyInv ==
  /\ Contribution
  /\ Phases
  /\ Batches
  /\ OnSchedule
  /\ Delivers
  /\ OnlyProxiesHoldValue

\* Nobody on a clean path has stopped, its source included.
LEMMA CleanLive ==
  ASSUME RoutesFit, Contribution, NEW l \in Legs, Clean(l)
  PROVE  From(l) \notin crashed /\ To(l) \notin crashed
<1>1. l.path \in Seq(Meter) /\ l.hop \in 1..Len(l.path) /\ l.source \in Sources
  BY DEF Legs
<1>2. \A i \in 1..Len(l.path) : l.path[i] \notin crashed
  BY <1>1 DEF Clean, Range
<1>3. l.source \notin crashed
  <2>1. CASE l.source = meter_id
    BY <2>1 DEF Clean
  <2>2. CASE l.source # meter_id
    <3>1. PICK path \in routes[meter_id] : Last(path) = l.source /\ Range(path) \cap crashed = {}
      BY <2>2 DEF Clean, CleanPath
    <3>2. PICK k \in Legs : IsLast(k) /\ To(k) = l.source /\ k.path = path
      BY <3>1, LastLeg DEF Sources
    <3>3. k.hop \in 1..Len(path) /\ path \in Seq(Meter) /\ path[k.hop] = l.source
      BY <3>2 DEF Legs, To
    <3> QED
      BY <3>1, <3>3 DEF Range
  <2> QED
    BY <2>1, <2>2
<1> QED
  BY <1>1, <1>2, <1>3 DEF From, To

\* Legs do not depend on what changes.
LEMMA LegsStay ==
  ASSUME UNCHANGED <<contribution, routes>>
  PROVE  Legs' = Legs /\ Sources' = Sources
BY DEF Legs, Sources, Start, contribution

----------------------------------------------------------------------------
(* The end of a round. *)

\* paths is all that m gets in its round, and, of the messages that can get to
\* m in it, no clean one is missing.
Hears(m, paths) ==
  /\ \A w \in paths : \E l \in Legs : w = Rest(l) /\ m = To(l) /\ overlay_round[m] = At(l)
  /\ \A l \in Legs : Clean(l) /\ m = To(l) /\ overlay_round[m] = At(l) => Rest(l) \in paths

Landed(paths) == {path \in paths : Len(path) = 1}
Kept(m, paths) == waiting_messages[m] \cup {Tail(path) : path \in paths \ Landed(paths)}

\* handle_overlay_message and Skip, which is like the arrival of nothing.
RoundEnds(m, paths) ==
  /\ m \in Meter \ crashed /\ is_in_overlay_phase(m)
  /\ Hears(m, paths)
  /\ proxy_values' = proxy_values \cup {m : path \in Landed(paths)}
  /\ end_overlay_round(m, proxy_values', Kept(m, paths))
  /\ UNCHANGED <<contribution, routes, crashed>>

\* A leg to m in its round has come from the one meter that sends to m in it.
LEMMA SenderOfLeg ==
  ASSUME RoutesFit, JourneyInv, NEW m \in Meter, NEW l \in Legs,
         m = To(l), overlay_round[m] = At(l)
  PROVE  /\ At(l) \in 0..LastRound
         /\ From(l) \in Meter
         /\ m = Target(From(l), At(l))
         /\ Predecessor(m) = From(l)
<1>1. /\ From(l) \in Meter /\ Since(l) \in Nat /\ At(l) \in Since(l)..End(l.start)
      /\ Target(From(l), At(l)) = To(l)
  BY LegsOK DEF JourneyInv, LegOK
<1>2. End(l.start) \in Nat /\ End(l.start) <= LastRound
  BY PhaseLengthPositive DEF End
<1>3. At(l) \in 0..LastRound
  BY <1>1, <1>2, PhaseLengthPositive
<1> QED
  BY <1>1, <1>3, TargetInverse DEF Predecessor

\* With a batch, the round ends on what is due in it (handle_overlay_message).
LEMMA BatchHeard ==
  ASSUME RoutesFit, JourneyInv, NEW m \in Meter, NEW b \in net, handle_overlay_message(m, b)
  PROVE  RoundEnds(m, b.paths)
<1>1. /\ m \notin crashed /\ is_in_overlay_phase(m)
      /\ b.to = m /\ b.round = overlay_round[m]
  BY DEF handle_overlay_message, Arrives
<1>2. /\ proxy_values' = proxy_values \cup {m : path \in Landed(b.paths)}
      /\ end_overlay_round(m, proxy_values', Kept(m, b.paths))
      /\ UNCHANGED <<contribution, routes, crashed>>
  BY DEF handle_overlay_message, Landed, Kept, Arrived
<1>3. \A w \in b.paths : \E l \in Legs : w = Rest(l) /\ m = To(l) /\ overlay_round[m] = At(l)
  BY <1>1 DEF JourneyInv, OnSchedule
<1>4. ASSUME NEW l \in Legs, Clean(l), m = To(l), overlay_round[m] = At(l)
      PROVE  Rest(l) \in b.paths
  <2>1. /\ At(l) \in 0..LastRound /\ From(l) \in Meter
        /\ m = Target(From(l), At(l))
    BY <1>4, SenderOfLeg
  <2>2. PICK s \in Meter : m = Target(s, At(l)) /\ At(l) <= overlay_round[s]
    BY <1>1, <1>4 DEF JourneyInv, Batches
  <2>3. s = From(l)
    BY <2>1, <2>2, OneSender
  <2>4. ~ Past(m, At(l))
    BY <1>1, <1>4, <2>1 DEF Past, is_in_overlay_phase
  <2>5. overlay_round[From(l)] \in Int /\ At(l) \in Int
    BY <2>1 DEF JourneyInv, Phases
  <2>6. PICK c \in net : c.to = m /\ c.round = At(l) /\ Rest(l) \in c.paths
    BY <1>4, <2>2, <2>3, <2>4, <2>5 DEF JourneyInv, Delivers, Underway
  <2>7. c = b
    BY <1>1, <1>4, <2>6 DEF JourneyInv, Batches
  <2> QED
    BY <2>6, <2>7
<1> QED
  BY <1>1, <1>2, <1>3, <1>4 DEF RoundEnds, Hears

\* Without one, the round ends on nothing new (handle_round_timeout).
LEMMA SkipHeard ==
  ASSUME RoutesFit, JourneyInv, NEW m \in Meter, Skip(m)
  PROVE  RoundEnds(m, {})
<1>1. /\ m \notin crashed /\ is_in_overlay_phase(m)
      /\ Predecessor(m) \in crashed
  BY DEF Skip, Skips
<1>2. proxy_values' = proxy_values \cup {m : path \in Landed({})}
  BY DEF Skip, Landed
<1>3. Kept(m, {}) = waiting_messages[m]
  BY DEF Kept
<1>4. /\ end_overlay_round(m, proxy_values', Kept(m, {}))
      /\ UNCHANGED <<contribution, routes, crashed>>
  BY <1>3 DEF Skip
<1>5. ASSUME NEW l \in Legs, Clean(l), m = To(l), overlay_round[m] = At(l)
      PROVE  FALSE
  <2>1. Predecessor(m) = From(l)
    BY <1>5, SenderOfLeg
  <2> QED
    BY <1>1, <1>5, <2>1, CleanLive DEF JourneyInv
<1> QED
  BY <1>1, <1>2, <1>4, <1>5 DEF RoundEnds, Hears

\* The messages that m has for its next round are due in it.
LEMMA KeptDue ==
  ASSUME RoutesFit, JourneyInv, NEW m \in Meter, NEW paths, Hears(m, paths),
         NEW w \in Kept(m, paths)
  PROVE  Due(m, w, overlay_round[m] + 1)
<1>1. CASE w \in waiting_messages[m]
  BY <1>1 DEF JourneyInv, OnSchedule
<1>2. CASE \E path \in paths \ Landed(paths) : w = Tail(path)
  <2>1. PICK path \in paths \ Landed(paths) : w = Tail(path)
    BY <1>2
  <2>2. PICK l \in Legs : path = Rest(l) /\ m = To(l) /\ overlay_round[m] = At(l)
    BY <2>1 DEF Hears
  <2>3. ~ IsLast(l)
    BY <2>1, <2>2, LegsOK DEF JourneyInv, LegOK, Landed
  <2> DEFINE k == NextLeg(l)
  <2>4. k \in Legs /\ Rest(k) = w
    BY <2>1, <2>2, <2>3, LegsOK DEF JourneyInv, LegOK
  <2>5. l.hop \in Nat \ {0} /\ k.hop = l.hop + 1 /\ LegBefore(k) = l
    <3>1. l = [source |-> l.source, path |-> l.path, start |-> l.start, hop |-> l.hop]
          /\ l.hop \in Nat \ {0}
      BY DEF Legs
    <3> QED
      BY <3>1 DEF LegBefore, NextLeg, OtherHop
  <2> HIDE DEF k
  <2>6. k.hop # 1
    BY <2>5
  <2>7. From(k) = m /\ Since(k) = overlay_round[m] + 1
    BY <2>2, <2>4, <2>5, <2>6, LegsFollow DEF JourneyInv
  <2>8. Since(k) \in Nat /\ At(k) \in Since(k)..End(k.start)
    BY <2>4, LegsOK DEF JourneyInv, LegOK
  <2>9. Since(k) \in Since(k)..At(k)
    BY <2>8
  <2> QED
    BY <2>4, <2>7, <2>9 DEF Due
<1> QED
  BY <1>1, <1>2 DEF Kept

\* And no message on a clean path is missing, but those with which a proxy
\* begins Echo.
LEMMA KeptComplete ==
  ASSUME RoutesFit, JourneyInv, NEW m \in Meter, NEW paths, Hears(m, paths),
         overlay_round[m] \in Nat,
         NEW l \in Legs, Clean(l), m = From(l), overlay_round[m] + 1 \in Since(l)..At(l),
         Since(l) <= overlay_round[m] \/ l.hop # 1
  PROVE  Rest(l) \in Kept(m, paths)
<1>1. Since(l) \in Nat /\ At(l) \in Nat
  <2>1. Since(l) \in Nat /\ At(l) \in Since(l)..End(l.start)
    BY LegsOK DEF JourneyInv, LegOK
  <2> QED
    BY <2>1
<1>2. CASE Since(l) <= overlay_round[m]
  <2>1. overlay_round[m] \in Since(l)..(At(l) - 1)
    BY <1>1, <1>2
  <2> QED
    BY <2>1 DEF JourneyInv, Delivers, Underway, Kept
<1>3. CASE ~ (Since(l) <= overlay_round[m]) /\ l.hop # 1
  <2> DEFINE k == LegBefore(l)
  <2>1. k \in Legs /\ ~ IsLast(k)
    BY <1>3, LegsOK DEF JourneyInv, LegOK
  <2>2. /\ m = To(k) /\ Since(l) = At(k) + 1 /\ Rest(l) = Tail(Rest(k))
        /\ k.source = l.source /\ k.path = l.path
    BY <1>3, LegsFollow DEF JourneyInv
  <2>3. At(k) \in Int
    <3>1. Since(k) \in Nat /\ At(k) \in Since(k)..End(k.start)
      BY <2>1, LegsOK DEF JourneyInv, LegOK
    <3> QED
      BY <3>1
  <2> HIDE DEF k
  <2>4. overlay_round[m] = At(k)
    BY <1>1, <1>3, <2>2, <2>3
  <2>5. Clean(k)
    BY <2>2 DEF Clean
  <2>6. Rest(k) \in paths
    BY <2>1, <2>2, <2>4, <2>5 DEF Hears
  <2>7. Rest(k) \notin Landed(paths)
    BY <2>1, LegsOK DEF JourneyInv, LegOK, Landed
  <2> QED
    BY <2>2, <2>6, <2>7 DEF Kept
<1> QED
  BY <1>2, <1>3

\* m has the values that can have come to it.
LEMMA ValuesThere ==
  ASSUME RoutesFit, JourneyInv, NEW m \in Meter, NEW paths, RoundEnds(m, paths),
         NEW l \in Legs, Clean(l), m = To(l), IsLast(l), At(l) <= overlay_round[m]
  PROVE  m \in proxy_values'
<1>1. At(l) \in Int /\ overlay_round[m] \in Int
  <2>1. Since(l) \in Nat /\ At(l) \in Since(l)..End(l.start)
    BY LegsOK DEF JourneyInv, LegOK
  <2> QED
    BY <2>1 DEF JourneyInv, Phases
<1>2. CASE At(l) = overlay_round[m]
  <2>1. Rest(l) \in Landed(paths)
    BY <1>2, LegsOK DEF RoundEnds, Hears, JourneyInv, LegOK, Landed
  <2> QED
    BY <2>1 DEF RoundEnds
<1>3. CASE At(l) < overlay_round[m]
  BY <1>1, <1>3 DEF JourneyInv, Delivers, Underway, Past, RoundEnds
<1> QED
  BY <1>1, <1>2, <1>3

----------------------------------------------------------------------------
(* The next round. *)

\* `all` is what m has to send when it leaves its round, with the values in
\* proxy_values'.
Ready(m, all) ==
  /\ \A w \in all : Due(m, w, overlay_round[m] + 1)
  /\ \A l \in Legs : Clean(l) /\ m = From(l) /\ overlay_round[m] + 1 \in Since(l)..At(l)
       => Rest(l) \in all
  /\ \A l \in Legs : Clean(l) /\ m = To(l) /\ IsLast(l) /\ At(l) <= overlay_round[m]
       => m \in proxy_values'

\* m goes on to its next round, or is done with them.
Stays(m) ==
  /\ \A s \in Meter \ {m} : protocol_phase'[s] = protocol_phase[s]
  /\ protocol_phase[m] # "AGGREGATE"
  /\ proxy_values \subseteq proxy_values'
  /\ UNCHANGED <<contribution, routes, crashed>>

Goes(m, all) ==
  Stays(m) /\ overlay_round[m] < 2 * PhaseLength /\ protocol_phase'[m] # "AGGREGATE" /\ SendHeld(m, all)

Done(m, all) ==
  /\ Stays(m) /\ protocol_phase'[m] = "AGGREGATE" /\ overlay_round[m] = 2 * PhaseLength
  /\ waiting_messages' = [waiting_messages EXCEPT ![m] = all]
  /\ net' = Unhandled(m)
  /\ UNCHANGED overlay_round

\* Who has crashed does not change while a round ends.
LEMMA CleanStays ==
  ASSUME NEW m, Stays(m), NEW l
  PROVE  Clean(l)' <=> Clean(l)
BY DEF Stays, Clean, CleanPath, contribution

\* What is due in a round leaves in it exactly when it is for its target.
LEMMA DueLeaves ==
  ASSUME RoutesFit, JourneyInv, NEW l \in Legs, NEW round \in Since(l)..At(l)
  PROVE  /\ round \in 0..LastRound
         /\ Target(From(l), round) = Head(Rest(l)) <=> round = At(l)
<1>1. /\ Since(l) \in Nat /\ At(l) \in Since(l)..End(l.start)
      /\ Head(Rest(l)) = To(l)
      /\ Target(From(l), round) = To(l) <=> round = At(l)
  BY LegsOK DEF JourneyInv, LegOK
<1>2. End(l.start) \in Nat /\ End(l.start) <= LastRound
  BY PhaseLengthPositive DEF End
<1> QED
  BY <1>1, <1>2, PhaseLengthPositive

\* What start_overlay_round leaves of state: the round, what waits, what is sent.
LEMMA SendEffect ==
  ASSUME JourneyInv, NEW m \in Meter, NEW all, SendHeld(m, all)
  PROVE  LET round == overlay_round[m] + 1
             sent == {path \in all : Head(path) = Target(m, round)}
         IN /\ round \in Nat
            /\ overlay_round'[m] = round
            /\ \A s \in Meter \ {m} : overlay_round'[s] = overlay_round[s]
            /\ waiting_messages'[m] = all \ sent
            /\ \A s \in Meter \ {m} : waiting_messages'[s] = waiting_messages[s]
            /\ net' = Unhandled(m) \cup {[to |-> Target(m, round), round |-> round, paths |-> sent]}
BY DEF JourneyInv, Phases, SendHeld, NextRound

\* Batches are sent in the round their sender is in, and to its target.
LEMMA GoesBatches ==
  ASSUME RoutesFit, JourneyInv, NEW m \in Meter, NEW all, Goes(m, all)
  PROVE  Batches'
<1> DEFINE round == overlay_round[m] + 1
           sent == {path \in all : Head(path) = Target(m, round)}
           new == [to |-> Target(m, round), round |-> round, paths |-> sent]
<1>1. /\ overlay_round'[m] = round
      /\ \A s \in Meter \ {m} : overlay_round'[s] = overlay_round[s]
      /\ net' = Unhandled(m) \cup {new}
  BY SendEffect DEF Goes
<1>2. round \in 0..(2 * PhaseLength) /\ round \in 0..LastRound
  BY PhaseLengthPositive DEF Goes, JourneyInv, Phases
<1>3. new.to = Target(m, round) /\ new.round = round
  OBVIOUS
<1> HIDE DEF new
<1>4. Unhandled(m) \subseteq net
  BY DEF Unhandled
<1>5. \A b \in net' : b.round \in 0..(2 * PhaseLength)
  BY <1>1, <1>2, <1>3, <1>4 DEF JourneyInv, Batches
<1>6. ASSUME NEW b \in net'
      PROVE  \E s \in Meter : b.to = Target(s, b.round) /\ b.round <= overlay_round'[s]
  <2>1. CASE b = new
    BY <1>1, <1>2, <1>3, <2>1
  <2>2. CASE b \in net
    <3>1. PICK s \in Meter : b.to = Target(s, b.round) /\ b.round <= overlay_round[s]
      BY <2>2 DEF JourneyInv, Batches
    <3>2. overlay_round[s] <= overlay_round'[s] /\ b.round \in Int
          /\ overlay_round[s] \in Int /\ overlay_round'[s] \in Int
      BY <1>1, <1>2, <2>2 DEF JourneyInv, Phases, Batches
    <3> QED
      BY <3>1, <3>2
  <2> QED
    BY <1>1, <1>4, <2>1, <2>2
<1>7. ASSUME NEW b \in net, b.to = new.to, b.round = new.round
      PROVE  FALSE
  <2>1. PICK s \in Meter : b.to = Target(s, b.round) /\ b.round <= overlay_round[s]
    BY DEF JourneyInv, Batches
  <2>2. s = m
    BY <1>2, <1>3, <1>7, <2>1, OneSender
  <2> QED
    BY <1>2, <1>3, <1>7, <2>1, <2>2 DEF JourneyInv, Phases
<1>8. \A b, c \in net' : b.to = c.to /\ b.round = c.round => b = c
  BY <1>1, <1>4, <1>7 DEF JourneyInv, Batches
<1>9. \A b \in net', s \in Meter : Target(s, b.round)' = Target(s, b.round)
  BY DEF Target, Hop
<1> QED
  BY <1>5, <1>6, <1>8 DEF Batches, Target, Hop

\* No message gets ahead of its path, or off it, when a round goes on.
LEMMA GoesOnSchedule ==
  ASSUME RoutesFit, JourneyInv, NEW m \in Meter, NEW all, Ready(m, all), Goes(m, all)
  PROVE  OnSchedule'
<1> DEFINE round == overlay_round[m] + 1
           sent == {path \in all : Head(path) = Target(m, round)}
           new == [to |-> Target(m, round), round |-> round, paths |-> sent]
<1>1. /\ round \in Nat
      /\ overlay_round'[m] = round
      /\ \A s \in Meter \ {m} : overlay_round'[s] = overlay_round[s]
      /\ waiting_messages'[m] = all \ sent
      /\ \A s \in Meter \ {m} : waiting_messages'[s] = waiting_messages[s]
      /\ net' = Unhandled(m) \cup {new}
  BY SendEffect DEF Goes
<1>2. Legs' = Legs
  BY LegsStay DEF Goes, Stays
<1>3. ASSUME NEW w \in all
      PROVE  \E l \in Legs : /\ w = Rest(l) /\ m = From(l) /\ round \in Since(l)..At(l)
                             /\ w \in sent <=> round = At(l)
                             /\ Target(m, round) = To(l) <=> round = At(l)
  <2>1. PICK l \in Legs : w = Rest(l) /\ m = From(l) /\ round \in Since(l)..At(l)
    BY DEF Ready, Due
  <2>2. Target(m, round) = Head(w) <=> round = At(l)
    BY <2>1, DueLeaves
  <2>3. Head(w) = To(l)
    BY <2>1, LegsOK DEF JourneyInv, LegOK
  <2> QED
    BY <2>1, <2>2, <2>3
<1> HIDE DEF round, sent
<1>4. ASSUME NEW s \in Meter, NEW w \in waiting_messages'[s]
      PROVE  \E l \in Legs : w = Rest(l) /\ s = From(l) /\ overlay_round'[s] + 1 \in Since(l)..At(l)
  <2>1. CASE s # m
    BY <1>1, <1>4, <2>1 DEF JourneyInv, OnSchedule, Due
  <2>2. CASE s = m
    <3>1. w \in all /\ w \notin sent
      BY <1>1, <1>4, <2>2
    <3>2. PICK l \in Legs : /\ w = Rest(l) /\ m = From(l) /\ round \in Since(l)..At(l)
                            /\ round # At(l)
      BY <1>3, <3>1
    <3>3. Since(l) \in Int /\ At(l) \in Int
      <4>1. Since(l) \in Nat /\ At(l) \in Since(l)..End(l.start)
        BY LegsOK DEF JourneyInv, LegOK
      <4> QED
        BY <4>1
    <3>4. round + 1 \in Since(l)..At(l)
      BY <1>1, <3>2, <3>3
    <3> QED
      BY <1>1, <2>2, <3>2, <3>4
  <2> QED
    BY <2>1, <2>2
<1>5. ASSUME NEW b \in net', NEW w \in b.paths
      PROVE  \E l \in Legs : w = Rest(l) /\ b.to = To(l) /\ b.round = At(l)
  <2>1. CASE b \in net
    BY <1>5, <2>1 DEF JourneyInv, OnSchedule
  <2>2. CASE b = new
    <3>1. w \in sent /\ b.to = Target(m, round) /\ b.round = round
      BY <1>5, <2>2
    <3>2. w \in all
      BY <3>1 DEF sent
    <3> QED
      BY <1>3, <3>1, <3>2
  <2> QED
    BY <1>1, <2>1, <2>2 DEF Unhandled
<1> QED
  BY <1>2, <1>4, <1>5 DEF OnSchedule, Due

\* Nor is one on a path without crashes left behind.
LEMMA GoesDelivers ==
  ASSUME RoutesFit, JourneyInv, Phases', NEW m \in Meter, NEW all, Ready(m, all), Goes(m, all)
  PROVE  Delivers'
<1> DEFINE round == overlay_round[m] + 1
           sent == {path \in all : Head(path) = Target(m, round)}
           new == [to |-> Target(m, round), round |-> round, paths |-> sent]
<1>1. /\ round \in Nat
      /\ overlay_round'[m] = round
      /\ \A s \in Meter \ {m} : overlay_round'[s] = overlay_round[s]
      /\ waiting_messages'[m] = all \ sent
      /\ \A s \in Meter \ {m} : waiting_messages'[s] = waiting_messages[s]
      /\ net' = Unhandled(m) \cup {new}
  BY SendEffect DEF Goes
<1>2. Legs' = Legs
  BY LegsStay DEF Goes, Stays
<1>3. new.to = Target(m, round) /\ new.round = round /\ new.paths = sent
  OBVIOUS
<1>4. overlay_round[m] \in Int /\ round = overlay_round[m] + 1
  BY DEF JourneyInv, Phases
<1> HIDE DEF round, new
<1> SUFFICES ASSUME NEW l \in Legs, Clean(l) PROVE Underway(l)'
  BY <1>2, CleanStays DEF Delivers, Goes
<1>5. /\ From(l) \in Meter /\ To(l) \in Meter
      /\ Since(l) \in Int /\ At(l) \in Int /\ Since(l) <= At(l)
      /\ overlay_round[From(l)] \in Int /\ overlay_round[To(l)] \in Int
  <2>1. /\ From(l) \in Meter /\ To(l) \in Meter
        /\ Since(l) \in Nat /\ At(l) \in Since(l)..End(l.start)
    BY LegsOK DEF JourneyInv, LegOK
  <2> QED
    BY <2>1 DEF JourneyInv, Phases
<1>6. Underway(l)
  BY DEF JourneyInv, Delivers
<1>7. Past(To(l), At(l)) => Past(To(l), At(l))'
  <2>1. CASE To(l) = m
    BY <1>1, <1>4, <1>5, <2>1 DEF Past, Goes, Stays
  <2>2. CASE To(l) # m
    BY <1>1, <1>5, <2>2 DEF Past, Goes, Stays
  <2> QED
    BY <2>1, <2>2
<1>8. ASSUME From(l) = m, round \in Since(l)..At(l)
      PROVE  Rest(l) \in all /\ (Rest(l) \in sent <=> round = At(l))
  <2>1. Rest(l) \in all
    BY <1>4, <1>8 DEF Ready
  <2>2. Target(From(l), round) = Head(Rest(l)) <=> round = At(l)
    BY <1>8, DueLeaves
  <2> QED
    BY <1>8, <2>1, <2>2
<1> HIDE DEF sent
<1>9. ASSUME overlay_round'[From(l)] \in Since(l)..(At(l) - 1)
      PROVE  Rest(l) \in waiting_messages'[From(l)]
  <2>1. CASE From(l) # m
    BY <1>1, <1>5, <1>6, <1>9, <2>1 DEF Underway
  <2>2. CASE From(l) = m
    <3>1. round \in Since(l)..At(l) /\ round # At(l)
      BY <1>1, <1>5, <1>9, <2>2
    <3> QED
      BY <1>1, <1>8, <2>2, <3>1
  <2> QED
    BY <2>1, <2>2
<1>10. ASSUME overlay_round'[From(l)] >= At(l), ~ Past(To(l), At(l))'
       PROVE  \E b \in net' : b.to = To(l) /\ b.round = At(l) /\ Rest(l) \in b.paths
  <2>1. ~ Past(To(l), At(l))
    BY <1>7, <1>10
  <2>2. CASE overlay_round[From(l)] >= At(l)
    <3>1. PICK b \in net : b.to = To(l) /\ b.round = At(l) /\ Rest(l) \in b.paths
      BY <1>6, <2>1, <2>2 DEF Underway
    <3>2. ~ (b.to = m /\ b.round = overlay_round[m])
      <4>1. CASE To(l) = m
        BY <1>1, <1>4, <1>5, <1>10, <3>1, <4>1 DEF Past
      <4> QED
        BY <3>1, <4>1
    <3> QED
      BY <1>1, <3>1, <3>2 DEF Unhandled
  <2>3. CASE ~ (overlay_round[From(l)] >= At(l))
    <3>1. From(l) = m /\ round = At(l)
      BY <1>1, <1>4, <1>5, <1>10, <2>3
    <3>2. round \in Since(l)..At(l)
      BY <1>5, <3>1
    <3>3. Rest(l) \in sent
      BY <1>8, <3>1, <3>2
    <3>4. new.to = To(l)
      <4>1. Target(From(l), At(l)) = To(l)
        BY <1>5, LegsOK DEF JourneyInv, LegOK
      <4> QED
        BY <1>3, <3>1, <4>1
    <3> QED
      BY <1>1, <1>3, <3>1, <3>3, <3>4
  <2> QED
    BY <2>2, <2>3
<1>11. ASSUME IsLast(l), Past(To(l), At(l))'
       PROVE  To(l) \in proxy_values'
  <2>1. CASE Past(To(l), At(l))
    BY <1>6, <1>11, <2>1 DEF Underway, Goes, Stays
  <2>2. CASE ~ Past(To(l), At(l))
    <3>1. To(l) = m /\ At(l) <= overlay_round[m]
      BY <1>1, <1>4, <1>5, <1>11, <2>2 DEF Past, Goes, Stays
    <3> QED
      BY <1>11, <3>1 DEF Ready
  <2> QED
    BY <2>1, <2>2
<1> QED
  BY <1>9, <1>10, <1>11 DEF Underway

\* Nothing is left to send when the phases are over.
LEMMA DoneKeeps ==
  ASSUME RoutesFit, JourneyInv, NEW m \in Meter, NEW all, Ready(m, all), Done(m, all)
  PROVE  Batches' /\ OnSchedule' /\ Delivers'
<1>1. /\ Unhandled(m) \subseteq net /\ net' = Unhandled(m) /\ overlay_round' = overlay_round
      /\ \A s \in Meter \ {m} : waiting_messages'[s] = waiting_messages[s]
      /\ waiting_messages'[m] = all
  BY DEF Done, Unhandled, JourneyInv, Phases
<1>2. Legs' = Legs
  BY LegsStay DEF Done, Stays
<1>3. \A l \in Legs : /\ From(l) \in Meter /\ To(l) \in Meter
                      /\ Since(l) \in Int /\ At(l) \in Int /\ At(l) <= 2 * PhaseLength
                      /\ overlay_round[From(l)] \in Int /\ overlay_round[To(l)] \in Int
  <2> SUFFICES ASSUME NEW l \in Legs
               PROVE  /\ From(l) \in Meter /\ To(l) \in Meter
                      /\ Since(l) \in Int /\ At(l) \in Int /\ At(l) <= 2 * PhaseLength
                      /\ overlay_round[From(l)] \in Int /\ overlay_round[To(l)] \in Int
    OBVIOUS
  <2>1. /\ From(l) \in Meter /\ To(l) \in Meter
        /\ Since(l) \in Nat /\ At(l) \in Since(l)..End(l.start)
    BY LegsOK DEF JourneyInv, LegOK
  <2>2. End(l.start) \in Nat /\ End(l.start) <= 2 * PhaseLength
    BY PhaseLengthPositive DEF End
  <2>3. overlay_round[From(l)] \in Int /\ overlay_round[To(l)] \in Int
    BY <2>1 DEF JourneyInv, Phases
  <2>4. PhaseLength \in Int
    BY PhaseLengthPositive
  <2> QED
    BY <2>1, <2>2, <2>3, <2>4
<1>4. overlay_round[m] = 2 * PhaseLength /\ PhaseLength \in Nat
  BY PhaseLengthPositive DEF Done
<1>5. Batches'
  <2>1. \A b \in net, s \in Meter : Target(s, b.round)' = Target(s, b.round)
    BY DEF Target, Hop
  <2> QED
    BY <1>1, <2>1 DEF JourneyInv, Batches
<1>6. all = {}
  <2> SUFFICES ASSUME NEW w \in all PROVE FALSE
    OBVIOUS
  <2>1. PICK l \in Legs : overlay_round[m] + 1 \in Since(l)..At(l)
    BY DEF Ready, Due
  <2> QED
    BY <1>3, <1>4, <2>1
<1>7. OnSchedule'
  <2>1. ASSUME NEW s \in Meter, NEW w \in waiting_messages'[s]
        PROVE  Due(s, w, overlay_round[s] + 1)
    BY <1>1, <1>6, <2>1 DEF JourneyInv, OnSchedule
  <2>2. ASSUME NEW b \in net', NEW w \in b.paths
        PROVE  \E l \in Legs : w = Rest(l) /\ b.to = To(l) /\ b.round = At(l)
    BY <1>1, <2>2 DEF JourneyInv, OnSchedule
  <2> QED
    BY <1>1, <1>2, <2>1, <2>2 DEF OnSchedule, Due
<1>8. ASSUME NEW l \in Legs, Clean(l)
      PROVE  Underway(l)'
  <2>1. Underway(l)
    BY <1>8 DEF JourneyInv, Delivers
  <2>2. Past(To(l), At(l)) => Past(To(l), At(l))'
    BY <1>1, <1>3 DEF Past, Done, Stays
  <2>3. ASSUME overlay_round'[From(l)] \in Since(l)..(At(l) - 1)
        PROVE  Rest(l) \in waiting_messages'[From(l)]
    <3>1. From(l) # m
      BY <1>1, <1>3, <1>4, <2>3
    <3> QED
      BY <1>1, <1>3, <2>1, <2>3, <3>1 DEF Underway
  <2>4. ASSUME overlay_round'[From(l)] >= At(l), ~ Past(To(l), At(l))'
        PROVE  \E b \in net' : b.to = To(l) /\ b.round = At(l) /\ Rest(l) \in b.paths
    <3>1. PICK b \in net : b.to = To(l) /\ b.round = At(l) /\ Rest(l) \in b.paths
      BY <1>1, <2>1, <2>2, <2>4 DEF Underway
    <3>2. To(l) # m
      BY <2>4 DEF Past, Done
    <3> QED
      BY <1>1, <3>1, <3>2 DEF Unhandled
  <2>5. ASSUME IsLast(l), Past(To(l), At(l))'
        PROVE  To(l) \in proxy_values'
    <3>1. CASE Past(To(l), At(l))
      BY <2>1, <2>5, <3>1 DEF Underway, Done, Stays
    <3>2. CASE ~ Past(To(l), At(l))
      <4>1. To(l) = m
        BY <1>1, <1>3, <2>5, <3>2 DEF Past, Done, Stays
      <4> QED
        BY <1>3, <1>4, <1>8, <2>5, <4>1 DEF Ready
    <3> QED
      BY <3>1, <3>2
  <2> QED
    BY <2>3, <2>4, <2>5 DEF Underway
<1>9. Delivers'
  BY <1>2, <1>8, CleanStays DEF Delivers, Done
<1> QED
  BY <1>5, <1>7, <1>9

----------------------------------------------------------------------------
(* The steps. *)

\* Where m is at the end of a round, and what it may do then.
LEMMA RoundEndsHow ==
  ASSUME RoutesFit, JourneyInv, NEW m \in Meter, NEW paths, RoundEnds(m, paths)
  PROVE  /\ overlay_round[m] \in 0..(2 * PhaseLength)
         /\ overlay_round[m] = PhaseLength <=> shuffle_over(m)
         /\ \/ /\ overlay_round[m] \notin {PhaseLength, 2 * PhaseLength}
               /\ Goes(m, Kept(m, paths))
               /\ UNCHANGED <<protocol_phase, echo_start_round>>
            \/ /\ overlay_round[m] = PhaseLength
               /\ Goes(m, Kept(m, paths) \cup Echo(m, proxy_values'))
               /\ protocol_phase' = [protocol_phase EXCEPT ![m] = "ECHO"]
               /\ echo_start_round' = [echo_start_round EXCEPT ![m] = PhaseLength]
            \/ /\ Done(m, Kept(m, paths))
               /\ protocol_phase' = [protocol_phase EXCEPT ![m] = "AGGREGATE"]
               /\ UNCHANGED echo_start_round
<1>1. PhaseLength \in Nat \ {0}
  BY PhaseLengthPositive
<1>2. /\ protocol_phase[m] \in {"SHUFFLE", "ECHO"}
      /\ overlay_round[m] \in Int
      /\ protocol_phase[m] = "SHUFFLE" => overlay_round[m] \in 0..PhaseLength
      /\ protocol_phase[m] = "ECHO" =>
           /\ overlay_round[m] \in (PhaseLength + 1)..(2 * PhaseLength)
           /\ echo_start_round[m] = PhaseLength
  BY <1>1 DEF JourneyInv, Phases, RoundEnds, is_in_overlay_phase
<1>3. overlay_round[m] \in 0..(2 * PhaseLength)
  BY <1>1, <1>2
<1>4. overlay_round[m] = PhaseLength <=> shuffle_over(m)
  BY <1>1, <1>2 DEF shuffle_over
<1>5. overlay_round[m] = 2 * PhaseLength <=> echo_over(m)
  BY <1>1, <1>2 DEF echo_over
<1>6. /\ proxy_values \subseteq proxy_values'
      /\ UNCHANGED <<contribution, routes, crashed>>
      /\ end_overlay_round(m, proxy_values', Kept(m, paths))
  BY DEF RoundEnds
<1>7. ASSUME \A s \in Meter \ {m} : protocol_phase'[s] = protocol_phase[s]
      PROVE  Stays(m)
  BY <1>2, <1>6, <1>7 DEF Stays
<1>8. CASE ~ shuffle_over(m) /\ ~ echo_over(m)
  <2>1. SendHeld(m, Kept(m, paths)) /\ UNCHANGED <<protocol_phase, echo_start_round>>
    BY <1>6, <1>8 DEF end_overlay_round
  <2>2. Stays(m) /\ overlay_round[m] < 2 * PhaseLength
    BY <1>1, <1>3, <1>5, <1>7, <1>8, <2>1
  <2>3. Goes(m, Kept(m, paths))
    BY <1>2, <2>1, <2>2 DEF Goes
  <2> QED
    BY <1>3, <1>4, <1>5, <1>8, <2>1, <2>3
<1>9. CASE shuffle_over(m)
  <2>1. overlay_round[m] = PhaseLength /\ ~ echo_over(m)
    BY <1>1, <1>4, <1>5, <1>9
  <2>2. /\ SendHeld(m, Kept(m, paths) \cup Echo(m, proxy_values'))
        /\ protocol_phase' = [protocol_phase EXCEPT ![m] = "ECHO"]
        /\ echo_start_round' = [echo_start_round EXCEPT ![m] = PhaseLength]
    BY <1>6, <1>9, <2>1 DEF end_overlay_round
  <2>3. /\ protocol_phase'[m] # "AGGREGATE"
        /\ \A s \in Meter \ {m} : protocol_phase'[s] = protocol_phase[s]
    BY <2>2 DEF JourneyInv, Phases
  <2>4. Goes(m, Kept(m, paths) \cup Echo(m, proxy_values'))
    BY <1>1, <1>7, <2>1, <2>2, <2>3 DEF Goes
  <2> QED
    BY <1>3, <1>4, <2>1, <2>2, <2>4
<1>10. CASE echo_over(m)
  <2>1. ~ shuffle_over(m) /\ overlay_round[m] = 2 * PhaseLength
    BY <1>1, <1>4, <1>5, <1>10
  <2>2. /\ protocol_phase' = [protocol_phase EXCEPT ![m] = "AGGREGATE"]
        /\ waiting_messages' = [waiting_messages EXCEPT ![m] = Kept(m, paths)]
        /\ net' = Unhandled(m)
        /\ UNCHANGED <<overlay_round, echo_start_round>>
    BY <1>6, <1>10, <2>1 DEF end_overlay_round
  <2>3. /\ protocol_phase'[m] = "AGGREGATE"
        /\ \A s \in Meter \ {m} : protocol_phase'[s] = protocol_phase[s]
    BY <2>2 DEF JourneyInv, Phases
  <2>4. Done(m, Kept(m, paths))
    BY <1>7, <2>1, <2>2, <2>3 DEF Done
  <2> QED
    BY <1>3, <1>4, <2>2, <2>4
<1> QED
  BY <1>8, <1>9, <1>10

\* Values only come to their proxies.
LEMMA NewValues ==
  ASSUME RoutesFit, JourneyInv, NEW m \in Meter, NEW paths, RoundEnds(m, paths)
  PROVE  proxy_values' \subseteq Range(proxies)
<1>1. ASSUME NEW path \in Landed(paths) PROVE m \in Range(proxies)
  <2>1. PICK l \in Legs : path = Rest(l) /\ m = To(l)
    BY DEF Landed, RoundEnds, Hears
  <2>2. IsLast(l)
    BY <2>1, LegsOK DEF Landed, JourneyInv, LegOK
  <2> QED
    BY <2>1, <2>2, LegsOK DEF JourneyInv, LegOK
<1> QED
  BY <1>1 DEF RoundEnds, JourneyInv, OnlyProxiesHoldValue

\* Whoever ends Shuffle with a value sends it on in time, and a proxy with a
\* clean path from the value's meter has it by then.
LEMMA EchoReady ==
  ASSUME RoutesFit, JourneyInv, NEW m \in Meter, NEW paths, RoundEnds(m, paths),
         overlay_round[m] = PhaseLength
  PROVE  Ready(m, Kept(m, paths) \cup Echo(m, proxy_values'))
<1>1. PhaseLength \in Nat \ {0} /\ Contribution /\ Hears(m, paths)
  BY PhaseLengthPositive DEF JourneyInv, RoundEnds
<1>2. ASSUME NEW w \in Echo(m, proxy_values')
      PROVE  Due(m, w, overlay_round[m] + 1)
  <2>1. m \in proxy_values' /\ w \in routes[m]
    BY DEF Echo
  <2>2. m \in Range(proxies) /\ m \in Sources /\ m # meter_id
    BY <1>1, <2>1, NewValues, ProxiesAreOthers DEF Sources
  <2>3. PICK l \in Legs : Rest(l) = w /\ From(l) = m /\ Since(l) = Start(m)
    BY <1>1, <2>1, <2>2, FirstLeg
  <2>4. Since(l) = overlay_round[m] + 1 /\ Since(l) \in Nat /\ At(l) \in Since(l)..End(l.start)
    BY <1>1, <2>2, <2>3, LegsOK DEF Start, LegOK
  <2>5. overlay_round[m] + 1 \in Since(l)..At(l)
    BY <2>4
  <2> QED
    BY <2>3, <2>5 DEF Due
<1>3. ASSUME NEW l \in Legs, Clean(l), m = From(l), overlay_round[m] + 1 \in Since(l)..At(l)
      PROVE  Rest(l) \in Kept(m, paths) \cup Echo(m, proxy_values')
  <2>1. CASE Since(l) <= overlay_round[m] \/ l.hop # 1
    BY <1>1, <1>3, <2>1, KeptComplete
  <2>2. CASE ~ (Since(l) <= overlay_round[m]) /\ l.hop = 1
    <3>1. m = l.source /\ Since(l) = l.start /\ l.start = Start(m) /\ l.path \in routes[m]
          /\ m \in Sources /\ l.path \in Seq(Meter)
      BY <1>3, <2>2 DEF From, Since, Legs
    <3>2. m # meter_id
      BY <1>1, <2>2, <3>1 DEF Start
    <3>3. PICK path \in routes[meter_id] : Last(path) = m /\ Range(path) \cap crashed = {}
      BY <1>3, <3>1, <3>2 DEF Clean, CleanPath
    <3>4. PICK k \in Legs : IsLast(k) /\ To(k) = m /\ k.source = meter_id /\ k.path = path
      BY <1>1, <3>3, LastLeg DEF Sources
    <3>5. Clean(k)
      BY <1>3, <3>3, <3>4 DEF Clean
    <3>6. At(k) <= overlay_round[m]
      <4>1. k.start = 0 /\ Since(k) \in Nat /\ At(k) \in Since(k)..End(k.start)
        BY <1>1, <3>4, LegsOK DEF LegOK, Legs, Start
      <4> QED
        BY <1>1, <4>1 DEF End
    <3>7. m \in proxy_values'
      BY <3>4, <3>5, <3>6, ValuesThere
    <3>8. Rest(l) = l.path
      BY <2>2, <3>1, SubSeqFull DEF Rest
    <3> QED
      BY <3>1, <3>7, <3>8 DEF Echo
  <2> QED
    BY <2>1, <2>2
<1> QED
  BY <1>1, <1>2, <1>3, KeptDue, ValuesThere DEF Ready

\* The other ends of rounds: what is kept is all there is.
LEMMA KeptReady ==
  ASSUME RoutesFit, JourneyInv, NEW m \in Meter, NEW paths, RoundEnds(m, paths),
         overlay_round[m] \in Nat, overlay_round[m] # PhaseLength
  PROVE  Ready(m, Kept(m, paths))
<1>1. PhaseLength \in Nat \ {0} /\ Contribution /\ Hears(m, paths)
  BY PhaseLengthPositive DEF JourneyInv, RoundEnds
<1>2. ASSUME NEW l \in Legs, Clean(l), m = From(l), overlay_round[m] + 1 \in Since(l)..At(l)
      PROVE  Rest(l) \in Kept(m, paths)
  <2>1. CASE Since(l) <= overlay_round[m] \/ l.hop # 1
    BY <1>1, <1>2, <2>1, KeptComplete
  <2>2. CASE ~ (Since(l) <= overlay_round[m]) /\ l.hop = 1
    <3>1. Since(l) = l.start /\ l.start = Start(l.source)
      BY <1>2, <2>2 DEF Since, Legs
    <3>2. l.start \in {0, PhaseLength + 1}
      BY <1>1, LegOfRoute
    <3> QED
      BY <1>1, <1>2, <2>2, <3>1, <3>2
  <2> QED
    BY <2>1, <2>2
<1> QED
  BY <1>1, <1>2, KeptDue, ValuesThere DEF Ready

\* What is sent or kept is a path of meters.
LEMMA ReadyMessages ==
  ASSUME RoutesFit, JourneyInv, NEW m, NEW all, Ready(m, all)
  PROVE  all \in SUBSET Seq(Meter)
<1> SUFFICES ASSUME NEW w \in all PROVE w \in Seq(Meter)
  OBVIOUS
<1>1. PICK l \in Legs : w = Rest(l)
  BY DEF Ready, Due
<1>2. l.path \in Seq(Meter) /\ l.hop \in 1..Len(l.path)
  BY DEF Legs
<1> QED
  BY <1>1, <1>2, SubSeqProperties DEF Rest

\* Phases and rounds after a step, whatever it sends.
LEMMA GoesPhases ==
  ASSUME RoutesFit, JourneyInv, NEW m \in Meter, NEW all, Ready(m, all), Goes(m, all),
         overlay_round[m] \in -1..(2 * PhaseLength),
         \/ /\ UNCHANGED <<protocol_phase, echo_start_round>>
            /\ overlay_round[m] \in Nat \ {PhaseLength}
         \/ /\ protocol_phase' = [protocol_phase EXCEPT ![m] = "SHUFFLE"]
            /\ UNCHANGED echo_start_round
            /\ overlay_round[m] = -1
         \/ /\ protocol_phase' = [protocol_phase EXCEPT ![m] = "ECHO"]
            /\ echo_start_round' = [echo_start_round EXCEPT ![m] = PhaseLength]
            /\ overlay_round[m] = PhaseLength
  PROVE  Phases'
<1>1. PhaseLength \in Nat \ {0}
  BY PhaseLengthPositive
<1> DEFINE round == overlay_round[m] + 1
<1>2. /\ overlay_round'[m] = round
      /\ \A s \in Meter \ {m} : overlay_round'[s] = overlay_round[s]
  BY SendEffect DEF Goes
<1>3. overlay_round' = [overlay_round EXCEPT ![m] = round]
  BY DEF Goes, SendHeld, NextRound
<1>4. round \in 0..(2 * PhaseLength)
  BY <1>1 DEF Goes
<1>5. overlay_round' \in [Meter -> -1..(2 * PhaseLength)]
  BY <1>1, <1>3, <1>4 DEF JourneyInv, Phases
<1>6. waiting_messages' \in [Meter -> SUBSET Seq(Meter)]
  <2>1. all \in SUBSET Seq(Meter)
    BY ReadyMessages
  <2> QED
    BY <2>1 DEF Goes, SendHeld, JourneyInv, Phases
<1>7. /\ protocol_phase' \in [Meter -> {"IDLE", "SHUFFLE", "ECHO", "AGGREGATE"}]
      /\ echo_start_round' \in [Meter -> Nat]
  BY <1>1 DEF JourneyInv, Phases
<1>8. ASSUME NEW s \in Meter
      PROVE  /\ protocol_phase'[s] = "IDLE" => overlay_round'[s] = -1
             /\ protocol_phase'[s] = "SHUFFLE" => overlay_round'[s] \in 0..PhaseLength
             /\ protocol_phase'[s] = "ECHO" =>
                  /\ overlay_round'[s] \in (PhaseLength + 1)..(2 * PhaseLength)
                  /\ echo_start_round'[s] = PhaseLength
             /\ protocol_phase'[s] = "AGGREGATE" => overlay_round'[s] = 2 * PhaseLength
  <2>1. CASE s # m
    <3>1. /\ protocol_phase'[s] = protocol_phase[s] /\ overlay_round'[s] = overlay_round[s]
          /\ echo_start_round'[s] = echo_start_round[s]
      BY <1>2, <2>1 DEF JourneyInv, Phases
    <3> QED
      BY <3>1 DEF JourneyInv, Phases
  <2>2. CASE s = m /\ UNCHANGED <<protocol_phase, echo_start_round>>
             /\ overlay_round[m] \in Nat \ {PhaseLength}
    <3>1. /\ protocol_phase[m] # "AGGREGATE" /\ protocol_phase[m] # "IDLE"
      BY <2>2 DEF Goes, Stays, JourneyInv, Phases
    <3> QED
      BY <1>1, <1>2, <1>4, <2>2, <3>1 DEF JourneyInv, Phases
  <2>3. CASE s = m /\ protocol_phase' = [protocol_phase EXCEPT ![m] = "SHUFFLE"]
             /\ overlay_round[m] = -1
    <3>1. protocol_phase'[m] = "SHUFFLE" /\ overlay_round'[m] = 0
      BY <1>2, <2>3 DEF JourneyInv, Phases
    <3> QED
      BY <1>1, <2>3, <3>1
  <2>4. CASE s = m /\ protocol_phase' = [protocol_phase EXCEPT ![m] = "ECHO"]
             /\ echo_start_round' = [echo_start_round EXCEPT ![m] = PhaseLength]
             /\ overlay_round[m] = PhaseLength
    <3>1. /\ protocol_phase'[m] = "ECHO" /\ overlay_round'[m] = PhaseLength + 1
          /\ echo_start_round'[m] = PhaseLength
      BY <1>2, <2>4 DEF JourneyInv, Phases
    <3> QED
      BY <1>1, <2>4, <3>1
  <2> QED
    BY <2>1, <2>2, <2>3, <2>4
<1> QED
  BY <1>5, <1>6, <1>7, <1>8 DEF Phases

\* Every way in which a meter goes on keeps the invariant.
LEMMA GoesJourneyInv ==
  ASSUME RoutesFit, JourneyInv, NEW m \in Meter, NEW all, Ready(m, all), Goes(m, all), Phases',
         proxy_values' \subseteq Range(proxies)
  PROVE  JourneyInv'
<1>1. Batches' /\ OnSchedule' /\ Delivers'
  BY GoesBatches, GoesOnSchedule, GoesDelivers
<1>2. Contribution' /\ OnlyProxiesHoldValue'
  BY DEF JourneyInv, Goes, Stays, Contribution, contribution, Sources, OnlyProxiesHoldValue
<1> QED
  BY <1>1, <1>2 DEF JourneyInv

\* The end of a round keeps the invariant, whether the phase goes on, Echo starts
\* or Echo is over.
LEMMA RoundEndsJourneyInv ==
  ASSUME RoutesFit, JourneyInv, NEW m \in Meter, NEW paths, RoundEnds(m, paths)
  PROVE  JourneyInv'
<1>1. overlay_round[m] \in 0..(2 * PhaseLength) /\ PhaseLength \in Nat \ {0}
  BY RoundEndsHow, PhaseLengthPositive
<1>2. overlay_round[m] \in Nat /\ overlay_round[m] \in -1..(2 * PhaseLength)
  BY <1>1
<1>3. proxy_values' \subseteq Range(proxies)
  BY NewValues
<1>4. CASE /\ overlay_round[m] \notin {PhaseLength, 2 * PhaseLength}
           /\ Goes(m, Kept(m, paths))
           /\ UNCHANGED <<protocol_phase, echo_start_round>>
  <2>1. Ready(m, Kept(m, paths))
    BY <1>2, <1>4, KeptReady
  <2>2. Phases'
    BY <1>2, <1>4, <2>1, GoesPhases
  <2> QED
    BY <1>3, <1>4, <2>1, <2>2, GoesJourneyInv
<1>5. CASE /\ overlay_round[m] = PhaseLength
           /\ Goes(m, Kept(m, paths) \cup Echo(m, proxy_values'))
           /\ protocol_phase' = [protocol_phase EXCEPT ![m] = "ECHO"]
           /\ echo_start_round' = [echo_start_round EXCEPT ![m] = PhaseLength]
  <2> DEFINE all == Kept(m, paths) \cup Echo(m, proxy_values')
  <2>1. Ready(m, all)
    BY <1>5, EchoReady
  <2>2. Goes(m, all)
    BY <1>5
  <2> HIDE DEF all
  <2>3. Phases'
    BY <1>2, <1>5, <2>1, <2>2, GoesPhases
  <2> QED
    BY <1>3, <2>1, <2>2, <2>3, GoesJourneyInv
<1>6. CASE /\ Done(m, Kept(m, paths))
           /\ protocol_phase' = [protocol_phase EXCEPT ![m] = "AGGREGATE"]
           /\ UNCHANGED echo_start_round
  <2>1. overlay_round[m] # PhaseLength
    BY <1>1, <1>6 DEF Done
  <2>2. Ready(m, Kept(m, paths))
    BY <1>2, <2>1, KeptReady
  <2>3. Batches' /\ OnSchedule' /\ Delivers'
    BY <1>6, <2>2, DoneKeeps
  <2>4. Contribution' /\ OnlyProxiesHoldValue'
    BY <1>3, <1>6 DEF JourneyInv, Done, Stays, Contribution, contribution, Sources, OnlyProxiesHoldValue
  <2>5. Phases'
    <3>1. Kept(m, paths) \in SUBSET Seq(Meter)
      BY <2>2, ReadyMessages
    <3> QED
      BY <1>1, <1>6, <3>1 DEF Done, JourneyInv, Phases
  <2> QED
    BY <2>3, <2>4, <2>5 DEF JourneyInv
<1> QED
  BY <1>4, <1>5, <1>6, RoundEndsHow

\* So does the start of a query, which sends the value on all its paths.
LEMMA StartJourneyInv ==
  ASSUME RoutesFit, JourneyInv, NEW m \in Meter, start_query(m)
  PROVE  JourneyInv'
<1> DEFINE all == IF m = meter_id THEN routes[m] ELSE {}
<1>1. /\ protocol_phase[m] = "IDLE" /\ overlay_round[m] = -1
      /\ protocol_phase' = [protocol_phase EXCEPT ![m] = "SHUFFLE"]
      /\ SendHeld(m, all)
      /\ UNCHANGED <<contribution, routes, echo_start_round, proxy_values, crashed>>
  BY DEF start_query, Starts, JourneyInv, Phases
<1>2. PhaseLength \in Nat \ {0} /\ Contribution
  BY PhaseLengthPositive DEF JourneyInv
<1>3. Goes(m, all)
  <2>1. /\ protocol_phase'[m] = "SHUFFLE"
        /\ \A s \in Meter \ {m} : protocol_phase'[s] = protocol_phase[s]
    BY <1>1 DEF JourneyInv, Phases
  <2> QED
    BY <1>1, <1>2, <2>1 DEF Goes, Stays
<1>4. ASSUME NEW w \in all
      PROVE  Due(m, w, overlay_round[m] + 1)
  <2>1. m = meter_id /\ w \in routes[m] /\ m \in Sources
    BY <1>4 DEF Sources
  <2>2. PICK l \in Legs : Rest(l) = w /\ From(l) = m /\ Since(l) = Start(m)
    BY <1>2, <2>1, FirstLeg
  <2>3. Since(l) = 0 /\ At(l) \in 0..End(l.start)
    BY <1>2, <2>1, <2>2, LegsOK DEF LegOK, Start
  <2>4. overlay_round[m] + 1 \in Since(l)..At(l)
    BY <1>1, <2>3
  <2> QED
    BY <2>2, <2>4 DEF Due
<1>5. ASSUME NEW l \in Legs
      PROVE  /\ Since(l) \in Nat /\ At(l) \in Nat
             /\ m = From(l) /\ overlay_round[m] + 1 \in Since(l)..At(l) => Rest(l) \in all
  <2>1. Since(l) \in Nat /\ At(l) \in Since(l)..End(l.start)
    BY <1>2, LegsOK DEF LegOK
  <2>2. Since(l) \in Nat /\ At(l) \in Nat
    BY <2>1
  <2>3. ASSUME m = From(l), overlay_round[m] + 1 \in Since(l)..At(l)
        PROVE  Rest(l) \in all
    <3>1. Since(l) = 0
      BY <1>1, <2>2, <2>3
    <3>2. l.hop = 1
      <4>1. CASE l.hop # 1
        <5>1. LegBefore(l) \in Legs /\ Since(l) = At(LegBefore(l)) + 1
          BY <1>2, <4>1, LegsOK, LegsFollow DEF LegOK
        <5>2. Since(LegBefore(l)) \in Nat
              /\ At(LegBefore(l)) \in Since(LegBefore(l))..End(LegBefore(l).start)
          BY <1>2, <5>1, LegsOK DEF LegOK
        <5> QED
          BY <3>1, <5>1, <5>2
      <4> QED
        BY <4>1
    <3>3. /\ l.source = m /\ Start(m) = 0 /\ l.path \in routes[m] /\ l.path \in Seq(Meter)
      BY <2>3, <3>1, <3>2 DEF From, Since, Legs
    <3>4. m = meter_id
      BY <1>2, <3>3 DEF Start
    <3>5. Rest(l) = l.path
      BY <3>2, <3>3, SubSeqFull DEF Rest
    <3> QED
      BY <3>3, <3>4, <3>5
  <2> QED
    BY <2>2, <2>3
<1> HIDE DEF all
<1>6. Ready(m, all)
  BY <1>1, <1>4, <1>5 DEF Ready
<1>7. Phases'
  <2>1. overlay_round[m] \in -1..(2 * PhaseLength)
    BY DEF JourneyInv, Phases
  <2> QED
    BY <1>1, <1>3, <1>6, <2>1, GoesPhases
<1>8. proxy_values' \subseteq Range(proxies)
  BY <1>1 DEF JourneyInv, OnlyProxiesHoldValue
<1> QED
  BY <1>3, <1>6, <1>7, <1>8, GoesJourneyInv

\* Crashes leave fewer paths clean, and change nothing else.
LEMMA CrashJourneyInv ==
  ASSUME JourneyInv, NEW m \in Meter, Crash(m)
  PROVE  JourneyInv'
<1>1. /\ crashed \subseteq crashed'
      /\ UNCHANGED <<contribution, routes, protocol_phase, overlay_round, echo_start_round,
                     proxy_values, waiting_messages, net>>
  BY DEF Crash, Crashes
<1>2. Legs' = Legs /\ Sources' = Sources
  BY <1>1, LegsStay
<1>3. \A l \in Legs : Clean(l)' => Clean(l)
  BY <1>1 DEF Clean, CleanPath, contribution
<1>4. \A l \in Legs : Underway(l) => Underway(l)'
  BY <1>1 DEF Underway, Past
<1>5. Delivers'
  BY <1>2, <1>3, <1>4 DEF JourneyInv, Delivers
<1>6. Batches'
  <2>1. \A b \in net, s \in Meter : Target(s, b.round)' = Target(s, b.round)
    BY DEF Target, Hop
  <2> QED
    BY <1>1, <2>1 DEF JourneyInv, Batches
<1>7. OnSchedule'
  BY <1>1, <1>2 DEF JourneyInv, OnSchedule, Due
<1>8. Contribution' /\ Phases' /\ OnlyProxiesHoldValue'
  BY <1>1, <1>2 DEF JourneyInv, Contribution, contribution, Phases, OnlyProxiesHoldValue
<1> QED
  BY <1>5, <1>6, <1>7, <1>8 DEF JourneyInv

\* The invariant holds before the query.
LEMMA InitJourneyInv == RoutesFit /\ Init => JourneyInv
<1> SUFFICES ASSUME RoutesFit, Init PROVE JourneyInv
  OBVIOUS
<1>1. PhaseLength \in Nat \ {0}
  BY PhaseLengthPositive
<1>2. Contribution
  BY DEF Init, InitRounds, Contribution, Sources
<1>3. Phases /\ Batches /\ OnlyProxiesHoldValue
  BY <1>1 DEF Init, InitRounds, Phases, Batches, OnlyProxiesHoldValue
<1>4. OnSchedule
  BY DEF Init, InitRounds, OnSchedule
<1>5. ASSUME NEW l \in Legs PROVE Underway(l)
  <2>1. /\ From(l) \in Meter /\ To(l) \in Meter
        /\ Since(l) \in Nat /\ At(l) \in Since(l)..End(l.start)
    BY <1>2, LegsOK DEF LegOK
  <2>2. /\ overlay_round[From(l)] = -1 /\ overlay_round[To(l)] = -1
        /\ protocol_phase[To(l)] = "IDLE"
    BY <2>1 DEF Init, InitRounds
  <2> QED
    BY <2>1, <2>2 DEF Underway, Past
<1> QED
  BY <1>2, <1>3, <1>4, <1>5 DEF JourneyInv, Delivers

\* Every action keeps the invariant.
LEMMA StepJourneyInv == RoutesFit /\ JourneyInv /\ [Next]_vars => JourneyInv'
<1> SUFFICES ASSUME RoutesFit, JourneyInv, [Next]_vars PROVE JourneyInv'
  OBVIOUS
<1>1. ASSUME NEW m \in Meter, start_query(m) PROVE JourneyInv'
  BY <1>1, StartJourneyInv
<1>2. ASSUME NEW m \in Meter, NEW b \in net, handle_overlay_message(m, b) PROVE JourneyInv'
  BY <1>2, BatchHeard, RoundEndsJourneyInv
<1>3. ASSUME NEW m \in Meter, Skip(m) PROVE JourneyInv'
  BY <1>3, SkipHeard, RoundEndsJourneyInv
<1>4. ASSUME NEW m \in Meter, Crash(m) PROVE JourneyInv'
  BY <1>4, CrashJourneyInv
<1>5. CASE UNCHANGED vars
  <2>1. UNCHANGED <<contribution, routes, protocol_phase, overlay_round, echo_start_round,
                    proxy_values, waiting_messages, net, crashed>>
    BY <1>5 DEF vars
  <2>2. Legs' = Legs /\ Sources' = Sources
    BY <2>1, LegsStay
  <2>3. \A l \in Legs : (Clean(l)' => Clean(l)) /\ (Underway(l) => Underway(l)')
    BY <2>1 DEF Clean, CleanPath, contribution, Underway, Past
  <2>4. Delivers'
    BY <2>2, <2>3 DEF JourneyInv, Delivers
  <2>5. \A b \in net, s \in Meter : Target(s, b.round)' = Target(s, b.round)
    BY DEF Target, Hop
  <2>6. Batches' /\ OnSchedule'
    BY <2>1, <2>2, <2>5 DEF JourneyInv, Batches, OnSchedule, Due
  <2>7. Contribution' /\ Phases' /\ OnlyProxiesHoldValue'
    BY <2>1, <2>2 DEF JourneyInv, Contribution, contribution, Phases, OnlyProxiesHoldValue
  <2> QED
    BY <2>4, <2>6, <2>7 DEF JourneyInv
<1> QED
  BY <1>1, <1>2, <1>3, <1>4, <1>5 DEF Next, Step

----------------------------------------------------------------------------
(* Theorems. *)

\* Where paths fit their phases, a value ends up at its proxies and nowhere else,
\* whatever meters stop: the array of the other proxies that end_overlay_round_impl
\* fills (CtProtocolState.cpp:106-108) is never too small.
THEOREM ValuesStayWithProxies == RoutesFit => (Spec => []OnlyProxiesHoldValue)
<1> SUFFICES ASSUME RoutesFit PROVE Spec => []OnlyProxiesHoldValue
  OBVIOUS
<1>1. Init => JourneyInv
  BY InitJourneyInv
<1>2. JourneyInv /\ [Next]_vars => JourneyInv'
  BY StepJourneyInv
<1>3. JourneyInv => OnlyProxiesHoldValue
  BY DEF JourneyInv
<1> QED
  BY <1>1, <1>2, <1>3, PTL DEF Spec

\* What a clean path leads to gets the value, once it is past the round of the
\* last hop.
LEMMA CleanPathDelivers ==
  ASSUME RoutesFit, JourneyInv, meter_id \notin crashed,
         NEW m \in Sources, m = meter_id \/ CleanPath(meter_id, m),
         NEW path \in routes[m], Range(path) \cap crashed = {},
         overlay_round[Last(path)] > End(Start(m)) \/ protocol_phase[Last(path)] = "AGGREGATE"
  PROVE  Last(path) \in proxy_values
<1>1. Contribution
  BY DEF JourneyInv
<1>2. PICK l \in Legs : IsLast(l) /\ To(l) = Last(path) /\ l.source = m /\ l.path = path
  BY <1>1, LastLeg
<1>3. Clean(l)
  BY <1>2 DEF Clean
<1>4. /\ To(l) \in Meter /\ Since(l) \in Nat /\ At(l) \in Since(l)..End(l.start)
      /\ l.start = Start(m)
  BY <1>1, <1>2, LegsOK DEF LegOK, Legs
<1>5. End(Start(m)) \in Nat /\ overlay_round[To(l)] \in Int
  BY <1>4, PhaseLengthPositive DEF End, JourneyInv, Phases
<1>6. Past(To(l), At(l))
  BY <1>2, <1>4, <1>5 DEF Past
<1> QED
  BY <1>2, <1>3, <1>6 DEF JourneyInv, Delivers, Underway

\* Where paths fit their phases, the counted rounds of Shuffle and Echo are enough:
\* after Shuffle the proxies have the value, and after Echo no message waits.
THEOREM CountedRoundsAreEnough == RoutesFit => (Spec => []PhasesLongEnough)
<1> SUFFICES ASSUME RoutesFit PROVE Spec => []PhasesLongEnough
  OBVIOUS
<1>1. Init => JourneyInv
  BY InitJourneyInv
<1>2. JourneyInv /\ [Next]_vars => JourneyInv'
  BY StepJourneyInv
<1>3. JourneyInv => PhasesLongEnough
  <2> SUFFICES ASSUME JourneyInv, crashed = {}, NEW m \in Meter
               PROVE  /\ protocol_phase[m] \in {"ECHO", "AGGREGATE"} /\ m \in Range(proxies)
                           => m \in proxy_values
                      /\ protocol_phase[m] = "AGGREGATE" => waiting_messages[m] = {}
    BY DEF PhasesLongEnough
  <2>1. PhaseLength \in Nat \ {0} /\ Contribution
    BY PhaseLengthPositive DEF JourneyInv
  <2>2. ASSUME protocol_phase[m] \in {"ECHO", "AGGREGATE"}, m \in Range(proxies)
        PROVE  m \in proxy_values
    <3>1. PICK path \in routes[meter_id] : Last(path) = m
      <4>1. \E path \in Routes(meter_id, proxies) : Last(path) = m
        BY <2>1, <2>2 DEF RoutesFit, Contribution
      <4> QED
        BY <2>1, <4>1 DEF Contribution, Sources
    <3>2. overlay_round[m] > End(Start(meter_id)) \/ protocol_phase[m] = "AGGREGATE"
      BY <2>1, <2>2 DEF JourneyInv, Phases, End, Start
    <3> QED
      BY <3>1, <3>2, CleanPathDelivers DEF Sources
  <2>3. ASSUME protocol_phase[m] = "AGGREGATE", NEW w \in waiting_messages[m]
        PROVE  FALSE
    <3>1. overlay_round[m] = 2 * PhaseLength /\ Due(m, w, overlay_round[m] + 1)
      BY <2>3 DEF JourneyInv, Phases, OnSchedule
    <3>2. PICK l \in Legs : 2 * PhaseLength + 1 \in Since(l)..At(l)
      BY <3>1 DEF Due
    <3>3. Since(l) \in Nat /\ At(l) \in Since(l)..End(l.start)
      BY <2>1, LegsOK DEF LegOK
    <3>4. End(l.start) \in Nat /\ End(l.start) <= 2 * PhaseLength
      BY <2>1 DEF End
    <3> QED
      BY <2>1, <3>2, <3>3, <3>4
  <2> QED
    BY <2>2, <2>3
<1> QED
  BY <1>1, <1>2, <1>3, PTL DEF Spec

\* Where paths fit their phases, only a crash on the paths to it keeps a value
\* from a proxy, whatever else has stopped, and in whichever round.
THEOREM CleanPathsSuffice == RoutesFit => (Spec => []CleanPathsDeliver)
<1> SUFFICES ASSUME RoutesFit PROVE Spec => []CleanPathsDeliver
  OBVIOUS
<1>1. Init => JourneyInv
  BY InitJourneyInv
<1>2. JourneyInv /\ [Next]_vars => JourneyInv'
  BY StepJourneyInv
<1>3. JourneyInv => CleanPathsDeliver
  <2> SUFFICES ASSUME JourneyInv, Over, meter_id \notin crashed,
                      NEW p \in Range(proxies), NEW q \in Range(proxies),
                      CleanPath(meter_id, p), q = p \/ CleanPath(p, q)
               PROVE  q \in proxy_values
    BY DEF CleanPathsDeliver
  <2>1. Contribution /\ Range(proxies) \subseteq Meter
    BY ProxiesAreOthers DEF JourneyInv
  <2>2. ASSUME NEW m \in Sources, m = meter_id \/ CleanPath(meter_id, m),
               NEW r \in Range(proxies), CleanPath(m, r)
        PROVE  r \in proxy_values
    <3>1. PICK path \in routes[m] : Last(path) = r /\ Range(path) \cap crashed = {}
      BY <2>2 DEF CleanPath
    <3>2. PICK l \in Legs : IsLast(l) /\ To(l) = r /\ l.path = path
      BY <2>1, <3>1, LastLeg
    <3>3. r \in Range(path)
      BY <3>2 DEF To, Legs, Range
    <3>4. protocol_phase[r] = "AGGREGATE"
      BY <2>1, <3>1, <3>3 DEF Over
    <3> QED
      BY <2>2, <3>1, <3>4, CleanPathDelivers
  <2>3. CASE q = p
    BY <2>2, <2>3 DEF Sources
  <2>4. CASE CleanPath(p, q)
    BY <2>2, <2>4 DEF Sources
  <2> QED
    BY <2>3, <2>4
<1> QED
  BY <1>1, <1>2, <1>3, PTL DEF Spec

\* Whatever the overlay, the paths to a meter's proxies, or from a proxy to the
\* others, share no meter: find_paths finds "node-disjoint" paths, and no two
\* groups have a proxy in common.
THEOREM FoundDisjoint == RoutesDisjoint
<1> SUFFICES ASSUME NEW m \in Meter, NEW targets \in Proxies(m),
                    NEW g \in DOMAIN targets, NEW h \in DOMAIN targets, g # h,
                    NEW path \in Routes(m, targets), NEW other \in Routes(m, targets),
                    Last(path) = targets[g], Last(other) = targets[h]
             PROVE  Range(path) \cap Range(other) = {}
  BY DEF RoutesDisjoint
<1> DEFINE others == RemoveFirst(targets, m)
           start == IF others = targets THEN 0 ELSE PhaseLength + 1
           paths == find_paths(m, others, num_meters, start)
<1>1. num_meters \in Nat \ {0, 1} /\ m \in 0..(num_meters - 1) /\ Meter = 0..(num_meters - 1)
  BY RoundsAssumption DEF Meter
<1>2. /\ targets \in [1..num_aggregation_groups -> Meter] /\ num_aggregation_groups \in Nat \ {0}
      /\ \A i \in 1..num_aggregation_groups :
           targets[i] \in proxy_candidates(m, i - 1, num_aggregation_groups, num_meters)
  BY RoundsAssumption DEF Proxies, num_aggregation_groups
<1>3. targets \in Seq(Meter)
  BY <1>2
<1>4. \A i, j \in DOMAIN targets : i # j => targets[i] # targets[j]
  <2>1. ASSUME NEW i \in DOMAIN targets, NEW j \in DOMAIN targets, i < j
        PROVE  targets[i] # targets[j]
    <3>1. /\ i - 1 \in 0..(num_aggregation_groups - 1) /\ j - 1 \in 0..(num_aggregation_groups - 1)
          /\ i - 1 < j - 1
      BY <1>2, <2>1
    <3>2. m \in Int /\ targets[i] \in Int /\ targets[j] \in Int /\ num_meters \in Nat
      BY <1>1, <1>2
    <3>3. /\ targets[i] \in proxy_candidates(m, i - 1, num_aggregation_groups, num_meters)
          /\ targets[j] \in proxy_candidates(m, j - 1, num_aggregation_groups, num_meters)
      BY <1>2
    <3> DEFINE u == i - 1
               v == j - 1
    <3>4. /\ u \in 0..(num_aggregation_groups - 1) /\ v \in 0..(num_aggregation_groups - 1) /\ u < v
          /\ targets[i] \in proxy_candidates(m, u, num_aggregation_groups, num_meters)
          /\ targets[j] \in proxy_candidates(m, v, num_aggregation_groups, num_meters)
      BY <3>1, <3>3
    <3>5. num_aggregation_groups \in Nat \ {0}
      BY <1>2
    <3> HIDE DEF u, v, others, start, paths
    <3> QED
      BY ONLY <3>2, <3>4, <3>5, ProxiesDiffer
  <2>2. \A i, j \in DOMAIN targets : i # j => i < j \/ j < i
    BY <1>2
  <2> QED
    BY <2>1, <2>2
<1>5. start \in Nat
  BY PhaseLengthPositive
<1>6. path \in Range(paths) /\ other \in Range(paths)
  BY DEF Routes
<1>7. paths = find_paths(m, RemoveFirst(targets, m), num_meters, start)
  OBVIOUS
<1> HIDE DEF others, start, paths
<1>8. \A p, q \in Range(paths) :
        p # NoPath /\ q # NoPath /\ Last(p) # Last(q) => Range(p) \cap Range(q) = {}
  BY <1>1, <1>3, <1>4, <1>5, <1>7, PathsToOthers
<1>9. Last(path) # Last(other)
  BY <1>4
<1>10. Range(NoPath) = {}
  BY DEF NoPath, Range
<1> QED
  BY <1>6, <1>8, <1>9, <1>10

\* As the paths to the proxies are disjoint, as many crashes as tolerated
\* leave one of the FAILURES_TOLERATED + 1 paths, with the proxy at its end.
LEMMA SomePathIsClean ==
  ASSUME RoutesFit, Contribution,
         crashed \subseteq Meter, Cardinality(crashed) <= FAILURES_TOLERATED
  PROVE  \E p \in Range(proxies) : CleanPath(meter_id, p)
<1> SUFFICES ASSUME \A p \in Range(proxies) : ~ CleanPath(meter_id, p) PROVE FALSE
  OBVIOUS
<1> DEFINE groups == 1..num_aggregation_groups
<1>1. /\ proxies \in [groups -> Meter] /\ groups = 1..(FAILURES_TOLERATED + 1)
      /\ meter_id \in Meter /\ proxies \in Proxies(meter_id)
      /\ routes[meter_id] = Routes(meter_id, proxies)
  BY DEF Contribution, Proxies, num_aggregation_groups, Sources
<1>2. \A g \in groups : \E path \in routes[meter_id] : Last(path) = proxies[g]
  <2> SUFFICES ASSUME NEW g \in groups
               PROVE  \E path \in routes[meter_id] : Last(path) = proxies[g]
    OBVIOUS
  <2>1. proxies[g] \in Range(proxies)
    BY <1>1 DEF Range
  <2>2. \A p \in Range(proxies) : \E path \in Routes(meter_id, proxies) : Last(path) = p
    BY <1>1 DEF RoutesFit
  <2> QED
    BY <1>1, <2>1, <2>2
<1> DEFINE path(g) == CHOOSE r \in routes[meter_id] : Last(r) = proxies[g]
           stopped(g) == CHOOSE m : m \in Range(path(g)) \cap crashed
<1>3. \A g \in groups : path(g) \in routes[meter_id] /\ Last(path(g)) = proxies[g]
  BY <1>2
<1>4. \A g \in groups : Range(path(g)) \cap crashed # {}
  BY <1>1, <1>3 DEF CleanPath, Range
<1>5. \A g \in groups : stopped(g) \in Range(path(g)) \cap crashed
  BY <1>4
<1> HIDE DEF path, stopped
<1>6. \A g, h \in groups : stopped(g) = stopped(h) => g = h
  <2> SUFFICES ASSUME NEW g \in groups, NEW h \in groups, g # h,
                      stopped(g) = stopped(h)
               PROVE  FALSE
    OBVIOUS
  <2>1. \A i, j \in DOMAIN proxies : \A r, other \in Routes(meter_id, proxies) :
          i # j /\ Last(r) = proxies[i] /\ Last(other) = proxies[j]
            => Range(r) \cap Range(other) = {}
    BY <1>1, FoundDisjoint DEF RoutesDisjoint
  <2>2. g \in DOMAIN proxies /\ h \in DOMAIN proxies
    BY <1>1
  <2>3. Range(path(g)) \cap Range(path(h)) = {}
    BY <1>1, <1>3, <2>1, <2>2
  <2> QED
    BY <1>5, <2>3
<1>7. IsFiniteSet(crashed)
  <2>1. IsFiniteSet(Meter)
    BY RoundsAssumption, FS_Interval DEF Meter
  <2> QED
    BY <2>1, FS_Subset
<1>8. [g \in groups |-> stopped(g)] \in Injection(groups, crashed)
  BY <1>5, <1>6 DEF Injection, IsInjective
<1>9. Cardinality(groups) <= Cardinality(crashed)
  BY <1>7, <1>8, FS_Injection
<1>10. Cardinality(groups) = FAILURES_TOLERATED + 1
  BY <1>1, FS_Interval, RoundsAssumption
<1>11. Cardinality(crashed) \in Nat
  BY <1>7, FS_CardinalityType
<1> QED
  BY <1>9, <1>10, <1>11, RoundsAssumption

\* So the value of a live meter survives them.
THEOREM ValuesSurvive == RoutesFit => (Spec => []ValueSurvives)
<1> SUFFICES ASSUME RoutesFit PROVE Spec => []ValueSurvives
  OBVIOUS
<1> DEFINE Inv == JourneyInv /\ crashed \subseteq Meter
<1>1. Init => Inv
  BY InitJourneyInv DEF Init, InitRounds
<1>2. Inv /\ [Next]_vars => Inv'
  <2> SUFFICES ASSUME Inv, [Next]_vars PROVE crashed' \subseteq Meter
    BY StepJourneyInv
  <2> QED
    BY DEF Next, Step, vars, Crash, Crashes, start_query, handle_overlay_message, Skip
<1>3. Inv => ValueSurvives
  <2> SUFFICES ASSUME Inv, Over, meter_id \notin crashed,
                      Cardinality(crashed) <= FAILURES_TOLERATED
               PROVE  \E p \in Range(proxies) \ crashed : p \in proxy_values
    BY DEF ValueSurvives
  <2>1. Contribution /\ Range(proxies) \subseteq Meter
    BY ProxiesAreOthers DEF JourneyInv
  <2>2. PICK p \in Range(proxies) : CleanPath(meter_id, p)
    BY <2>1, SomePathIsClean
  <2>3. PICK path \in routes[meter_id] : Last(path) = p /\ Range(path) \cap crashed = {}
    BY <2>2 DEF CleanPath
  <2>4. PICK l \in Legs : IsLast(l) /\ To(l) = p /\ l.path = path
    BY <2>1, <2>3, LastLeg DEF Sources
  <2>5. p \notin crashed
    BY <2>3, <2>4 DEF To, Legs, Range
  <2>6. protocol_phase[p] = "AGGREGATE"
    BY <2>1, <2>5 DEF Over
  <2>7. p \in proxy_values
    BY <2>3, <2>6, CleanPathDelivers DEF Sources
  <2> QED
    BY <2>5, <2>7
<1> QED
  BY <1>1, <1>2, <1>3, PTL DEF Spec


=============================================================================
