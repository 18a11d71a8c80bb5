------------------------------ MODULE BftProtocol ------------------------------
(***************************************************************************)
(* The protocol that tolerates arbitrary failures (BftProtocolState.cpp)   *)
(* with the two phases of Crusader agreement (CrusaderAgreementState.cpp), *)
(* among the proxies of one group of values: each value is shuffled to     *)
(* them with the utility's signature, they sign it for each other, and     *)
(* pass on the signatures of what they accept.                             *)
(*                                                                         *)
(* All meters count the same rounds, and leave a phase when their messages *)
(* have had the rounds to travel: what was sent in one phase has arrived   *)
(* before the receiver ends it, unless a failed meter was on its path.     *)
(* Paths from one meter share no relay (PathFinder), so that a failed one  *)
(* costs every multicast one message at most, but it may cost each one.    *)
(*                                                                         *)
(* Assumption: every signature in a message is genuine.  A faulty proxy    *)
(* signs and sends what it likes, with its own signatures and any that it  *)
(* has received, one or several in a message.  handle_phase_1_message      *)
(* verifies only the first entry of a message's signatures, though it can  *)
(* keep them all; what it would make of an entry that is not genuine is    *)
(* outside the model, and no property here says anything about it.         *)
(*                                                                         *)
(* An operator marked "fault" is what a slip in the code would make of the *)
(* definition it precedes.                                                 *)
(***************************************************************************)
EXTENDS Integers, FiniteSets

CONSTANTS
  Proxy,               \* the proxies the values name, one in each group
  Value,               \* contributions, whether their owner sent them or not
  FAILURES_TOLERATED,
  MaxFaulty,           \* bound: faulty proxies
  MaxRelays            \* bound: failed meters on paths

ASSUME BftAssumption ==
  /\ IsFiniteSet(Proxy)
  /\ FAILURES_TOLERATED \in Nat
  /\ MaxFaulty \in Nat
  /\ MaxRelays \in Nat

\* BftProtocolState::init_failures_tolerated makes them equal.
log2n == FAILURES_TOLERATED

VARIABLES
  faulty,               \* proxies that follow no protocol
  failed_relays,        \* the number of failed meters that are no proxies
  signed,               \* the values with the utility's signature
  setup,                \* those whose owners still wait for SignatureResponse
  protocol_phase,
  phase_1_finished,
  proxy_values,
  signed_proxy_values,  \* the signers of each value that a proxy knows of
  accepted_phase_1,     \* history: what was accepted in finish_phase_1
  accepted_proxy_values,
  net                   \* messages between correct proxies, and from owners

failures == <<faulty, failed_relays, signed>>
vars == <<failures, setup, protocol_phase, phase_1_finished, proxy_values,
          signed_proxy_values, accepted_phase_1, accepted_proxy_values, net>>

Correct == Proxy \ faulty

Init ==
  /\ faulty \in SUBSET Proxy
  /\ failed_relays \in 0..MaxRelays
  /\ Cardinality(faulty) <= MaxFaulty
  /\ Cardinality(faulty) + failed_relays <= FAILURES_TOLERATED
  /\ signed \in SUBSET Value
  /\ setup = signed
  /\ protocol_phase = [p \in Proxy |-> "SHUFFLE"]
  /\ phase_1_finished = [p \in Proxy |-> FALSE]
  /\ proxy_values = [p \in Proxy |-> {}]
  /\ signed_proxy_values = [p \in Proxy |-> [v \in Value |-> {}]]
  /\ accepted_phase_1 = [p \in Proxy |-> {}]
  /\ accepted_proxy_values = [p \in Proxy |-> {}]
  /\ net = {}

----------------------------------------------------------------------------
(* Messages. *)

Contribution(p, v) == [type |-> "ValueContribution", to |-> p, value |-> v]
\* first: the entry of the map of signatures that its iteration begins with.
SignedValue(p, v, signers, first) ==
  [type |-> "SignedValue", to |-> p, value |-> v, signers |-> signers, first |-> first]
AgreementValue(p, v, signers, accepter) ==
  [type |-> "AgreementValue", to |-> p, value |-> v, signers |-> signers, accepter |-> accepter]

\* Multicasts of values.  Of each, every failed meter loses one message at most.
Multicast(messages) ==
  \E dropped \in SUBSET messages :
    /\ \A v \in Value : Cardinality({m \in dropped : m.value = v}) <= failed_relays
    /\ net' = net \cup {m \in messages \ dropped : m.to \notin faulty}

\* The number of a phase; agreement has two.
Stage(p) ==
  CASE protocol_phase[p] = "SHUFFLE" -> 0
    [] protocol_phase[p] = "AGREEMENT" -> IF phase_1_finished[p] THEN 2 ELSE 1
    [] protocol_phase[p] = "AGGREGATE" -> 3

SentIn(m) ==
  IF m.type = "ValueContribution" THEN 0 ELSE IF m.type = "SignedValue" THEN 1 ELSE 2

\* All the messages of p's phase are sent.
AllSent(p) == setup = {} /\ \A q \in Correct : Stage(q) >= Stage(p)

\* What p has not handled of its phase's messages.  Those of correct proxies only
\* add to sets that are not read before the phase ends, so their order is of no
\* account and they are handled together.
Arrived(p) == {m \in net : AllSent(p) /\ m.to = p /\ SentIn(m) = Stage(p)}

\* The rounds of p's phase are over: all that was sent in it has arrived.
PhaseOver(p) == AllSent(p) /\ Arrived(p) = {}

----------------------------------------------------------------------------
(* Shuffle. *)

\* The owner of v has the utility's signature and sends v to its proxies.
handle_signature_response(v) ==
  /\ setup' = setup \ {v}
  /\ Multicast({Contribution(p, v) : p \in Proxy})
  /\ UNCHANGED <<failures, protocol_phase, phase_1_finished, proxy_values,
                 signed_proxy_values, accepted_phase_1, accepted_proxy_values>>

\* A contribution without the utility's signature would be dropped.
handle_shuffle_phase_message(p) ==
  /\ Stage(p) = 0 /\ Arrived(p) # {}
  /\ net' = net \ Arrived(p)
  /\ proxy_values' = [proxy_values EXCEPT ![p] = @ \cup ({m.value : m \in Arrived(p)} \cap signed)]
  /\ UNCHANGED <<failures, setup, protocol_phase, phase_1_finished,
                 signed_proxy_values, accepted_phase_1, accepted_proxy_values>>

\* The end of Shuffle: p signs what it holds, for the other proxies only.
EndShuffle(p) ==
  /\ protocol_phase[p] = "SHUFFLE"
  /\ PhaseOver(p)
  /\ protocol_phase' = [protocol_phase EXCEPT ![p] = "AGREEMENT"]
  /\ Multicast({SignedValue(q, v, {p}, p) : q \in Proxy \ {p}, v \in proxy_values[p]})
  /\ UNCHANGED <<failures, setup, phase_1_finished, proxy_values,
                 signed_proxy_values, accepted_phase_1, accepted_proxy_values>>

----------------------------------------------------------------------------
(* Crusader agreement. *)

\* "The sender's signature doesn't count towards receiving at least t
\* signatures" (CrusaderAgreementState.cpp:131).
EnoughOthers(m) == Cardinality(m.signers \ {m.accepter}) >= log2n

\* The first message of a value that has no signatures yet is kept with all of
\* its own; of a later one the first signature is added.
handle_phase_1_message(m, known) ==
  IF m.signers = {} THEN {} ELSE IF known = {} THEN m.signers ELSE {m.first}

AccepterOnly(m) ==  \* fault: keeps the signature on the message, not those in it
  IF EnoughOthers(m) THEN {m.accepter} ELSE {}

handle_phase_2_message(m) == IF EnoughOthers(m) THEN m.signers ELSE {}

\* The signatures that m adds to those known of its value.
handle_message(m, known) ==
  IF m.type = "SignedValue" THEN handle_phase_1_message(m, known) ELSE handle_phase_2_message(m)

Handle(p, messages) ==
  /\ Stage(p) \in {1, 2} /\ messages # {}
  /\ signed_proxy_values' = [signed_proxy_values EXCEPT ![p] = [v \in Value |->
       @[v] \cup UNION {handle_message(m, @[v]) : m \in {n \in messages : n.value = v}}]]
  /\ UNCHANGED <<failures, setup, protocol_phase, phase_1_finished, proxy_values,
                 accepted_phase_1, accepted_proxy_values>>

handle_agreement_phase_message(p) ==
  /\ Handle(p, Arrived(p))
  /\ net' = net \ Arrived(p)

\* The signatures of v that faulty proxies can have: their own, and those of
\* the proxies that sent them theirs.
Known(v) ==
  faulty \cup {q \in Correct : protocol_phase[q] # "SHUFFLE" /\ v \in proxy_values[q]}

\* What a faulty proxy makes up: messages of either phase in each of them, with
\* any of the signatures that it has, before the others of the phase or after.
HandleFaulty(p) ==
  /\ AllSent(p)
  /\ \E q \in faulty, v \in Value : \E signers \in SUBSET Known(v) :
       \/ \E first \in signers : Handle(p, {SignedValue(p, v, signers, first)})
       \/ Handle(p, {AgreementValue(p, v, signers, q)})
  /\ signed_proxy_values' # signed_proxy_values  \* else nothing happens
  /\ UNCHANGED net

AcceptableWithT(p) ==  \* fault: one signature less
  {v \in Value : Cardinality(signed_proxy_values[p][v]) >= log2n}

AcceptableAbove(p) ==  \* fault: one more
  {v \in Value : Cardinality(signed_proxy_values[p][v]) > log2n + 1}

\* "Accept the value if it has enough distinct signatures" (line 63).
Acceptable(p) ==
  {v \in Value : Cardinality(signed_proxy_values[p][v]) >= log2n + 1}

finish_phase_1(p) ==
  /\ protocol_phase[p] = "AGREEMENT" /\ ~ phase_1_finished[p]
  /\ PhaseOver(p)
  /\ phase_1_finished' = [phase_1_finished EXCEPT ![p] = TRUE]
  /\ accepted_phase_1' = [accepted_phase_1 EXCEPT ![p] = Acceptable(p)]
  /\ Multicast({AgreementValue(q, v, signed_proxy_values[p][v], p) :
                  q \in Proxy \ {p}, v \in Acceptable(p)})
  /\ UNCHANGED <<failures, setup, protocol_phase, proxy_values,
                 signed_proxy_values, accepted_proxy_values>>

finish_phase_2(p) ==
  /\ protocol_phase[p] = "AGREEMENT" /\ phase_1_finished[p]
  /\ PhaseOver(p)
  /\ protocol_phase' = [protocol_phase EXCEPT ![p] = "AGGREGATE"]
  /\ accepted_proxy_values' = [accepted_proxy_values EXCEPT ![p] = Acceptable(p)]
  /\ UNCHANGED <<failures, setup, phase_1_finished, proxy_values,
                 signed_proxy_values, accepted_phase_1, net>>

Step(p) ==
  \/ handle_shuffle_phase_message(p)
  \/ handle_agreement_phase_message(p)
  \/ HandleFaulty(p)
  \/ EndShuffle(p)
  \/ finish_phase_1(p)
  \/ finish_phase_2(p)

Over == \A p \in Correct : protocol_phase[p] = "AGGREGATE"

Next ==
  \/ \E v \in setup : handle_signature_response(v)
  \/ \E p \in Correct : Step(p)
  \/ Over /\ UNCHANGED vars

Spec == Init /\ [][Next]_vars

----------------------------------------------------------------------------
(* Properties. *)

\* No value is accepted that no correct proxy got with the utility's signature:
\* while the signatures in messages are genuine, neither those of all the faulty
\* proxies nor any that are passed on make up log2n + 1.
AcceptedWasShuffled ==
  \A p \in Correct : \A v \in accepted_proxy_values[p] :
    \E q \in Correct : v \in proxy_values[q]

\* What one correct proxy accepts in phase 1 all of them accept in the end, but
\* for those that its accept message did not reach; itself it never gives it up.
AcceptanceSpreads ==
  Over => \A p \in Correct : \A v \in accepted_phase_1[p] :
    /\ v \in accepted_proxy_values[p]
    /\ Cardinality({q \in Correct : v \notin accepted_proxy_values[q]}) <= failed_relays

\* Where no meter on the paths has failed, and log2n + 2 proxies are correct, each
\* of these accepts every value with the utility's signature, whatever the faulty
\* ones send or keep to themselves.  It takes one more than the threshold of
\* Acceptable: a proxy does not count its own signature, which it sends to the
\* others only (BftProtocolState.cpp:119-127).
EnoughCorrectAccept ==
  Over /\ failed_relays = 0 /\ Cardinality(Correct) >= log2n + 2 =>
    \A p \in Correct : signed \subseteq accepted_proxy_values[p]

=============================================================================
