--------------------------- MODULE BftProtocolProofs ---------------------------
(***************************************************************************)
(* For any number of proxies and values: what a correct proxy accepts, some *)
(* correct proxy got with the utility's signature.  The invariant follows   *)
(* every signature, wherever it is, back to its signer: it is that of a     *)
(* faulty proxy or of one that holds the value, and log2n + 1 of them are   *)
(* more than the faulty proxies have.  What one accepts spreads, and if no  *)
(* message is lost, enough correct proxies accept all that was signed.      *)
(***************************************************************************)
EXTENDS BftProtocol, FiniteSetTheorems, TLAPS

\* The proxies that may have signed v.
Vouched(v) == faulty \cup {q \in Correct : v \in proxy_values[q]}

TypeInv ==
  /\ faulty \subseteq Proxy
  /\ Cardinality(faulty) <= FAILURES_TOLERATED
  /\ proxy_values \in [Proxy -> SUBSET Value]
  /\ signed_proxy_values \in [Proxy -> [Value -> SUBSET Proxy]]
  /\ accepted_proxy_values \in [Proxy -> SUBSET Value]
  /\ setup \subseteq Value

\* The signatures that a message of the agreement carries.
Signers(m) == IF m.type = "SignedValue" THEN m.signers \cup {m.first} ELSE m.signers

MessageOK(m) ==
  /\ m.type \in {"ValueContribution", "SignedValue", "AgreementValue"}
  /\ m.value \in Value
  /\ m.type # "ValueContribution" => Signers(m) \subseteq Vouched(m.value)

SignaturesVouched ==
  \A p \in Proxy, v \in Value : signed_proxy_values[p][v] \subseteq Vouched(v)

MessagesOK == \A m \in net : MessageOK(m)

IInv == TypeInv /\ SignaturesVouched /\ MessagesOK /\ AcceptedWasShuffled

\* More signatures than faulty proxies include that of a correct one.
LEMMA SomeCorrectSigner ==
  ASSUME TypeInv, SignaturesVouched, NEW p \in Proxy, NEW v \in Acceptable(p)
  PROVE  \E q \in Correct : v \in proxy_values[q]
<1>1. SUFFICES ASSUME ~ \E q \in Correct : v \in proxy_values[q]
               PROVE  FALSE
  OBVIOUS
<1>2. signed_proxy_values[p][v] \subseteq faulty
  BY <1>1 DEF SignaturesVouched, Vouched, Acceptable
<1>3. IsFiniteSet(faulty)
  BY FS_Subset, BftAssumption DEF TypeInv
<1>4. /\ Cardinality(signed_proxy_values[p][v]) <= Cardinality(faulty)
      /\ IsFiniteSet(signed_proxy_values[p][v])
  BY <1>2, <1>3, FS_Subset
<1>5. /\ Cardinality(signed_proxy_values[p][v]) \in Nat
      /\ Cardinality(faulty) \in Nat
  BY <1>3, <1>4, FS_CardinalityType
<1>6. Cardinality(signed_proxy_values[p][v]) >= FAILURES_TOLERATED + 1
  BY DEF Acceptable, log2n
<1> QED
  BY <1>4, <1>5, <1>6, BftAssumption DEF TypeInv

\* What a step leaves valid when proxies only gain values.
LEMMA VouchedGrows ==
  ASSUME faulty' = faulty,
         \A q \in Proxy : proxy_values[q] \subseteq proxy_values'[q]
  PROVE  \A v : Vouched(v) \subseteq Vouched(v)'
BY DEF Vouched, Correct

\* Messages stay possible while faulty proxies do not change and the values that
\* vouch for signatures grow.
LEMMA MessagesStayOK ==
  ASSUME MessagesOK, \A v : Vouched(v) \subseteq Vouched(v)', NEW m \in net
  PROVE  MessageOK(m)'
<1>1. MessageOK(m)
  BY DEF MessagesOK
<1>2. Signers(m)' = Signers(m)
  BY DEF Signers
<1> QED
  BY <1>1, <1>2 DEF MessageOK

\* A multicast puts nothing else than its messages in the network.
LEMMA MulticastKeepsMessages ==
  ASSUME MessagesOK, \A v : Vouched(v) \subseteq Vouched(v)',
         NEW messages, Multicast(messages), \A m \in messages : MessageOK(m)
  PROVE  MessagesOK'
<1>1. \A m \in net' : m \in net \/ m \in messages
  BY DEF Multicast
<1>2. \A m \in messages : MessageOK(m)'
  <2>1. \A m : Signers(m)' = Signers(m)
    BY DEF Signers
  <2> QED
    BY <2>1 DEF MessageOK
<1> QED
  BY <1>1, <1>2, MessagesStayOK DEF MessagesOK

\* Handling messages adds signatures that they carry, and nothing else.
LEMMA HandleKeepsSignatures ==
  ASSUME TypeInv, SignaturesVouched, NEW p \in Proxy, NEW messages,
         \A m \in messages : /\ m.type \in {"SignedValue", "AgreementValue"}
                             /\ m.value \in Value
                             /\ Signers(m) \subseteq Vouched(m.value),
         Handle(p, messages)
  PROVE  TypeInv' /\ SignaturesVouched'
<1>1. UNCHANGED <<faulty, setup, proxy_values, accepted_proxy_values>>
  BY DEF Handle, failures
<1>2. \A known : \A m \in messages : handle_message(m, known) \subseteq Vouched(m.value)
  BY DEF handle_message, handle_phase_1_message, handle_phase_2_message, Signers
<1>3. \A v \in Value : Vouched(v) \subseteq Proxy
  BY DEF Vouched, TypeInv, Correct
<1> DEFINE added(v) == UNION {handle_message(m, signed_proxy_values[p][v]) :
                             m \in {n \in messages : n.value = v}}
<1>4. \A v \in Value : added(v) \subseteq Vouched(v)
  BY <1>2
<1>5. signed_proxy_values' =
        [signed_proxy_values EXCEPT ![p] = [v \in Value |-> @[v] \cup added(v)]]
  BY DEF Handle
<1> HIDE DEF added
<1>6. \A v \in Value : signed_proxy_values'[p][v] = signed_proxy_values[p][v] \cup added(v)
  BY <1>5 DEF TypeInv
<1>7. \A q \in Proxy : q # p => signed_proxy_values'[q] = signed_proxy_values[q]
  BY <1>5 DEF TypeInv
<1>8. TypeInv'
  <2>1. [v \in Value |-> signed_proxy_values[p][v] \cup added(v)] \in [Value -> SUBSET Proxy]
    BY <1>3, <1>4 DEF TypeInv
  <2>2. signed_proxy_values' \in [Proxy -> [Value -> SUBSET Proxy]]
    BY <2>1, <1>5 DEF TypeInv
  <2> QED
    BY <1>1, <2>2 DEF TypeInv
<1>9. SignaturesVouched'
  BY <1>1, <1>4, <1>6, <1>7 DEF SignaturesVouched, Vouched, Correct
<1> QED
  BY <1>8, <1>9

\* The faulty proxies know signatures only of proxies that gave them theirs.
LEMMA KnownVouched == \A v : Known(v) \subseteq Vouched(v)
BY DEF Known, Vouched

\* Nobody has signed or accepted anything at the start.
LEMMA InitIInv == Init => IInv
<1> SUFFICES ASSUME Init PROVE IInv
  OBVIOUS
<1>1. faulty \subseteq Proxy /\ IsFiniteSet(faulty)
  BY FS_Subset, BftAssumption DEF Init
<1>2. Cardinality(faulty) <= FAILURES_TOLERATED
  BY <1>1, FS_CardinalityType, BftAssumption DEF Init
<1>3. TypeInv
  BY <1>1, <1>2 DEF Init, TypeInv
<1> QED
  BY <1>3 DEF Init, IInv, SignaturesVouched, MessagesOK, AcceptedWasShuffled

\* What every step needs: faulty proxies stay what they are, and proxies keep
\* the values they hold.
LEMMA StepGrows ==
  ASSUME TypeInv, [Next]_vars
  PROVE  /\ UNCHANGED failures
         /\ \A q \in Proxy : proxy_values[q] \subseteq proxy_values'[q]
<1>1. CASE UNCHANGED vars
  BY <1>1 DEF vars, failures
<1>2. ASSUME NEW v \in setup, handle_signature_response(v) PROVE UNCHANGED <<failures, proxy_values>>
  BY <1>2 DEF handle_signature_response
<1>3. ASSUME NEW p \in Correct, Step(p)
      PROVE  /\ UNCHANGED failures
             /\ \A q \in Proxy : proxy_values[q] \subseteq proxy_values'[q]
  <2>1. CASE handle_shuffle_phase_message(p)
    BY <2>1 DEF handle_shuffle_phase_message, TypeInv
  <2>2. CASE ~ handle_shuffle_phase_message(p)
    BY <1>3, <2>2 DEF Step, handle_agreement_phase_message, Handle, HandleFaulty,
       EndShuffle, finish_phase_1, finish_phase_2
  <2> QED
    BY <2>1, <2>2
<1> QED
  BY <1>1, <1>2, <1>3 DEF Next, failures, vars

\* Every action preserves where signatures come from.
LEMMA StepIInv == IInv /\ [Next]_vars => IInv'
<1> SUFFICES ASSUME IInv, [Next]_vars PROVE IInv'
  OBVIOUS
<1>i. TypeInv /\ SignaturesVouched /\ MessagesOK /\ AcceptedWasShuffled
  BY DEF IInv
<1>g. /\ UNCHANGED failures
      /\ \A q \in Proxy : proxy_values[q] \subseteq proxy_values'[q]
  BY <1>i, StepGrows
<1>v. \A v : Vouched(v) \subseteq Vouched(v)'
  BY <1>g, VouchedGrows DEF failures
<1>a. UNCHANGED accepted_proxy_values => AcceptedWasShuffled'
  BY <1>i, <1>g DEF AcceptedWasShuffled, TypeInv, failures, Correct
<1>s. UNCHANGED signed_proxy_values => SignaturesVouched'
  BY <1>i, <1>v DEF SignaturesVouched
<1>m. net' \subseteq net => MessagesOK'
  BY <1>i, <1>v, MessagesStayOK DEF MessagesOK
<1>1. CASE UNCHANGED vars
  <2>1. TypeInv'
    BY <1>1, <1>i DEF TypeInv, vars, failures
  <2> QED
    BY <1>1, <2>1, <1>a, <1>s, <1>m DEF IInv, vars
<1>2. ASSUME NEW v \in setup, handle_signature_response(v) PROVE IInv'
  <2>1. TypeInv'
    BY <1>2, <1>i DEF handle_signature_response, TypeInv, failures
  <2>2. \A m \in {Contribution(p, v) : p \in Proxy} : MessageOK(m)
    BY <1>i DEF Contribution, MessageOK, TypeInv
  <2>3. MessagesOK'
    BY <1>2, <2>2, <1>i, <1>v, MulticastKeepsMessages DEF handle_signature_response
  <2> QED
    BY <1>2, <2>1, <2>3, <1>a, <1>s DEF IInv, handle_signature_response
<1>3. ASSUME NEW p \in Correct, Step(p) PROVE IInv'
  <2>p. p \in Proxy
    BY DEF Correct
  <2>1. CASE handle_shuffle_phase_message(p)
    <3>. DEFINE values == {m.value : m \in Arrived(p)} \cap signed
    <3>a. values \subseteq Value
      BY <1>i DEF Arrived, MessagesOK, MessageOK
    <3>b. proxy_values' = [proxy_values EXCEPT ![p] = @ \cup values]
      BY <2>1 DEF handle_shuffle_phase_message
    <3>. HIDE DEF values
    <3>1. proxy_values' \in [Proxy -> SUBSET Value]
      BY <3>a, <3>b, <1>i DEF TypeInv
    <3>2. TypeInv'
      BY <2>1, <3>1, <1>i DEF handle_shuffle_phase_message, TypeInv, failures
    <3> QED
      BY <2>1, <3>2, <1>a, <1>s, <1>m DEF IInv, handle_shuffle_phase_message
  <2>2. CASE handle_agreement_phase_message(p)
    <3>1. Handle(p, Arrived(p)) /\ net' = net \ Arrived(p)
      BY <2>2 DEF handle_agreement_phase_message
    <3>2. \A m \in Arrived(p) : m.type # "ValueContribution"
      BY <3>1 DEF Handle, Arrived, SentIn
    <3>3. \A m \in Arrived(p) : /\ m.type \in {"SignedValue", "AgreementValue"}
                                /\ m.value \in Value
                                /\ Signers(m) \subseteq Vouched(m.value)
      BY <3>2, <1>i DEF Arrived, MessagesOK, MessageOK
    <3>4. TypeInv' /\ SignaturesVouched'
      BY <3>1, <3>3, <1>i, <2>p, HandleKeepsSignatures
    <3> QED
      BY <3>1, <3>4, <1>a, <1>m DEF IInv, Handle
  <2>3. CASE HandleFaulty(p)
    <3>1. PICK q \in faulty, v \in Value : \E signers \in SUBSET Known(v) :
            \/ \E first \in signers : Handle(p, {SignedValue(p, v, signers, first)})
            \/ Handle(p, {AgreementValue(p, v, signers, q)})
      BY <2>3 DEF HandleFaulty
    <3>s. PICK signers \in SUBSET Known(v) :
            \/ \E first \in signers : Handle(p, {SignedValue(p, v, signers, first)})
            \/ Handle(p, {AgreementValue(p, v, signers, q)})
      BY <3>1
    <3>2. signers \subseteq Vouched(v)
      BY KnownVouched
    <3>3. \A first \in signers : \A m \in {SignedValue(p, v, signers, first)} :
            /\ m.type \in {"SignedValue", "AgreementValue"}
            /\ m.value \in Value
            /\ Signers(m) \subseteq Vouched(m.value)
      BY <3>2 DEF SignedValue, Signers
    <3>4. \A m \in {AgreementValue(p, v, signers, q)} :
            /\ m.type \in {"SignedValue", "AgreementValue"}
            /\ m.value \in Value
            /\ Signers(m) \subseteq Vouched(m.value)
      BY <3>2 DEF AgreementValue, Signers
    <3>5. ASSUME NEW first \in signers, Handle(p, {SignedValue(p, v, signers, first)})
          PROVE  TypeInv' /\ SignaturesVouched'
      BY <3>3, <3>5, <1>i, <2>p, HandleKeepsSignatures
    <3>6. TypeInv' /\ SignaturesVouched'
      BY <3>s, <3>4, <3>5, <1>i, <2>p, HandleKeepsSignatures
    <3>7. UNCHANGED <<accepted_proxy_values, net>>
      BY <2>3 DEF HandleFaulty, Handle
    <3> QED
      BY <3>6, <3>7, <1>a, <1>m DEF IInv
  <2>4. CASE EndShuffle(p)
    <3>1. TypeInv'
      BY <2>4, <1>i DEF EndShuffle, TypeInv, failures
    <3>2. \A m \in {SignedValue(q, v, {p}, p) : q \in Proxy \ {p}, v \in proxy_values[p]} :
            MessageOK(m)
      BY <1>i, <2>p DEF TypeInv, SignedValue, MessageOK, Signers, Vouched
    <3>3. MessagesOK'
      BY <2>4, <3>2, <1>i, <1>v, MulticastKeepsMessages DEF EndShuffle
    <3> QED
      BY <2>4, <3>1, <3>3, <1>a, <1>s DEF IInv, EndShuffle
  <2>5. CASE finish_phase_1(p)
    <3>1. TypeInv'
      BY <2>5, <1>i DEF finish_phase_1, TypeInv, failures
    <3>2. \A m \in {AgreementValue(q, v, signed_proxy_values[p][v], p) :
                     q \in Proxy \ {p}, v \in Acceptable(p)} : MessageOK(m)
      BY <1>i, <2>p DEF SignaturesVouched, AgreementValue, MessageOK, Signers, Acceptable
    <3>3. MessagesOK'
      BY <2>5, <3>2, <1>i, <1>v, MulticastKeepsMessages DEF finish_phase_1
    <3> QED
      BY <2>5, <3>1, <3>3, <1>a, <1>s DEF IInv, finish_phase_1
  <2>6. CASE finish_phase_2(p)
    <3>1. Acceptable(p) \subseteq Value
      BY DEF Acceptable
    <3>2. accepted_proxy_values' \in [Proxy -> SUBSET Value]
      BY <2>6, <3>1, <1>i DEF finish_phase_2, TypeInv
    <3>3. TypeInv'
      BY <2>6, <3>2, <1>i DEF finish_phase_2, TypeInv, failures
    <3>4. \A v \in Acceptable(p) : \E q \in Correct : v \in proxy_values[q]
      BY <1>i, <2>p, SomeCorrectSigner
    <3>5. AcceptedWasShuffled'
      BY <2>6, <3>4, <1>i DEF finish_phase_2, AcceptedWasShuffled, TypeInv, failures, Correct
    <3> QED
      BY <2>6, <3>3, <3>5, <1>s, <1>m DEF IInv, finish_phase_2
  <2> QED
    BY <1>3, <2>1, <2>2, <2>3, <2>4, <2>5, <2>6 DEF Step
<1>4. CASE Next
  BY <1>1, <1>2, <1>3, <1>4 DEF Next
<1> QED
  BY <1>1, <1>4

\* BftProtocolState's agreement, while the signatures in messages are genuine: no
\* correct proxy accepts a value that was never shuffled to a correct proxy with
\* the utility's signature, however many signatures faulty proxies put in a message.
THEOREM AcceptedShuffled == Spec => []AcceptedWasShuffled
<1>1. IInv => AcceptedWasShuffled
  BY DEF IInv
<1> QED
  BY <1>1, InitIInv, StepIInv, PTL DEF Spec

----------------------------------------------------------------------------
(* What one correct proxy accepts in phase 1. *)

PhaseTypes ==
  /\ failed_relays \in Nat
  /\ protocol_phase \in [Proxy -> {"SHUFFLE", "AGREEMENT", "AGGREGATE"}]
  /\ phase_1_finished \in [Proxy -> BOOLEAN]
  /\ \A p \in Proxy : protocol_phase[p] = "SHUFFLE" => ~ phase_1_finished[p]
  /\ accepted_phase_1 \in [Proxy -> SUBSET Value]

\* Nobody ends phase 2 while another is in phase 1.
Together ==
  \A p, q \in Correct : protocol_phase[q] = "AGGREGATE" => phase_1_finished[p]

\* A set of signatures that is enough to accept a value.
Enough(signers) == Cardinality(signers) >= log2n + 1

\* A message with signatures of v that are enough for q.
Convinces(m, q, v) ==
  /\ m.type = "AgreementValue" /\ m.to = q /\ m.value = v
  /\ Enough(m.signers) /\ EnoughOthers(m)

\* q accepts v in the end, or has.
Reaches(q, v) ==
  IF protocol_phase[q] = "AGGREGATE" THEN v \in accepted_proxy_values[q]
  ELSE \/ Enough(signed_proxy_values[q][v])
       \/ \E m \in net : Convinces(m, q, v)

\* What p has accepted reaches all but those that a failed relay kept it from,
\* and p itself.
Spreads(p, v) ==
  \E missed \in SUBSET Correct :
    /\ p \notin missed
    /\ IsFiniteSet(missed) /\ Cardinality(missed) <= failed_relays
    /\ \A q \in Correct \ missed : Reaches(q, v)

SpreadInv ==
  /\ IInv /\ PhaseTypes /\ Together
  /\ \A p \in Correct : \A v \in accepted_phase_1[p] : Spreads(p, v)

\* The stages of a proxy.
LEMMA StageIs ==
  ASSUME PhaseTypes, NEW p \in Proxy
  PROVE  /\ Stage(p) = 0 <=> protocol_phase[p] = "SHUFFLE"
         /\ Stage(p) = 1 <=> protocol_phase[p] = "AGREEMENT" /\ ~ phase_1_finished[p]
         /\ Stage(p) = 2 <=> protocol_phase[p] = "AGREEMENT" /\ phase_1_finished[p]
         /\ Stage(p) = 3 <=> protocol_phase[p] = "AGGREGATE"
         /\ Stage(p) \in {0, 1, 2, 3}
<1>1. protocol_phase[p] \in {"SHUFFLE", "AGREEMENT", "AGGREGATE"} /\ phase_1_finished[p] \in BOOLEAN
  BY DEF PhaseTypes
<1>2. CASE protocol_phase[p] = "SHUFFLE"
  BY <1>2 DEF Stage
<1>3. CASE protocol_phase[p] = "AGREEMENT"
  BY <1>1, <1>3 DEF Stage
<1>4. CASE protocol_phase[p] = "AGGREGATE"
  BY <1>4 DEF Stage
<1> QED
  BY <1>1, <1>2, <1>3, <1>4

\* More signatures are enough if fewer are.
LEMMA EnoughGrows ==
  ASSUME NEW few \in SUBSET Proxy, NEW many \in SUBSET Proxy, few \subseteq many, Enough(few)
  PROVE  Enough(many)
<1>1. IsFiniteSet(many) /\ IsFiniteSet(few) /\ Cardinality(few) <= Cardinality(many)
  BY FS_Subset, BftAssumption
<1>2. Cardinality(few) \in Nat /\ Cardinality(many) \in Nat
  BY <1>1, FS_CardinalityType
<1> QED
  BY <1>1, <1>2, BftAssumption DEF Enough, log2n

\* An acceptance that was on its way or has arrived is not lost again.
LEMMA ReachesStays ==
  ASSUME TypeInv, TypeInv', MessagesOK, NEW q \in Correct, NEW v \in Value, Reaches(q, v),
         protocol_phase'[q] = "AGGREGATE" <=> protocol_phase[q] = "AGGREGATE",
         accepted_proxy_values' = accepted_proxy_values,
         signed_proxy_values[q][v] \subseteq signed_proxy_values'[q][v],
         \A m \in net : Convinces(m, q, v) =>
           m \in net' \/ m.signers \subseteq signed_proxy_values'[q][v]
  PROVE  Reaches(q, v)'
<1>0. q \in Proxy
  BY DEF Correct
<1>1. CASE protocol_phase[q] = "AGGREGATE"
  BY <1>1 DEF Reaches
<1>2. CASE protocol_phase[q] # "AGGREGATE" /\ Enough(signed_proxy_values[q][v])
  <2>1. signed_proxy_values[q][v] \in SUBSET Proxy /\ signed_proxy_values'[q][v] \in SUBSET Proxy
    BY <1>0 DEF TypeInv
  <2>2. Enough(signed_proxy_values'[q][v])
    BY <1>2, <2>1, EnoughGrows
  <2>3. Enough(signed_proxy_values[q][v])'
    BY <2>2 DEF Enough
  <2> QED
    BY <1>2, <2>3 DEF Reaches
<1>3. ASSUME protocol_phase[q] # "AGGREGATE", NEW m \in net, Convinces(m, q, v)
      PROVE  Reaches(q, v)'
  <2>1. CASE m \in net'
    <3>1. Convinces(m, q, v)'
      BY <1>3 DEF Convinces, Enough, EnoughOthers
    <3> QED
      BY <1>3, <2>1, <3>1 DEF Reaches
  <2>2. CASE m.signers \subseteq signed_proxy_values'[q][v]
    <3>1. m.signers \in SUBSET Proxy
      BY <1>3 DEF MessagesOK, MessageOK, Convinces, Signers, Vouched, TypeInv, Correct
    <3>2. signed_proxy_values'[q][v] \in SUBSET Proxy
      BY <1>0 DEF TypeInv
    <3>3. Enough(m.signers)
      BY <1>3 DEF Convinces
    <3>4. Enough(signed_proxy_values'[q][v])
      BY <2>2, <3>1, <3>2, <3>3, EnoughGrows
    <3>5. Enough(signed_proxy_values[q][v])'
      BY <3>4 DEF Enough
    <3> QED
      BY <1>3, <3>5 DEF Reaches
  <2> QED
    BY <1>3, <2>1, <2>2
<1> QED
  BY <1>1, <1>2, <1>3 DEF Reaches

\* Who accepts in phase 1 tells all others, and each failed relay keeps it from
\* one of them at most.
LEMMA AcceptedIsSent ==
  ASSUME SpreadInv, NEW p \in Correct, finish_phase_1(p), NEW v \in Acceptable(p)
  PROVE  Spreads(p, v)'
<1> DEFINE signers == signed_proxy_values[p][v]
           message(q) == AgreementValue(q, v, signers, p)
           messages == {AgreementValue(q, w, signed_proxy_values[p][w], p) :
                          q \in Proxy \ {p}, w \in Acceptable(p)}
<1>1. TypeInv /\ PhaseTypes /\ Together /\ p \in Proxy /\ v \in Value
  BY DEF SpreadInv, IInv, Correct, Acceptable
<1>2. /\ protocol_phase[p] = "AGREEMENT" /\ ~ phase_1_finished[p]
      /\ Multicast(messages)
      /\ UNCHANGED <<failures, protocol_phase, accepted_proxy_values, signed_proxy_values>>
  BY DEF finish_phase_1
<1>3. Correct' = Correct /\ failed_relays' = failed_relays /\ faulty' = faulty
  BY <1>2 DEF failures, Correct
<1>4. signers \in SUBSET Proxy /\ IsFiniteSet(signers) /\ Enough(signers)
  <2>1. signers \in SUBSET Proxy
    BY <1>1 DEF TypeInv
  <2>2. Enough(signers)
    BY DEF Acceptable, Enough
  <2> QED
    BY <2>1, <2>2, FS_Subset, BftAssumption
<1>5. Cardinality(signers \ {p}) >= log2n
  <2>1. Cardinality(signers) \in Nat
    BY <1>4, FS_CardinalityType
  <2>2. Cardinality(signers \ {p}) \in {Cardinality(signers) - 1, Cardinality(signers)}
    BY <1>4, FS_RemoveElement
  <2> QED
    BY <1>4, <2>1, <2>2, BftAssumption DEF Enough, log2n
<1>6. \A q : /\ message(q).type = "AgreementValue" /\ message(q).to = q /\ message(q).value = v
             /\ message(q).signers = signers /\ message(q).accepter = p
  BY DEF AgreementValue
<1>7. \A q \in Proxy \ {p} : message(q) \in messages
  OBVIOUS
<1>8. \A m \in messages : m.value = v => \E q \in Proxy : m = message(q)
  BY DEF AgreementValue
<1> HIDE DEF message, messages
<1>9. PICK dropped \in SUBSET messages :
        /\ \A w \in Value : Cardinality({m \in dropped : m.value = w}) <= failed_relays
        /\ net' = net \cup {m \in messages \ dropped : m.to \notin faulty}
  BY <1>2 DEF Multicast
<1> DEFINE missed == {q \in Correct \ {p} : message(q) \in dropped}
           gone == {m \in dropped : m.value = v}
           all == {message(q) : q \in Proxy}
<1>10. IsFiniteSet(gone) /\ Cardinality(gone) <= failed_relays
  <2>1. [q \in Proxy |-> message(q)] \in Surjection(Proxy, all)
    BY DEF Surjection
  <2>2. IsFiniteSet(all)
    BY <2>1, FS_Surjection, BftAssumption
  <2>3. gone \in SUBSET all
    BY <1>8
  <2> QED
    BY <1>1, <1>9, <2>2, <2>3, FS_Subset
<1>11. IsFiniteSet(missed) /\ Cardinality(missed) <= failed_relays
  <2>1. [q \in missed |-> message(q)] \in Injection(missed, gone)
    BY <1>6 DEF Injection, IsInjective
  <2>2. IsFiniteSet(missed) /\ Cardinality(missed) <= Cardinality(gone)
    BY <1>10, <2>1, FS_Injection
  <2>3. Cardinality(missed) \in Nat /\ Cardinality(gone) \in Nat /\ failed_relays \in Nat
    BY <1>1, <1>10, <2>2, FS_CardinalityType DEF PhaseTypes
  <2> QED
    BY <1>10, <2>2, <2>3
<1>12. ASSUME NEW q \in Correct \ missed, q # p
       PROVE  Reaches(q, v)'
  <2>1. q \in Proxy \ {p} /\ q \notin faulty /\ message(q) \notin dropped
    BY <1>12 DEF Correct
  <2>2. PICK m : m = message(q)
    OBVIOUS
  <2>3. m \in net' /\ Convinces(m, q, v)'
    <3>1. m \in net'
      BY <1>6, <1>7, <1>9, <2>1, <2>2
    <3>2. Convinces(m, q, v)
      BY <1>4, <1>5, <1>6, <2>2 DEF Convinces, EnoughOthers
    <3> QED
      BY <3>1, <3>2 DEF Convinces, Enough, EnoughOthers
  <2>4. protocol_phase'[q] # "AGGREGATE"
    BY <1>1, <1>2 DEF Together
  <2> QED
    BY <2>3, <2>4 DEF Reaches
<1>13. missed \in SUBSET Correct' /\ p \notin missed
  BY <1>3
<1>14. Reaches(p, v)'
  <2>1. Enough(signed_proxy_values[p][v])'
    BY <1>2, <1>4 DEF Enough
  <2>2. protocol_phase'[p] # "AGGREGATE"
    BY <1>2
  <2> QED
    BY <2>1, <2>2 DEF Reaches
<1> QED
  BY <1>3, <1>11, <1>12, <1>13, <1>14 DEF Spreads

\* A proxy that handles messages keeps the signatures it has, and adds those of each.
LEMMA HandleAdds ==
  ASSUME TypeInv, NEW p \in Proxy, NEW messages, Handle(p, messages)
  PROVE  /\ UNCHANGED <<setup, protocol_phase, phase_1_finished, proxy_values,
                        accepted_phase_1, accepted_proxy_values>>
         /\ \A q \in Proxy, v \in Value :
              signed_proxy_values[q][v] \subseteq signed_proxy_values'[q][v]
         /\ \A m \in messages : m.value \in Value =>
              handle_message(m, signed_proxy_values[p][m.value])
                \subseteq signed_proxy_values'[p][m.value]
<1> DEFINE added(v) == UNION {handle_message(m, signed_proxy_values[p][v]) :
                           m \in {n \in messages : n.value = v}}
<1>1. /\ UNCHANGED <<setup, protocol_phase, phase_1_finished, proxy_values,
                     accepted_phase_1, accepted_proxy_values>>
      /\ signed_proxy_values' = [signed_proxy_values EXCEPT ![p] =
           [v \in Value |-> signed_proxy_values[p][v] \cup added(v)]]
  BY DEF Handle
<1>2. \A m \in messages :
        handle_message(m, signed_proxy_values[p][m.value]) \subseteq added(m.value)
  OBVIOUS
<1> HIDE DEF added
<1>3. /\ \A v \in Value : signed_proxy_values'[p][v] = signed_proxy_values[p][v] \cup added(v)
      /\ \A q \in Proxy \ {p} : signed_proxy_values'[q] = signed_proxy_values[q]
  BY <1>1 DEF TypeInv
<1> QED
  BY <1>1, <1>2, <1>3

\* What has spread stays so while every proxy that it reaches keeps it.
LEMMA SpreadsStay ==
  ASSUME NEW p \in Correct, NEW v \in Value, Spreads(p, v), UNCHANGED failures,
         \A q \in Correct : Reaches(q, v) => Reaches(q, v)'
  PROVE  Spreads(p, v)'
BY DEF Spreads, failures, Correct

\* Every step keeps what was accepted in phase 1 spreading.
LEMMA StepSpreadInv == SpreadInv /\ [Next]_vars => SpreadInv'
<1> SUFFICES ASSUME SpreadInv, [Next]_vars PROVE SpreadInv'
  OBVIOUS
<1>i. IInv /\ TypeInv /\ MessagesOK /\ PhaseTypes /\ Together
  BY DEF SpreadInv, IInv
<1>j. IInv' /\ TypeInv'
  BY <1>i, StepIInv DEF IInv
<1>f. UNCHANGED failures /\ Correct' = Correct /\ Correct \subseteq Proxy
  BY <1>i, StepGrows DEF failures, Correct
<1>v. \A p \in Correct : accepted_phase_1[p] \subseteq Value
  BY <1>f DEF SpreadInv, PhaseTypes
<1>s. ASSUME UNCHANGED accepted_phase_1,
             \A q \in Correct, v \in Value : Reaches(q, v) => Reaches(q, v)'
      PROVE  \A p \in Correct' : \A v \in accepted_phase_1'[p] : Spreads(p, v)'
  BY <1>f, <1>v, <1>s, SpreadsStay DEF SpreadInv
<1>k. ASSUME UNCHANGED <<protocol_phase, accepted_proxy_values>>,
             \A q \in Correct, v \in Value :
               signed_proxy_values[q][v] \subseteq signed_proxy_values'[q][v],
             \A m \in net \ net' : m.type # "AgreementValue"
      PROVE  \A q \in Correct, v \in Value : Reaches(q, v) => Reaches(q, v)'
  BY <1>i, <1>j, <1>k, ReachesStays DEF Convinces
<1>p. ASSUME UNCHANGED <<protocol_phase, phase_1_finished, accepted_phase_1>>
      PROVE  PhaseTypes' /\ Together'
  BY <1>i, <1>f, <1>p DEF PhaseTypes, Together, failures
<1>1. CASE UNCHANGED vars
  <2>1. PhaseTypes' /\ Together'
    BY <1>1, <1>p DEF vars
  <2>2. \A q \in Correct, v \in Value : Reaches(q, v) => Reaches(q, v)'
    BY <1>1, <1>k DEF vars
  <2> QED
    BY <1>1, <1>j, <1>s, <2>1, <2>2 DEF SpreadInv, vars
<1>2. ASSUME NEW v \in setup, handle_signature_response(v) PROVE SpreadInv'
  <2>1. /\ UNCHANGED <<protocol_phase, phase_1_finished, accepted_phase_1,
                       accepted_proxy_values, signed_proxy_values>>
        /\ net \subseteq net'
    BY <1>2 DEF handle_signature_response, Multicast
  <2> QED
    BY <1>j, <1>k, <1>p, <1>s, <2>1 DEF SpreadInv
<1>3. ASSUME NEW p \in Correct, handle_shuffle_phase_message(p) PROVE SpreadInv'
  <2>1. /\ UNCHANGED <<protocol_phase, phase_1_finished, accepted_phase_1,
                       accepted_proxy_values, signed_proxy_values>>
        /\ net' = net \ Arrived(p) /\ Stage(p) = 0
    BY <1>3 DEF handle_shuffle_phase_message
  <2>2. \A m \in net \ net' : m.type # "AgreementValue"
    BY <2>1 DEF Arrived, SentIn
  <2> QED
    BY <1>j, <1>k, <1>p, <1>s, <2>1, <2>2 DEF SpreadInv
<1>4. ASSUME NEW p \in Correct, NEW messages, Handle(p, messages)
      PROVE  /\ UNCHANGED <<protocol_phase, phase_1_finished, accepted_phase_1,
                            accepted_proxy_values>>
             /\ \A q \in Correct, v \in Value :
                  signed_proxy_values[q][v] \subseteq signed_proxy_values'[q][v]
             /\ \A m \in messages : m.value \in Value =>
                  handle_message(m, signed_proxy_values[p][m.value])
                    \subseteq signed_proxy_values'[p][m.value]
  BY <1>i, <1>f, <1>4, HandleAdds
<1>5. ASSUME NEW p \in Correct, handle_agreement_phase_message(p) PROVE SpreadInv'
  <2>1. Handle(p, Arrived(p)) /\ net' = net \ Arrived(p)
    BY <1>5 DEF handle_agreement_phase_message
  <2>2. ASSUME NEW q \in Correct, NEW v \in Value, NEW m \in net, Convinces(m, q, v)
        PROVE  m \in net' \/ m.signers \subseteq signed_proxy_values'[q][v]
    <3>1. CASE m \in Arrived(p)
      <4>1. p = q /\ m.value = v
        BY <2>2, <3>1 DEF Arrived, Convinces
      <4>2. handle_message(m, signed_proxy_values[p][v]) = m.signers
        BY <2>2 DEF Convinces, handle_message, handle_phase_2_message
      <4> QED
        BY <1>4, <2>1, <3>1, <4>1, <4>2
    <3> QED
      BY <2>1, <2>2, <3>1
  <2>3. \A q \in Correct, v \in Value : Reaches(q, v) => Reaches(q, v)'
    BY <1>i, <1>j, <1>4, <2>1, <2>2, ReachesStays
  <2> QED
    BY <1>j, <1>p, <1>s, <1>4, <2>1, <2>3 DEF SpreadInv
<1>6. ASSUME NEW p \in Correct, HandleFaulty(p) PROVE SpreadInv'
  <2>1. net' = net /\ \E messages : Handle(p, messages)
    BY <1>6 DEF HandleFaulty
  <2> QED
    BY <1>j, <1>k, <1>p, <1>s, <1>4, <2>1 DEF SpreadInv
<1>7. ASSUME NEW p \in Correct, EndShuffle(p) PROVE SpreadInv'
  <2>1. /\ UNCHANGED <<phase_1_finished, accepted_phase_1, accepted_proxy_values,
                       signed_proxy_values>>
        /\ net \subseteq net'
        /\ protocol_phase[p] = "SHUFFLE"
        /\ protocol_phase' = [protocol_phase EXCEPT ![p] = "AGREEMENT"]
    BY <1>7 DEF EndShuffle, Multicast
  <2>2. /\ \A q \in Proxy : protocol_phase'[q] = "AGGREGATE" <=> protocol_phase[q] = "AGGREGATE"
        /\ \A q \in Proxy : protocol_phase'[q] = "SHUFFLE" => protocol_phase[q] = "SHUFFLE"
        /\ protocol_phase' \in [Proxy -> {"SHUFFLE", "AGREEMENT", "AGGREGATE"}]
    BY <1>i, <1>f, <2>1 DEF PhaseTypes
  <2>3. PhaseTypes' /\ Together'
    BY <1>i, <1>f, <2>1, <2>2 DEF PhaseTypes, Together, failures
  <2>4. \A q \in Correct, v \in Value : Reaches(q, v) => Reaches(q, v)'
    BY <1>i, <1>j, <1>f, <2>1, <2>2, ReachesStays
  <2> QED
    BY <1>j, <1>s, <2>1, <2>3, <2>4 DEF SpreadInv
<1>8. ASSUME NEW p \in Correct, finish_phase_1(p) PROVE SpreadInv'
  <2>1. /\ UNCHANGED <<protocol_phase, accepted_proxy_values, signed_proxy_values>>
        /\ net \subseteq net'
        /\ protocol_phase[p] = "AGREEMENT"
        /\ phase_1_finished' = [phase_1_finished EXCEPT ![p] = TRUE]
        /\ accepted_phase_1' = [accepted_phase_1 EXCEPT ![p] = Acceptable(p)]
    BY <1>8 DEF finish_phase_1, Multicast
  <2>2. Acceptable(p) \subseteq Value
    BY DEF Acceptable
  <2>3. PhaseTypes' /\ Together'
    BY <1>i, <1>f, <2>1, <2>2 DEF PhaseTypes, Together, failures
  <2>4. \A q \in Correct, v \in Value : Reaches(q, v) => Reaches(q, v)'
    BY <1>k, <2>1
  <2>5. ASSUME NEW q \in Correct, NEW v \in accepted_phase_1'[q]
        PROVE  Spreads(q, v)'
    <3>1. CASE q = p
      <4>1. v \in Acceptable(p)
        BY <1>i, <1>f, <2>1, <2>5, <3>1 DEF PhaseTypes
      <4> QED
        BY <1>8, <3>1, <4>1, AcceptedIsSent
    <3>2. CASE q # p
      <4>1. v \in accepted_phase_1[q] /\ v \in Value
        BY <1>i, <1>f, <1>v, <2>1, <2>5, <3>2 DEF PhaseTypes
      <4>2. Spreads(q, v)
        BY <4>1 DEF SpreadInv
      <4> QED
        BY <1>f, <2>4, <4>1, <4>2, SpreadsStay
    <3> QED
      BY <3>1, <3>2
  <2> QED
    BY <1>f, <1>j, <2>3, <2>5 DEF SpreadInv
<1>9. ASSUME NEW p \in Correct, finish_phase_2(p) PROVE SpreadInv'
  <2>1. /\ UNCHANGED <<phase_1_finished, accepted_phase_1, signed_proxy_values, net>>
        /\ protocol_phase[p] = "AGREEMENT" /\ phase_1_finished[p] /\ PhaseOver(p)
        /\ protocol_phase' = [protocol_phase EXCEPT ![p] = "AGGREGATE"]
        /\ accepted_proxy_values' = [accepted_proxy_values EXCEPT ![p] = Acceptable(p)]
    BY <1>9 DEF finish_phase_2
  <2>2. Stage(p) = 2 /\ p \in Proxy
    BY <1>i, <1>f, <2>1, StageIs
  <2>3. \A q \in Correct : phase_1_finished[q]
    <3>1. ASSUME NEW q \in Correct
          PROVE  phase_1_finished[q]
      <4>1. Stage(q) >= 2 /\ q \in Proxy
        BY <1>f, <2>1, <2>2 DEF PhaseOver, AllSent
      <4>2. Stage(q) \in {2, 3}
        BY <1>i, <4>1, StageIs
      <4>3. CASE Stage(q) = 2
        BY <1>i, <4>1, <4>3, StageIs
      <4>4. CASE Stage(q) = 3
        BY <1>i, <4>1, <4>4, StageIs DEF Together
      <4> QED
        BY <4>2, <4>3, <4>4
    <3> QED
      BY <3>1
  <2>4. PhaseTypes' /\ Together'
    BY <1>i, <1>f, <2>1, <2>2, <2>3 DEF PhaseTypes, Together, failures
  <2>5. ASSUME NEW q \in Correct, NEW v \in Value, Reaches(q, v)
        PROVE  Reaches(q, v)'
    <3>1. CASE q = p
      <4>1. \A m \in net : ~ Convinces(m, p, v)
        BY <2>1, <2>2 DEF PhaseOver, Arrived, SentIn, Convinces
      <4>2. Enough(signed_proxy_values[p][v])
        BY <2>1, <2>5, <3>1, <4>1 DEF Reaches
      <4>3. v \in Acceptable(p)
        BY <4>2 DEF Acceptable, Enough
      <4>4. v \in accepted_proxy_values'[p] /\ protocol_phase'[p] = "AGGREGATE"
        BY <1>i, <2>1, <2>2, <4>3 DEF TypeInv, PhaseTypes
      <4> QED
        BY <3>1, <4>4 DEF Reaches
    <3>2. CASE q # p
      <4>1. /\ protocol_phase'[q] = protocol_phase[q]
            /\ accepted_proxy_values'[q] = accepted_proxy_values[q]
        BY <1>i, <1>f, <2>1, <3>2 DEF PhaseTypes, TypeInv
      <4> QED
        BY <2>1, <2>5, <4>1 DEF Reaches, Convinces, Enough, EnoughOthers
    <3> QED
      BY <3>1, <3>2
  <2> QED
    BY <1>j, <1>s, <2>1, <2>4, <2>5 DEF SpreadInv
<1> QED
  BY <1>1, <1>2, <1>3, <1>5, <1>6, <1>7, <1>8, <1>9 DEF Next, Step

\* Nobody has accepted anything at the start.
LEMMA InitSpreadInv == Init => SpreadInv
<1> SUFFICES ASSUME Init PROVE SpreadInv
  OBVIOUS
<1>1. MaxRelays \in Nat
  BY BftAssumption
<1>2. PhaseTypes /\ Together
  BY <1>1 DEF Init, PhaseTypes, Together, Correct
<1>3. \A p \in Correct : accepted_phase_1[p] = {}
  BY DEF Init, Correct
<1> QED
  BY <1>2, <1>3, InitIInv DEF SpreadInv

\* What one correct proxy accepts in phase 1 it accepts in the end, and so do
\* the others, but for one of them for each failed relay: whatever genuine
\* signatures faulty proxies send.
THEOREM PhaseOneSpreads == Spec => []AcceptanceSpreads
<1>1. SpreadInv => AcceptanceSpreads
  <2> SUFFICES ASSUME SpreadInv, Over, NEW p \in Correct, NEW v \in accepted_phase_1[p]
               PROVE  /\ v \in accepted_proxy_values[p]
                      /\ Cardinality({q \in Correct : v \notin accepted_proxy_values[q]})
                           <= failed_relays
    BY DEF AcceptanceSpreads
  <2>1. PICK missed \in SUBSET Correct :
          /\ p \notin missed
          /\ IsFiniteSet(missed) /\ Cardinality(missed) <= failed_relays
          /\ \A q \in Correct \ missed : Reaches(q, v)
    BY DEF SpreadInv, Spreads
  <2> DEFINE without == {q \in Correct : v \notin accepted_proxy_values[q]}
  <2>2. \A q \in Correct : protocol_phase[q] = "AGGREGATE"
    BY DEF Over
  <2>3. without \in SUBSET missed /\ v \in accepted_proxy_values[p]
    BY <2>1, <2>2 DEF Reaches
  <2>4. IsFiniteSet(without) /\ Cardinality(without) <= Cardinality(missed)
    BY <2>1, <2>3, FS_Subset
  <2>5. Cardinality(without) \in Nat /\ Cardinality(missed) \in Nat /\ failed_relays \in Nat
    BY <2>1, <2>4, FS_CardinalityType DEF SpreadInv, PhaseTypes
  <2> QED
    BY <2>1, <2>3, <2>4, <2>5
<1> QED
  BY <1>1, InitSpreadInv, StepSpreadInv, PTL DEF Spec

----------------------------------------------------------------------------
(* What is accepted when no message is lost. *)

Past(p) == protocol_phase[p] # "SHUFFLE"

\* A contribution that was sent is with each proxy, or on its way before Shuffle ends.
Shuffled ==
  \A v \in signed \ setup, q \in Correct :
    v \in proxy_values[q] \/ (~ Past(q) /\ Contribution(q, v) \in net)

SetupFirst == \A p \in Correct : Past(p) => setup = {}

\* Likewise the signature of each proxy, until phase 1 ends.
SignedForOthers ==
  \A p, q \in Correct : \A v \in signed : p # q /\ Past(p) =>
    \/ p \in signed_proxy_values[q][v]
    \/ ~ phase_1_finished[q] /\ SignedValue(q, v, {p}, p) \in net

SignedFirst == \A p, q \in Correct : phase_1_finished[q] => Past(p)

AcceptedByAll ==
  Cardinality(Correct) >= log2n + 2 =>
    \A p \in Correct : protocol_phase[p] = "AGGREGATE" => signed \subseteq accepted_proxy_values[p]

DeliveryInv ==
  /\ signed \subseteq Value
  /\ Shuffled /\ SetupFirst /\ SignedForOthers /\ SignedFirst /\ AcceptedByAll

LosslessInv == SpreadInv /\ (failed_relays = 0 => DeliveryInv)

\* Without a failed relay, a multicast puts all its messages of a value in the network.
LEMMA NothingLost ==
  ASSUME failed_relays = 0, NEW messages, Multicast(messages), NEW v \in Value,
         IsFiniteSet({m \in messages : m.value = v}),
         NEW m \in messages, m.value = v, m.to \notin faulty
  PROVE  m \in net'
<1>1. PICK dropped \in SUBSET messages :
        /\ \A w \in Value : Cardinality({n \in dropped : n.value = w}) <= failed_relays
        /\ net' = net \cup {n \in messages \ dropped : n.to \notin faulty}
  BY DEF Multicast
<1> DEFINE gone == {n \in dropped : n.value = v}
<1>2. gone \in SUBSET {n \in messages : n.value = v}
  OBVIOUS
<1>3. IsFiniteSet(gone) /\ Cardinality(gone) <= 0
  BY <1>1, <1>2, FS_Subset
<1> HIDE DEF gone
<1>4. Cardinality(gone) \in Nat
  BY <1>3, FS_CardinalityType
<1>5. Cardinality(gone) = 0
  BY <1>3, <1>4
<1>6. gone = {}
  BY <1>3, <1>5, FS_EmptySet
<1> QED
  BY <1>1, <1>6 DEF gone

\* There are finitely many messages of one value in each multicast of Shuffle and
\* of phase 1: one for each proxy.
LEMMA MessagesOfOneValue ==
  ASSUME NEW p, NEW v \in Value
  PROVE  /\ IsFiniteSet({Contribution(q, v) : q \in Proxy})
         /\ IsFiniteSet({SignedValue(q, v, {p}, p) : q \in Proxy})
<1>1. [q \in Proxy |-> Contribution(q, v)] \in Surjection(Proxy, {Contribution(q, v) : q \in Proxy})
  BY DEF Surjection
<1>2. [q \in Proxy |-> SignedValue(q, v, {p}, p)]
        \in Surjection(Proxy, {SignedValue(q, v, {p}, p) : q \in Proxy})
  BY DEF Surjection
<1> QED
  BY <1>1, <1>2, FS_Surjection, BftAssumption

\* A proxy with the signatures of log2n + 1 others accepts.
LEMMA OthersAreEnough ==
  ASSUME TypeInv, NEW p \in Correct, NEW v \in Value,
         Cardinality(Correct) >= log2n + 2, Correct \ {p} \subseteq signed_proxy_values[p][v]
  PROVE  v \in Acceptable(p)
<1>1. Correct \in SUBSET Proxy /\ p \in Proxy
  BY DEF Correct
<1>2. signed_proxy_values[p][v] \in SUBSET Proxy
  BY <1>1 DEF TypeInv
<1>3. IsFiniteSet(Correct) /\ IsFiniteSet(signed_proxy_values[p][v])
  BY <1>1, <1>2, FS_Subset, BftAssumption
<1>4. Cardinality(Correct \ {p}) = Cardinality(Correct) - 1
  BY <1>3, FS_RemoveElement
<1>5. Cardinality(Correct \ {p}) <= Cardinality(signed_proxy_values[p][v])
  BY <1>3, FS_Subset
<1>6. Cardinality(Correct) \in Nat /\ Cardinality(signed_proxy_values[p][v]) \in Nat
  BY <1>3, FS_CardinalityType
<1> QED
  BY <1>4, <1>5, <1>6, BftAssumption DEF Acceptable, log2n

\* Every step keeps what is on its way coming, as long as no meter on the paths
\* has failed.
LEMMA StepDeliveryInv ==
  ASSUME SpreadInv, failed_relays = 0, DeliveryInv, [Next]_vars
  PROVE  DeliveryInv'
<1>i. /\ TypeInv /\ PhaseTypes /\ Together /\ signed \subseteq Value /\ setup \subseteq Value
      /\ Shuffled /\ SetupFirst /\ SignedForOthers /\ SignedFirst /\ AcceptedByAll
  BY DEF SpreadInv, IInv, DeliveryInv, TypeInv
<1>f. /\ UNCHANGED failures /\ signed' = signed /\ Correct' = Correct /\ Correct \subseteq Proxy
      /\ \A q \in Proxy : proxy_values[q] \subseteq proxy_values'[q]
  BY <1>i, StepGrows DEF failures, Correct
<1>a. UNCHANGED <<protocol_phase, accepted_proxy_values>> => AcceptedByAll'
  BY <1>i, <1>f DEF AcceptedByAll, log2n
<1>p. UNCHANGED <<protocol_phase, phase_1_finished>> => SignedFirst'
  BY <1>i, <1>f DEF SignedFirst, Past
<1>s. ASSUME UNCHANGED <<protocol_phase, phase_1_finished>>,
             \A q \in Correct, v \in Value :
               signed_proxy_values[q][v] \subseteq signed_proxy_values'[q][v],
             \A m \in net \ net' : m.type # "SignedValue"
      PROVE  SignedForOthers'
  <2>1. \A p, q \in Correct, v \in signed :
          SignedValue(q, v, {p}, p) \in net => SignedValue(q, v, {p}, p) \in net'
    BY <1>s DEF SignedValue
  <2> QED
    BY <1>i, <1>f, <1>s, <2>1 DEF SignedForOthers, Past
<1>t. ASSUME UNCHANGED <<protocol_phase, setup>>,
             \A m \in net \ net' : m.type # "ValueContribution"
      PROVE  Shuffled' /\ SetupFirst'
  <2>1. \A q \in Correct, v \in signed :
          Contribution(q, v) \in net => Contribution(q, v) \in net'
    BY <1>t DEF Contribution
  <2>2. Shuffled'
    BY <1>i, <1>f, <1>t, <2>1 DEF Shuffled, Past
  <2> QED
    BY <1>i, <1>f, <1>t, <2>2 DEF SetupFirst, Past
<1>1. CASE UNCHANGED vars
  BY <1>1, <1>i, <1>f, <1>a, <1>p, <1>s, <1>t DEF DeliveryInv, vars
<1>2. ASSUME NEW v \in setup, handle_signature_response(v) PROVE DeliveryInv'
  <2>1. /\ UNCHANGED <<protocol_phase, phase_1_finished, proxy_values, signed_proxy_values,
                       accepted_proxy_values>>
        /\ setup' = setup \ {v} /\ net \subseteq net'
        /\ Multicast({Contribution(p, v) : p \in Proxy})
    BY <1>2 DEF handle_signature_response, Multicast
  <2>2. \A p \in Correct : ~ Past(p)
    BY <1>i, <1>2 DEF SetupFirst
  <2>3. ASSUME NEW q \in Correct PROVE Contribution(q, v) \in net'
    <3> DEFINE messages == {Contribution(p, v) : p \in Proxy}
    <3>1. v \in Value /\ q \in Proxy /\ q \notin faulty
      BY <1>i, <1>f DEF Correct
    <3>2. /\ Contribution(q, v) \in messages
          /\ Contribution(q, v).value = v /\ Contribution(q, v).to \notin faulty
      BY <3>1 DEF Contribution
    <3>3. {m \in messages : m.value = v} = messages
      BY DEF Contribution
    <3>4. IsFiniteSet({m \in messages : m.value = v})
      BY <3>1, <3>3, MessagesOfOneValue
    <3>5. Multicast(messages)
      BY <2>1
    <3> HIDE DEF messages
    <3> QED
      BY <3>1, <3>2, <3>4, <3>5, NothingLost
  <2>4. Shuffled'
    BY <1>i, <1>f, <2>1, <2>2, <2>3 DEF Shuffled, Past
  <2>5. SetupFirst'
    BY <1>f, <2>1, <2>2 DEF SetupFirst, Past
  <2> QED
    BY <1>i, <1>f, <1>a, <1>p, <1>s, <2>1, <2>4, <2>5 DEF DeliveryInv
<1>3. ASSUME NEW p \in Correct, handle_shuffle_phase_message(p) PROVE DeliveryInv'
  <2> DEFINE values == {m.value : m \in Arrived(p)} \cap signed
  <2>1. /\ UNCHANGED <<setup, protocol_phase, phase_1_finished, signed_proxy_values,
                       accepted_proxy_values>>
        /\ net' = net \ Arrived(p) /\ Stage(p) = 0
        /\ proxy_values' = [proxy_values EXCEPT ![p] = @ \cup values]
    BY <1>3 DEF handle_shuffle_phase_message
  <2>2. \A m \in net \ net' : m.type = "ValueContribution" /\ m.to = p
    BY <2>1 DEF Arrived, SentIn
  <2>3. \A v \in signed, q \in Correct : Contribution(q, v) \in net \ net' => v \in values /\ q = p
    BY <2>1, <2>2 DEF Contribution
  <2> HIDE DEF values
  <2>4. \A v \in values : v \in proxy_values'[p]
    BY <1>i, <1>f, <2>1 DEF TypeInv
  <2>5. Shuffled' /\ SetupFirst'
    BY <1>i, <1>f, <2>1, <2>3, <2>4 DEF Shuffled, SetupFirst, Past
  <2> QED
    BY <1>i, <1>f, <1>a, <1>p, <1>s, <2>1, <2>2, <2>5 DEF DeliveryInv
<1>4. ASSUME NEW p \in Correct, handle_agreement_phase_message(p) PROVE DeliveryInv'
  <2>1. /\ p \in Proxy /\ Handle(p, Arrived(p)) /\ net' = net \ Arrived(p)
        /\ Stage(p) \in {1, 2}
    BY <1>f, <1>4 DEF handle_agreement_phase_message, Handle
  <2>2. /\ UNCHANGED <<setup, protocol_phase, phase_1_finished, proxy_values,
                       accepted_proxy_values>>
        /\ \A q \in Proxy, v \in Value :
             signed_proxy_values[q][v] \subseteq signed_proxy_values'[q][v]
        /\ \A m \in Arrived(p) : m.value \in Value =>
             handle_message(m, signed_proxy_values[p][m.value])
               \subseteq signed_proxy_values'[p][m.value]
    BY <1>i, <2>1, HandleAdds
  <2>3. \A m \in net \ net' : m.type # "ValueContribution" /\ m.to = p
    BY <2>1 DEF Arrived, SentIn
  <2>4. ASSUME NEW q \in Correct, NEW r \in Correct, NEW v \in signed,
               SignedValue(q, v, {r}, r) \in net
        PROVE  SignedValue(q, v, {r}, r) \in net' \/ r \in signed_proxy_values'[q][v]
    <3> DEFINE m == SignedValue(q, v, {r}, r)
    <3>1. CASE m \in Arrived(p)
      <4>1. q = p /\ m.value = v /\ v \in Value
        BY <1>i, <3>1 DEF Arrived, SignedValue
      <4>2. r \in handle_message(m, signed_proxy_values[p][v])
        BY DEF SignedValue, handle_message, handle_phase_1_message
      <4> QED
        BY <2>2, <3>1, <4>1, <4>2
    <3> QED
      BY <2>1, <2>4, <3>1
  <2>5. SignedForOthers'
    BY <1>i, <1>f, <2>2, <2>4 DEF SignedForOthers, Past
  <2> QED
    BY <1>i, <1>f, <1>a, <1>p, <1>t, <2>2, <2>3, <2>5 DEF DeliveryInv
<1>5. ASSUME NEW p \in Correct, HandleFaulty(p) PROVE DeliveryInv'
  <2>1. p \in Proxy /\ net' = net /\ \E messages : Handle(p, messages)
    BY <1>f, <1>5 DEF HandleFaulty
  <2>2. /\ UNCHANGED <<setup, protocol_phase, phase_1_finished, accepted_proxy_values>>
        /\ \A q \in Proxy, v \in Value :
             signed_proxy_values[q][v] \subseteq signed_proxy_values'[q][v]
    BY <1>i, <2>1, HandleAdds
  <2> QED
    BY <1>i, <1>f, <1>a, <1>p, <1>s, <1>t, <2>1, <2>2 DEF DeliveryInv
<1>6. ASSUME NEW p \in Correct, EndShuffle(p) PROVE DeliveryInv'
  <2> DEFINE messages == {SignedValue(q, v, {p}, p) : q \in Proxy \ {p}, v \in proxy_values[p]}
  <2>1. /\ UNCHANGED <<setup, phase_1_finished, proxy_values, signed_proxy_values,
                       accepted_proxy_values>>
        /\ protocol_phase[p] = "SHUFFLE" /\ PhaseOver(p)
        /\ protocol_phase' = [protocol_phase EXCEPT ![p] = "AGREEMENT"]
        /\ Multicast(messages)
    BY <1>6 DEF EndShuffle
  <2>n. net \subseteq net'
    BY <1>6 DEF EndShuffle, Multicast
  <2>2. /\ Past(p)' /\ protocol_phase'[p] # "AGGREGATE"
        /\ \A q \in Proxy \ {p} : protocol_phase'[q] = protocol_phase[q]
    BY <1>i, <1>f, <2>1 DEF PhaseTypes, Past
  <2>3. setup = {} /\ \A m \in net : m.type = "ValueContribution" => m.to # p
    <3>1. Stage(p) = 0
      BY <1>i, <1>f, <2>1, StageIs
    <3> QED
      BY <2>1, <3>1 DEF PhaseOver, AllSent, Arrived, SentIn
  <2>4. signed \subseteq proxy_values[p]
    <3>1. \A v : Contribution(p, v).type = "ValueContribution" /\ Contribution(p, v).to = p
      BY DEF Contribution
    <3>2. \A v \in signed : Contribution(p, v) \notin net
      BY <2>3, <3>1
    <3> QED
      BY <1>i, <2>3, <3>2 DEF Shuffled
  <2>5. ASSUME NEW q \in Correct, q # p, NEW v \in signed
        PROVE  SignedValue(q, v, {p}, p) \in net'
    <3>1. v \in Value /\ v \in proxy_values[p] /\ q \in Proxy \ {p} /\ q \notin faulty
      BY <1>i, <1>f, <2>4, <2>5 DEF Correct
    <3>2. /\ SignedValue(q, v, {p}, p) \in messages
          /\ SignedValue(q, v, {p}, p).value = v /\ SignedValue(q, v, {p}, p).to \notin faulty
      BY <3>1 DEF SignedValue
    <3>3. {m \in messages : m.value = v} \in SUBSET {SignedValue(r, v, {p}, p) : r \in Proxy}
      BY DEF SignedValue
    <3> HIDE DEF messages
    <3>s. IsFiniteSet({SignedValue(r, v, {p}, p) : r \in Proxy})
      BY <3>1, MessagesOfOneValue
    <3>4. IsFiniteSet({m \in messages : m.value = v})
      BY <3>3, <3>s, FS_Subset
    <3>5. Multicast(messages)
      BY <2>1
    <3> QED
      BY <3>1, <3>2, <3>4, <3>5, NothingLost
  <2> HIDE DEF messages
  <2>6. ~ phase_1_finished[p] /\ \A q \in Correct : ~ phase_1_finished[q]
    BY <1>i, <2>1 DEF SignedFirst, Past
  <2>7. Shuffled' /\ SetupFirst'
    BY <1>i, <1>f, <2>1, <2>n, <2>2, <2>3, <2>4 DEF Shuffled, SetupFirst, Past
  <2>8. SignedForOthers'
    BY <1>i, <1>f, <2>1, <2>n, <2>2, <2>5, <2>6 DEF SignedForOthers, Past
  <2>9. SignedFirst'
    BY <1>f, <2>1, <2>6 DEF SignedFirst
  <2>10. AcceptedByAll'
    BY <1>i, <1>f, <2>1, <2>2 DEF AcceptedByAll, log2n
  <2> QED
    BY <1>i, <1>f, <2>7, <2>8, <2>9, <2>10 DEF DeliveryInv
<1>7. ASSUME NEW p \in Correct, finish_phase_1(p) PROVE DeliveryInv'
  <2>1. /\ UNCHANGED <<setup, protocol_phase, proxy_values, signed_proxy_values,
                       accepted_proxy_values>>
        /\ protocol_phase[p] = "AGREEMENT" /\ ~ phase_1_finished[p] /\ PhaseOver(p)
        /\ phase_1_finished' = [phase_1_finished EXCEPT ![p] = TRUE]
        /\ net \subseteq net'
    BY <1>7 DEF finish_phase_1, Multicast
  <2>2. Stage(p) = 1
    BY <1>i, <1>f, <2>1, StageIs
  <2>3. \A m \in net : m.type = "SignedValue" => m.to # p
    BY <2>1, <2>2 DEF PhaseOver, Arrived, SentIn
  <2>4. ASSUME NEW q \in Correct PROVE Past(q)
    <3>1. q \in Proxy /\ Stage(q) >= 1
      BY <1>f, <2>1, <2>2 DEF PhaseOver, AllSent
    <3> QED
      BY <1>i, <3>1, StageIs DEF Past
  <2>5. ASSUME NEW r \in Correct, r # p, NEW v \in signed
        PROVE  r \in signed_proxy_values[p][v]
    BY <1>i, <2>3, <2>4, <2>5 DEF SignedForOthers, SignedValue
  <2>6. \A q \in Correct \ {p} : phase_1_finished'[q] = phase_1_finished[q]
    BY <1>i, <1>f, <2>1 DEF PhaseTypes
  <2>7. SignedForOthers'
    BY <1>i, <1>f, <2>1, <2>5, <2>6 DEF SignedForOthers, Past
  <2>8. SignedFirst'
    BY <1>f, <2>1, <2>4 DEF SignedFirst, Past
  <2> QED
    BY <1>i, <1>f, <1>a, <1>t, <2>1, <2>7, <2>8 DEF DeliveryInv
<1>8. ASSUME NEW p \in Correct, finish_phase_2(p) PROVE DeliveryInv'
  <2>1. /\ UNCHANGED <<setup, phase_1_finished, proxy_values, signed_proxy_values, net>>
        /\ protocol_phase[p] = "AGREEMENT" /\ phase_1_finished[p]
        /\ protocol_phase' = [protocol_phase EXCEPT ![p] = "AGGREGATE"]
        /\ accepted_proxy_values' = [accepted_proxy_values EXCEPT ![p] = Acceptable(p)]
    BY <1>8 DEF finish_phase_2
  <2>2. /\ \A q \in Proxy \ {p} : protocol_phase'[q] = protocol_phase[q]
        /\ \A q \in Proxy : Past(q)' <=> Past(q)
        /\ accepted_proxy_values'[p] = Acceptable(p)
        /\ \A q \in Proxy \ {p} : accepted_proxy_values'[q] = accepted_proxy_values[q]
    BY <1>i, <1>f, <2>1 DEF PhaseTypes, TypeInv, Past
  <2>3. \A r \in Correct \ {p}, v \in signed : r \in signed_proxy_values[p][v]
    BY <1>i, <2>1 DEF SignedForOthers, SignedFirst
  <2>4. Cardinality(Correct) >= log2n + 2 => signed \subseteq Acceptable(p)
    BY <1>i, <2>3, OthersAreEnough
  <2>5. AcceptedByAll'
    BY <1>i, <1>f, <2>2, <2>4 DEF AcceptedByAll, log2n
  <2>6. Shuffled' /\ SetupFirst' /\ SignedForOthers' /\ SignedFirst'
    BY <1>i, <1>f, <2>1, <2>2 DEF Shuffled, SetupFirst, SignedForOthers, SignedFirst
  <2> QED
    BY <1>i, <1>f, <2>5, <2>6 DEF DeliveryInv
<1> QED
  BY <1>1, <1>2, <1>3, <1>4, <1>5, <1>6, <1>7, <1>8 DEF Next, Step

\* Everything is still to be sent at the start.
LEMMA InitLosslessInv == Init => LosslessInv
<1> SUFFICES ASSUME Init PROVE LosslessInv
  OBVIOUS
<1>1. /\ setup = signed /\ signed \subseteq Value
      /\ \A p \in Correct : protocol_phase[p] = "SHUFFLE" /\ ~ phase_1_finished[p]
  BY DEF Init, Correct
<1>2. DeliveryInv
  BY <1>1 DEF DeliveryInv, Shuffled, SetupFirst, SignedForOthers, SignedFirst, AcceptedByAll, Past
<1> QED
  BY <1>2, InitSpreadInv DEF LosslessInv

\* Where no meter on the paths has failed and log2n + 2 proxies are correct, what
\* the utility has signed is accepted by all correct proxies, whatever the faulty
\* ones do: the thresholds of both phases are never out of reach of the others.
THEOREM EnoughCorrect == Spec => []EnoughCorrectAccept
<1>1. LosslessInv => EnoughCorrectAccept
  BY DEF LosslessInv, DeliveryInv, AcceptedByAll, EnoughCorrectAccept, Over
<1>2. LosslessInv /\ [Next]_vars => LosslessInv'
  <2> SUFFICES ASSUME LosslessInv, [Next]_vars PROVE LosslessInv'
    OBVIOUS
  <2>1. SpreadInv' /\ TypeInv
    BY StepSpreadInv DEF LosslessInv, SpreadInv, IInv
  <2>2. failed_relays' = failed_relays
    BY <2>1, StepGrows DEF failures
  <2> QED
    BY <2>1, <2>2, StepDeliveryInv DEF LosslessInv
<1> QED
  BY <1>1, <1>2, InitLosslessInv, PTL DEF Spec

=============================================================================
