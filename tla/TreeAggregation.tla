---------------------------- MODULE TreeAggregation ----------------------------
(***************************************************************************)
(* The aggregation phase in one aggregation group: TreeAggregationState,   *)
(* the aggregation half of ProtocolState (start_aggregate_phase and        *)
(* handle_aggregation_message), send_aggregate_if_done of the              *)
(* crash-tolerant protocols and the dispatch of aggregation messages in    *)
(* MeterClient.cpp, at every member of the group, up to the utility.       *)
(*                                                                         *)
(* Each member holds one proxy value per query; sums are bags of such      *)
(* values, so that a value counted twice or in the wrong query shows.  An  *)
(* operator marked "fault" is what a slip in the code would make of the    *)
(* definition it precedes; no action uses it.                              *)
(***************************************************************************)
EXTENDS Integers, FiniteSets, Sequences, SequencesExt, Overlay

CONSTANTS
  NumMeters, NumGroups,
  GroupNum,      \* the group that is modelled
  MaxQuery,      \* bound: the number of the last query
  MaxCrashes     \* bound: members that may crash

Member == {m \in 0..(NumMeters - 1) :
             aggregation_group_for(m, NumGroups, NumMeters) = GroupNum}

ASSUME TreeAssumption ==
  /\ NumMeters \in Nat
  /\ NumGroups \in Nat \ {0, 1}
  /\ pick_proxies_defined(NumGroups, NumMeters)
  /\ GroupNum \in 0..(NumGroups - 1)
  /\ MaxQuery \in Nat
  /\ MaxCrashes \in Nat

Parent(m) == aggregation_tree_parent(m, NumGroups, NumMeters)
Children(m) == {c \in Range(aggregation_tree_children(m, NumGroups, NumMeters)) :
                  c # -1}
Utility == -1

VARIABLES
  query,      \* get_current_query_num() of each member
  phase,      \* protocol_phase: OVERLAY, AGGREGATE or IDLE
  agg,        \* aggregation_phase_state
  future,     \* future_aggregation_messages
  net,        \* aggregation messages in flight to members
  utility,    \* aggregation messages sent to the utility
  issued,     \* the last query the utility has sent out
  crashed

memberVars == <<query, phase, agg, future>>
vars == <<query, phase, agg, future, net, utility, issued, crashed>>

\* The state before initialize().
Fresh == [needed |-> 2, received |-> <<>>]

Init ==
  /\ query = [m \in Member |-> -1]
  /\ phase = [m \in Member |-> "IDLE"]
  /\ agg = [m \in Member |-> Fresh]
  /\ future = [m \in Member |-> <<>>]
  /\ net = {}
  /\ utility = {}
  /\ issued = -1
  /\ crashed = {}

----------------------------------------------------------------------------
(* TreeAggregationState.  Its intermediate message is kept as what has been *)
(* added to it: the messages received, in order, and its own proxy value,   *)
(* once per call of compute_and_send_aggregate.                             *)

initialize_one_child(m, failed) ==      \* fault: waits for one child of two
  [needed |-> IF Children(m) \subseteq failed THEN 0 ELSE 1, received |-> <<>>]
initialize_two_children(m, failed) ==   \* fault: waits for a child that does not exist
  [needed |-> 2 - Cardinality(Children(m) \cap failed), received |-> <<>>]

\* initialize(): one child fewer for each that does not exist or has failed.
initialize(m, failed) ==
  [needed |-> Cardinality(Children(m) \ failed), received |-> <<>>]

aggregate_others(m, q, received, times) ==  \* fault: leaves its own value out
  [from |-> m, query |-> q,
   data |-> FoldSeq(LAMBDA msg, sum : msg.data (+) sum, EmptyBag, received)]

\* The message that member m sends when it has added the messages in received
\* and, times over, its proxy value.  It starts with one contributor, as the
\* constructor of AggregationMessage says.
aggregate(m, q, received, times) ==
  [from |-> m,
   query |-> q,
   data |-> FoldSeq(LAMBDA msg, sum : msg.data (+) sum,
                    [v \in {[query |-> q, holder |-> m]} |-> times], received)]

\* handle_aggregation_message for each message of incoming in turn: from the
\* one on that makes children_received_from reach children_needed, each is
\* followed by compute_and_send_aggregate, which adds the proxy value again
\* to the same intermediate message.
Aggregates(m, q, s, incoming) ==
  LET all == s.received \o incoming
  IN {aggregate(m, q, SubSeq(all, 1, i), i - s.needed + 1) :
        i \in {j \in (Len(s.received) + 1)..Len(all) : j >= s.needed}}

\* Send the aggregates of out to the parent, where they are lost if it is
\* down, and be IDLE when there were any.
Send(m, out, wire) ==
  /\ phase' = [phase EXCEPT ![m] = IF out = {} THEN "AGGREGATE" ELSE "IDLE"]
  /\ utility' = utility \cup (IF Parent(m) = Utility THEN out ELSE {})
  /\ net' = wire \cup (IF Parent(m) \in crashed \cup {Utility} THEN {} ELSE out)

----------------------------------------------------------------------------
(* The handlers of a member. *)

\* start_query() in an overlay protocol.  It leaves future_aggregation_messages
\* as it is.
StartQuery(m) ==
  /\ m \notin crashed
  /\ query[m] < issued
  /\ query' = [query EXCEPT ![m] = query[m] + 1]
  /\ phase' = [phase EXCEPT ![m] = "OVERLAY"]
  /\ agg' = [agg EXCEPT ![m] = Fresh]
  /\ UNCHANGED <<future, net, utility, issued, crashed>>

\* start_aggregate_phase(), with failed the members whose failure m noticed.
\* A member with no child to wait for sends at once and leaves its buffer as
\* it is; any other handles every buffered message, also those after the one
\* that completes its aggregate.
StartAggregatePhase(m) ==
  /\ m \notin crashed
  /\ phase[m] = "OVERLAY"
  /\ \A p \in Member \ crashed : query[p] >= query[m]  \* RoundOverlay!NobodyLeftBehind
  /\ \E failed \in SUBSET crashed :
       LET s == initialize(m, failed)
       IN \/ /\ s.needed = 0
             /\ Send(m, {aggregate(m, query[m], <<>>, 1)}, net)
             /\ agg' = [agg EXCEPT ![m] = s]
             /\ future' = future
          \/ /\ s.needed > 0
             /\ Send(m, Aggregates(m, query[m], s, future[m]), net)
             /\ agg' = [agg EXCEPT ![m] = [s EXCEPT !.received = future[m]]]
             /\ future' = [future EXCEPT ![m] = <<>>]
  /\ UNCHANGED <<query, issued, crashed>>

\* MeterClient::handle_message(AggregationMessage): handled in the aggregation
\* phase, whatever its query number ...
HandleAggregate(m) ==
  /\ m \notin crashed
  /\ phase[m] = "AGGREGATE"
  /\ \E msg \in net :
       /\ Parent(msg.from) = m
       /\ Send(m, Aggregates(m, query[m], agg[m], <<msg>>), net \ {msg})
       /\ agg' = [agg EXCEPT ![m] = [agg[m] EXCEPT !.received = Append(agg[m].received, msg)]]
  /\ UNCHANGED <<query, future, issued, crashed>>

\* ... buffered before and after that phase if it is of the current query, and
\* rejected otherwise.
BufferAggregate(m) ==
  /\ m \notin crashed
  /\ phase[m] # "AGGREGATE"
  /\ \E msg \in net :
       /\ Parent(msg.from) = m
       /\ future' = IF msg.query = query[m]
                    THEN [future EXCEPT ![m] = Append(future[m], msg)]
                    ELSE future
       /\ net' = net \ {msg}
  /\ UNCHANGED <<query, phase, agg, utility, issued, crashed>>

----------------------------------------------------------------------------
(* The environment. *)

IssueQuery ==
  /\ issued < MaxQuery
  /\ issued' = issued + 1
  /\ UNCHANGED <<memberVars, net, utility, crashed>>

Crash(m) ==
  /\ m \notin crashed
  /\ Cardinality(crashed) < MaxCrashes
  /\ crashed' = crashed \cup {m}
  /\ net' = {msg \in net : Parent(msg.from) # m}
  /\ UNCHANGED <<memberVars, utility, issued>>

MemberStep(m) ==
  \/ StartQuery(m)
  \/ StartAggregatePhase(m)
  \/ HandleAggregate(m)
  \/ BufferAggregate(m)

Next == IssueQuery \/ \E m \in Member : MemberStep(m) \/ Crash(m)

Spec == Init /\ [][Next]_vars

\* Requests, overlay phases and messages all come to their end (for the
\* overlay phase, RoundOverlay!OverlaysEnd).  No timer guards this phase.
FairSpec == Spec /\ WF_vars(IssueQuery) /\ WF_vars(\E m \in Member : MemberStep(m))

----------------------------------------------------------------------------
(* Properties. *)

Subtree(m) ==
  LET reach[k \in 0..Cardinality(Member)] ==
        IF k = 0 THEN {m}
        ELSE reach[k-1] \cup UNION {Children(c) : c \in reach[k-1]}
  IN reach[Cardinality(Member)]

Holders(msg) == {v.holder : v \in BagToSet(msg.data)}

\* Without failures the root of a group reports the value of every member
\* exactly once, whatever the order in which members reach the phase and
\* messages arrive early or late: for the first query, which no aggregate of
\* an earlier one can get into (HandleAggregate looks at no query number).
RootSumsAll ==
  crashed = {} =>
    \A msg \in utility : msg.query = 0 =>
      msg.data = SetToBag({[query |-> 0, holder |-> m] : m \in Member})

\* An aggregate holds its sender's own value and otherwise only values from
\* below it in the tree, also when a failed child is left out.
OnlySubtreeSummed ==
  \A msg \in net \cup utility :
    msg.from \in Holders(msg) /\ Holders(msg) \subseteq Subtree(msg.from)

\* There is no timeout in this phase; a member that waits with nothing left
\* in flight waits for a crashed member below it.
StuckOnlyBelowCrash ==
  (net = {} /\ \A m \in Member \ crashed : phase[m] # "OVERLAY" /\ query[m] = issued)
    => \A m \in Member \ crashed :
         phase[m] = "AGGREGATE" => Subtree(m) \cap crashed # {}

\* Unless a member fails, the root answers the last query, even one that
\* overtakes the query before.
LastQueryAnswered == <>(crashed # {} \/ \E msg \in utility : msg.query = MaxQuery)

\* What goes into a sum is of one query: MeterClient.cpp:47 means to reject an
\* aggregate "with the wrong query number".  Violated: the query number is looked
\* at outside of the aggregation phase only, so that the aggregate of a child
\* that is one query behind is added up with those of the next.
SumsOfOneQuery ==
  \A msg \in net \cup utility : \A v \in BagToSet(msg.data) : v.query = msg.query

=============================================================================
