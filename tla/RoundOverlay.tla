----------------------------- MODULE RoundOverlay -----------------------------
(***************************************************************************)
(* The round structure that every protocol of the system runs on: the base *)
(* class ProtocolState (ProtocolState_impl.h) together with the dispatch   *)
(* of overlay messages, pings and query requests in MeterClient.cpp, one   *)
(* meter per ID, composed with the network and the crashes it meets.       *)
(*                                                                         *)
(* In round j of query q every meter sends one batch, the last message of  *)
(* which carries is_final_message, to its gossip target, and leaves the    *)
(* round when the batch of its gossip predecessor arrives, when it knows   *)
(* the predecessor is down, or when it times out with no recent answer to  *)
(* its pings.  A batch stands for its final message, whose query number it *)
(* carries: the last message for the target in waiting_messages and        *)
(* outgoing_messages, or a dummy.  What else it carries is left to the     *)
(* protocols, but waiting_messages outlive their query, and a batch may    *)
(* end with one of those.                                                  *)
(*                                                                         *)
(* Each handler is one atomic step, the recursion of end_overlay_round     *)
(* over rounds that can be left at once included.                          *)
(*                                                                         *)
(* An operator marked "fault" is what a slip in the code would make of the *)
(* definition it precedes; no action uses it.                              *)
(***************************************************************************)
EXTENDS Integers, FiniteSets

CONSTANTS
  N,            \* num_meters, the prime modulus
  LastRound,    \* the round whose end starts the aggregation phase
  Offset,       \* Offset[j] is 2^j mod N, the hop of round j
  MaxQuery,     \* bound: the number of the last query the utility issues
  MaxCrashes,   \* bound: meters that may crash
  SilentLoss,   \* may a send to a crashed meter still report success?
  Synchronous,  \* is a ping answered within OVERLAY_ROUND_TIMEOUT?
  HoldsMessages \* do messages wait for their round (CT), or is all flooded (HFT)?

Meter == 0..(N - 1)
Round == 0..LastRound

ASSUME ConstantsAssumption ==
  /\ N \in Nat \ {0}
  /\ LastRound \in Nat
  /\ Offset \in [Round -> 1..(N - 1)]
  /\ MaxQuery \in Nat
  /\ MaxCrashes \in Nat
  /\ SilentLoss \in BOOLEAN
  /\ Synchronous \in BOOLEAN
  /\ HoldsMessages \in BOOLEAN

NoQuery == -1  \* get_current_query_num() before the first query

VARIABLES
  query,     \* get_current_query_num()
  round,     \* overlay_round
  overlay,   \* is_in_overlay_phase()
  timer,     \* is round_timeout_timer registered?
  pinged,    \* ping_response_from_predecessor
  failed,    \* failed_meter_ids
  future,    \* future_overlay_messages
  waiting,   \* waiting_messages left over from earlier queries
  net,       \* batches in flight
  pings,     \* pings[m]: meters with a ping of m, or the response, in flight
  issued,    \* the last query the utility has sent to every meter
  crashed,   \* meters that have stopped
  skipped    \* history: rounds of its query a meter left without a batch

meterVars == <<query, round, overlay, timer, pinged, failed, future,
              waiting, skipped>>
vars == <<query, round, overlay, timer, pinged, failed, future, waiting,
          skipped, net, pings, issued, crashed>>

----------------------------------------------------------------------------
(* The gossip graph, with the hop of each round given. *)

Target(m, j) == IF m + Offset[j] < N THEN m + Offset[j] ELSE m + Offset[j] - N
Pred(m, j)   == IF m >= Offset[j] THEN m - Offset[j] ELSE m - Offset[j] + N

\* The messages one send_overlay_message_batch puts on the wire.
Batch == [from : Meter, query : 0..MaxQuery, round : Round]
BatchOf(m, q, j) == [from |-> m, query |-> q, round |-> j]
To(b) == Target(b.from, b.round)

\* A message that waits for the round in which its destination is the target.
Leftover == [query : 0..MaxQuery, to : Meter]

TypeOK ==
  /\ query \in [Meter -> NoQuery..MaxQuery]
  /\ round \in [Meter -> Round]
  /\ overlay \in [Meter -> BOOLEAN]
  /\ timer \in [Meter -> BOOLEAN]
  /\ pinged \in [Meter -> BOOLEAN]
  /\ failed \in [Meter -> SUBSET Meter]
  /\ future \in [Meter -> SUBSET Batch]
  /\ waiting \in [Meter -> SUBSET Leftover]
  /\ net \in SUBSET Batch
  /\ pings \in [Meter -> SUBSET Meter]
  /\ issued \in NoQuery..MaxQuery
  /\ crashed \in SUBSET Meter
  /\ skipped \in [Meter -> SUBSET Round]

Init ==
  /\ query = [m \in Meter |-> NoQuery]
  /\ round = [m \in Meter |-> 0]
  /\ overlay = [m \in Meter |-> FALSE]
  /\ timer = [m \in Meter |-> FALSE]
  /\ pinged = [m \in Meter |-> FALSE]
  /\ failed = [m \in Meter |-> {}]
  /\ future = [m \in Meter |-> {}]
  /\ waiting = [m \in Meter |-> {}]
  /\ net = {}
  /\ pings = [m \in Meter |-> {}]
  /\ issued = NoQuery
  /\ crashed = {}
  /\ skipped = [m \in Meter |-> {}]

----------------------------------------------------------------------------
(* Leaving a round. *)

\* A send to a crashed meter fails, unless the connection still looks open.
UndetectedCrashes == IF SilentLoss THEN SUBSET crashed ELSE {{}}

\* The query number of the final message of each batch that meter m sends in
\* the rounds of entered: q, unless all it has for the target of the round is
\* left over from another query.  It sends the leftovers of left in the first
\* round with their destination.
FinalQueries(m, q, entered, left) ==
  {last \in [entered -> 0..q] :
     \A j \in entered : last[j] # q =>
       /\ [query |-> last[j], to |-> Target(m, j)] \in left
       /\ \A i \in entered : i < j => Target(m, i) # Target(m, j)}

\* end_overlay_round() of meter m at the end of round r of query q, when it
\* knows the meters in known to be down: it enters round after round, sending
\* its batch and pinging the predecessor at the start of each, for as long as
\* the predecessor's batch is already buffered or the predecessor is known to
\* be down, and stops in the first round, stop, where neither is so.  Past
\* the last round the aggregation phase starts and the timer stays cancelled.
EndOverlayRound(m, q, r, known, skip, left, wire) ==
  \E silent \in UndetectedCrashes, stop \in (r + 1)..(LastRound + 1) :
    LET down == crashed \ silent
        entered == {j \in (r + 1)..LastRound : j <= stop}
        buffered == {j \in entered : BatchOf(Pred(m, j), q, j) \in future[m]}
        abandoned == {j \in entered \ buffered : Pred(m, j) \in known \cup down}
    IN /\ \A j \in (r + 1)..(stop - 1) : j \in buffered \cup abandoned
       /\ stop \notin buffered \cup abandoned
       /\ round' = [round EXCEPT ![m] = IF stop <= LastRound THEN stop ELSE LastRound]
       /\ overlay' = [overlay EXCEPT ![m] = stop <= LastRound]
       /\ timer' = [timer EXCEPT ![m] = stop <= LastRound]
       /\ pinged' = [pinged EXCEPT ![m] = pinged[m] /\ r = LastRound]
       /\ failed' = [failed EXCEPT ![m] = known \cup
            {p \in down : \E j \in entered : p \in {Target(m, j), Pred(m, j)}}]
       /\ future' = [future EXCEPT ![m] =
            future[m] \ {BatchOf(Pred(m, j), q, j) : j \in buffered}]
       /\ \E last \in FinalQueries(m, q, entered, left) :
            net' = wire \cup {BatchOf(m, last[j], j) :
                                j \in {i \in entered : Target(m, i) \notin crashed}}
       /\ waiting' = [waiting EXCEPT ![m] =
            {w \in left : \A j \in entered : Target(m, j) # w.to}]
       /\ pings' = [pings EXCEPT ![m] = pings[m] \cup
            ({Pred(m, j) : j \in entered} \ (known \cup crashed))]
       /\ skipped' = [skipped EXCEPT ![m] = skip \cup abandoned]

----------------------------------------------------------------------------
(* The handlers of a meter. *)

\* What may be left in waiting_messages when a meter goes on to its next query:
\* the messages of this query that it holds for any of the others.
LeftoversOf(m) ==
  IF HoldsMessages /\ query[m] # NoQuery
  THEN {[query |-> query[m], to |-> p] : p \in Meter \ {m}}
  ELSE {}

\* MeterClient::handle_message(QueryRequest) and ProtocolState::start_query.
\* A meter that is still in an earlier query abandons it; the messages it
\* has buffered or holds stay.  Requests arrive in the order they were sent.
StartQuery(m) ==
  /\ m \notin crashed
  /\ query[m] < issued
  /\ query' = [query EXCEPT ![m] = query[m] + 1]
  /\ \E kept \in SUBSET LeftoversOf(m) :
       EndOverlayRound(m, query[m] + 1, -1, {}, {}, waiting[m] \cup kept, net)
  /\ UNCHANGED <<issued, crashed>>

EarlyOrCurrent(m, b) ==                          \* fault: >= for >
  b.query > query[m] \/ (b.query = query[m] /\ b.round >= round[m])

\* MeterClient::handle_message(OverlayTransportMessage) tells a batch of a
\* later query or a later round ...
Early(m, b) ==
  \/ b.query > query[m]
  \/ b.query = query[m] /\ b.round > round[m]

CurrentInAnyRound(m, b) == b.query = query[m]    \* fault: no round test
CurrentInAnyQuery(m, b) == b.round = round[m]    \* fault: no query test

\* ... from one of this round ...
Current(m, b) == b.query = query[m] /\ b.round = round[m]

\* ... and from one of an earlier query or an earlier round.
TooOldOrCurrent(m, b) ==                         \* fault: <= for <
  b.query < query[m] \/ (b.query = query[m] /\ b.round <= round[m])
TooOld(m, b) ==
  b.query < query[m] \/ (b.query = query[m] /\ b.round < round[m])

lose_future_message(m, b) == future' = future    \* fault: not buffered
buffer_future_message(m, b) == future' = [future EXCEPT ![m] = future[m] \cup {b}]

\* The first is buffered ...
BufferBatch(m) ==
  /\ m \notin crashed
  /\ \E b \in net :
       /\ To(b) = m
       /\ Early(m, b)
       /\ net' = net \ {b}
       /\ buffer_future_message(m, b)
  /\ UNCHANGED <<query, round, overlay, timer, pinged, failed, waiting,
                 skipped, pings, issued, crashed>>

\* ... the second ends the round ...
HandleBatch(m) ==
  /\ m \notin crashed
  /\ overlay[m]
  /\ \E b \in net :
       /\ To(b) = m
       /\ Current(m, b)
       /\ EndOverlayRound(m, query[m], round[m], failed[m], skipped[m], waiting[m],
                          net \ {b})
  /\ UNCHANGED <<query, issued, crashed>>

\* ... and the third is rejected, as one of the last round is when the overlay
\* phase is over.
DropBatch(m) ==
  /\ m \notin crashed
  /\ \E b \in net :
       /\ To(b) = m
       /\ TooOld(m, b) \/ (Current(m, b) /\ ~overlay[m])
       /\ net' = net \ {b}
  /\ UNCHANGED <<meterVars, pings, issued, crashed>>

\* handle_ping_message.  The request to p and its response are one exchange
\* in flight, which p completes as long as it is up when the request arrives
\* (Crash settles that); this is the arrival of the response, noted if it is
\* from the predecessor of the round m is in by then.
ReceivePong(m) ==
  /\ m \notin crashed
  /\ \E p \in pings[m] :
       /\ pings' = [pings EXCEPT ![m] = pings[m] \ {p}]
       /\ pinged' = [pinged EXCEPT ![m] = pinged[m] \/ p = Pred(m, round[m])]
  /\ UNCHANGED <<query, round, overlay, timer, failed, future, waiting,
                 skipped, net, issued, crashed>>

\* The round timer runs out.  With synchronous pings it cannot while a ping to
\* the predecessor, or its response, is on its way.
TimerExpires(m) ==
  /\ m \notin crashed
  /\ timer[m]
  /\ Synchronous => Pred(m, round[m]) \notin pings[m]

AskNobody(m) == UNCHANGED <<failed, pings>>      \* fault: no new ping

\* Ping the predecessor again.
AskAgain(m) ==
  LET p == Pred(m, round[m])
  IN IF p \in crashed
     THEN /\ \E silent \in UndetectedCrashes :
               failed' = [failed EXCEPT ![m] = failed[m] \cup ({p} \ silent)]
          /\ pings' = pings
     ELSE /\ pings' = [pings EXCEPT ![m] = pings[m] \cup {p}]
          /\ failed' = failed

KeepWaitingForever(m) ==                         \* fault: pinged not reset
  /\ TimerExpires(m)
  /\ pinged[m]
  /\ AskAgain(m)
  /\ UNCHANGED <<query, round, overlay, timer, pinged, future, waiting,
                 skipped, net, issued, crashed>>

\* handle_round_timeout, when the predecessor has answered since: ask again.
KeepWaiting(m) ==
  /\ TimerExpires(m)
  /\ pinged[m]
  /\ pinged' = [pinged EXCEPT ![m] = FALSE]
  /\ AskAgain(m)
  /\ UNCHANGED <<query, round, overlay, timer, future, waiting, skipped, net,
                 issued, crashed>>

EndByTimeout(m) ==
  EndOverlayRound(m, query[m], round[m], failed[m], skipped[m] \cup {round[m]},
                  waiting[m], net)

\* handle_round_timeout, when it has not: give the round up.
GiveUp(m) ==
  /\ TimerExpires(m)
  /\ ~pinged[m]
  /\ EndByTimeout(m)
  /\ UNCHANGED <<query, issued, crashed>>

----------------------------------------------------------------------------
(* The environment. *)

\* The utility sends the next query request to every meter.  It may do so
\* before the last query is over (UtilityClient ends a query on a timeout).
IssueQuery ==
  /\ issued < MaxQuery
  /\ issued' = issued + 1
  /\ UNCHANGED <<meterVars, net, pings, crashed>>

\* A meter stops, and what is on its way to it is lost.  The pings it has
\* already answered are those of the meters in answered.
Crash(m) ==
  /\ m \notin crashed
  /\ Cardinality(crashed) < MaxCrashes
  /\ crashed' = crashed \cup {m}
  /\ net' = {b \in net : To(b) # m}
  /\ \E answered \in SUBSET {s \in Meter : m \in pings[s]} :
       pings' = [s \in Meter |-> IF s = m THEN {}
                                 ELSE IF s \in answered THEN pings[s]
                                 ELSE pings[s] \ {m}]
  /\ UNCHANGED <<meterVars, issued>>

Delivery(m) == StartQuery(m) \/ BufferBatch(m) \/ HandleBatch(m) \/ DropBatch(m)
Timeout(m) == KeepWaiting(m) \/ GiveUp(m)

Next ==
  \/ IssueQuery
  \/ \E m \in Meter :
       \/ Delivery(m)
       \/ ReceivePong(m)
       \/ Timeout(m)
       \/ Crash(m)

Spec == Init /\ [][Next]_vars

\* The network delivers the requests and batches it does not lose, in whatever
\* order, ping responses arrive at each meter, and a timer that stays
\* registered fires.  Nothing makes the utility issue a query.
Fairness ==
  /\ WF_vars(\E m \in Meter : Delivery(m))
  /\ \A m \in Meter : WF_vars(Timeout(m)) /\ WF_vars(ReceivePong(m))

FairSpec == Spec /\ Fairness

----------------------------------------------------------------------------
(* Properties. *)

\* Meter p has entered round j of query q, or has gone on to a later query.
Reached(p, q, j) == query[p] > q \/ (query[p] = q /\ round[p] >= j)

\* Meter m has left round j of the query it is in.
Left(m, j) == query[m] # NoQuery /\ (j < round[m] \/ ~overlay[m])

\* A meter that has left a round without skipping it had its predecessor with
\* it in that round: super_end_overlay_round's look into future_overlay_messages
\* and the query and round tests of MeterClient::handle_message never let a
\* batch of another query or another round end a round.
RoundsInStep ==
  \A m \in Meter, j \in Round :
    Left(m, j) /\ j \notin skipped[m] => Reached(Pred(m, j), query[m], j)

\* The batch a meter waits for is never lost: once its predecessor has entered
\* the round, the batch is on its way (it was not rejected as too old, and is
\* not sitting unnoticed in future_overlay_messages).
AwaitedBatchOnItsWay ==
  \A m \in Meter \ crashed :
    LET p == Pred(m, round[m])
    IN overlay[m] /\ query[p] = query[m] /\ round[p] >= round[m]
         => BatchOf(p, query[m], round[m]) \in net

\* Whatever is buffered for the current query is still ahead: no batch stays
\* in future_overlay_messages past the round it was meant for.
BufferedBatchesAhead ==
  \A m \in Meter : \A b \in future[m] :
    b.query = query[m] => overlay[m] /\ b.round > round[m]

\* A round is given up, by handle_round_timeout or because a send failed, only
\* if the predecessor is down.  This needs pings to be answered in time.
OnlyCrashedSkipped ==
  \A m \in Meter : \A j \in skipped[m] : Pred(m, j) \in crashed

\* RoundOverlay implements GossipRounds when pings are answered in time: the
\* barrier of each round holds between a live predecessor and its successor.
\* A meter that is not in an overlay phase has left every round.
Abstract == INSTANCE GossipRounds
  WITH step <- [m \in Meter |-> IF overlay[m] THEN round[m] ELSE LastRound + 1],
       down <- crashed
BarrierHolds == Abstract!Spec

\* heard[j][m] are the meters whose batches, one relaying another, meter m may
\* have received before round j.
GossipSpread(heard) ==
  /\ heard \in [0..(LastRound + 1) -> [Meter -> SUBSET Meter]]
  /\ heard = [j \in 0..(LastRound + 1) |-> [m \in Meter |->
                {m} \cup UNION {heard[i][Pred(m, i)] : i \in 0..(j - 1)}]]

\* By the end of the last round that is every meter.
SpreadsToAll(heard) == \A m \in Meter : heard[LastRound + 1][m] = Meter

\* Without crashes nobody reaches the aggregation phase of a query before
\* every meter has received the request and sent its own contribution off.
NobodyLeftBehind ==
  crashed = {} =>
    \A m, p \in Meter : Left(m, LastRound) => query[p] >= query[m]

\* No timeout, crash, early message or overtaking query wedges a round: once
\* the last query has been issued, every meter that stays up leaves its
\* overlay phase for good.  An empty message is there "to ensure the target
\* can advance his round" (ProtocolState_impl.h:225).
OverlaysEnd ==
  <>[](\A m \in Meter : overlay[m] => m \in crashed)

=============================================================================
