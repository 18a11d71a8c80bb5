-------------------------- MODULE RoundOverlayProofs --------------------------
(***************************************************************************)
(* Theorems about RoundOverlay, for every number of meters, rounds and     *)
(* queries and any number of crashes.  It is type correct and keeps        *)
(* RoundsInStep, with or without timely pings and leftover messages.  Of   *)
(* its buffers, its pings, its batches and its requests it promises        *)
(* BufferedBatchesAhead always; OnlyCrashedSkipped, and with it the        *)
(* barrier of GossipRounds, when pings are answered in time;               *)
(* NobodyLeftBehind when the hops of the rounds reach everyone besides;    *)
(* AwaitedBatchOnItsWay when no message outlives its query.                *)
(***************************************************************************)
EXTENDS RoundOverlay, TLAPS

\* Every batch, in flight or buffered, comes from a meter that has entered
\* its round: send_overlay_message_batch runs on entering a round.
BatchesSent ==
  /\ \A b \in net : Reached(b.from, b.query, b.round)
  /\ \A m \in Meter : \A b \in future[m] : Reached(b.from, b.query, b.round)

\* A round timer runs only once a query has started.
TimersInQuery == \A m \in Meter : timer[m] => query[m] # NoQuery

\* The inductive invariant: RoundsInStep alone says nothing of the batch that
\* ends a round, nor of the meter whose timer runs out.
StepInv == TypeOK /\ TimersInQuery /\ BatchesSent /\ RoundsInStep

----------------------------------------------------------------------------
(* The gossip graph. *)

\* The meter a batch of round j is sent to, and the one it is expected from,
\* are meters (util::gossip_target, util::gossip_predecessor).
LEMMA NeighboursAreMeters ==
  ASSUME NEW m \in Meter, NEW j \in Round
  PROVE  Target(m, j) \in Meter /\ Pred(m, j) \in Meter
  <1>1. N \in Nat /\ Offset[j] \in 1..(N - 1)
    BY ConstantsAssumption
  <1> QED
    BY <1>1 DEF Meter, Target, Pred

\* A meter expects the batch of a round from the one that sends it there.
LEMMA SenderIsPredecessor ==
  ASSUME NEW f \in Meter, NEW j \in Round
  PROVE  Pred(Target(f, j), j) = f
  <1>1. N \in Nat /\ Offset[j] \in 1..(N - 1)
    BY ConstantsAssumption
  <1> QED
    BY <1>1 DEF Meter, Target, Pred

----------------------------------------------------------------------------
(* What end_overlay_round does. *)

\* It keeps the types; it moves meter m, and no other, to a round that is at
\* least r; what it sends are batches of m for the rounds m has entered, of q or
\* of an earlier query; and a round it passes without skipping it has its batch in the buffer.
LEMMA EndOverlayRoundEffect ==
  ASSUME TypeOK,
         NEW m \in Meter, NEW q \in 0..MaxQuery, NEW r \in -1..LastRound,
         NEW known \in SUBSET Meter, NEW skip \in SUBSET Round,
         NEW left \in SUBSET Leftover, NEW wire \in SUBSET Batch,
         EndOverlayRound(m, q, r, known, skip, left, wire)
  PROVE  /\ round' \in [Meter -> Round]
         /\ overlay' \in [Meter -> BOOLEAN]
         /\ timer' \in [Meter -> BOOLEAN]
         /\ pinged' \in [Meter -> BOOLEAN]
         /\ failed' \in [Meter -> SUBSET Meter]
         /\ future' \in [Meter -> SUBSET Batch]
         /\ net' \in SUBSET Batch
         /\ waiting' \in [Meter -> SUBSET Leftover]
         /\ pings' \in [Meter -> SUBSET Meter]
         /\ skipped' \in [Meter -> SUBSET Round]
         /\ \A p \in Meter \ {m} : /\ round'[p] = round[p]
                                  /\ overlay'[p] = overlay[p]
                                  /\ skipped'[p] = skipped[p]
         /\ round'[m] >= r
         /\ \A p \in Meter : future'[p] \subseteq future[p]
         /\ \A b \in net' \ wire : b.from = m /\ b.query <= q /\ b.round <= round'[m]
         /\ skip \subseteq skipped'[m]
         /\ \A j \in Round :
              r < j /\ (j < round'[m] \/ ~overlay'[m]) /\ j \notin skipped'[m]
                => BatchOf(Pred(m, j), q, j) \in future[m]
  <1> USE ConstantsAssumption
  <1>1. PICK silent \in UndetectedCrashes, stop \in (r + 1)..(LastRound + 1) :
          LET down == crashed \ silent
              entered == {j \in (r + 1)..LastRound : j <= stop}
              buffered == {j \in entered : BatchOf(Pred(m, j), q, j) \in future[m]}
              abandoned == {j \in entered \ buffered : Pred(m, j) \in known \cup down}
          IN /\ \A j \in (r + 1)..(stop - 1) : j \in buffered \cup abandoned
             /\ stop \notin buffered \cup abandoned
             /\ round' = [round EXCEPT ![m] = IF stop <= LastRound THEN stop ELSE LastRound]
             /\ overlay' = [overlay EXCEPT ![m] = stop <= LastRound]
             /\ timer' = [timer EXCEPT ![m] = stop <= LastRound]
             /\ pinged' = [pinged EXCEPT ![m] = pinged[m] /\ r = LastRound]
             /\ failed' = [failed EXCEPT ![m] = known \cup
                  {p \in down : \E j \in entered : p \in {Target(m, j), Pred(m, j)}}]
             /\ future' = [future EXCEPT ![m] =
                  future[m] \ {BatchOf(Pred(m, j), q, j) : j \in buffered}]
             /\ \E last \in FinalQueries(m, q, entered, left) :
                  net' = wire \cup {BatchOf(m, last[j], j) :
                                      j \in {i \in entered : Target(m, i) \notin crashed}}
             /\ waiting' = [waiting EXCEPT ![m] =
                  {w \in left : \A j \in entered : Target(m, j) # w.to}]
             /\ pings' = [pings EXCEPT ![m] = pings[m] \cup
                  ({Pred(m, j) : j \in entered} \ (known \cup crashed))]
             /\ skipped' = [skipped EXCEPT ![m] = skip \cup abandoned]
    BY DEF EndOverlayRound
  <1> DEFINE down == crashed \ silent
             entered == {j \in (r + 1)..LastRound : j <= stop}
             buffered == {j \in entered : BatchOf(Pred(m, j), q, j) \in future[m]}
             abandoned == {j \in entered \ buffered : Pred(m, j) \in known \cup down}
  <1>2. entered \subseteq Round
    BY DEF Round
  <1>3. \A j \in entered : Pred(m, j) \in Meter
    BY <1>2, NeighboursAreMeters
  <1>3a. PICK last \in [entered -> 0..q] :
           net' = wire \cup {BatchOf(m, last[j], j) :
                               j \in {i \in entered : Target(m, i) \notin crashed}}
    BY <1>1 DEF FinalQueries
  <1>3b. \A j \in entered : BatchOf(m, last[j], j) \in Batch
    BY <1>2, <1>3a DEF BatchOf, Batch
  <1>3c. waiting' \in [Meter -> SUBSET Leftover]
    BY <1>1 DEF TypeOK
  <1>4. round' \in [Meter -> Round]
    <2>1. (IF stop <= LastRound THEN stop ELSE LastRound) \in Round
      BY DEF Round
    <2> QED BY <1>1, <2>1 DEF TypeOK
  <1>5. /\ overlay' \in [Meter -> BOOLEAN]
        /\ timer' \in [Meter -> BOOLEAN]
    BY <1>1 DEF TypeOK
  <1>6. pinged' \in [Meter -> BOOLEAN]
    <2>1. (pinged[m] /\ r = LastRound) \in BOOLEAN
      OBVIOUS
    <2> QED BY <1>1, <2>1 DEF TypeOK
  <1>7. failed' \in [Meter -> SUBSET Meter]
    BY <1>1 DEF TypeOK
  <1>8. future' \in [Meter -> SUBSET Batch]
    BY <1>1 DEF TypeOK
  <1>9. net' \in SUBSET Batch
    BY <1>3a, <1>3b
  <1>10. pings' \in [Meter -> SUBSET Meter]
    BY <1>1, <1>3 DEF TypeOK
  <1>11. skipped' \in [Meter -> SUBSET Round]
    BY <1>1, <1>2 DEF TypeOK
  <1>12. \A p \in Meter \ {m} : /\ round'[p] = round[p]
                             /\ overlay'[p] = overlay[p]
                             /\ skipped'[p] = skipped[p]
    BY <1>1 DEF TypeOK
  <1>13. /\ round'[m] = IF stop <= LastRound THEN stop ELSE LastRound
         /\ overlay'[m] = (stop <= LastRound)
         /\ skipped'[m] = skip \cup abandoned
    BY <1>1 DEF TypeOK
  <1>14. round'[m] >= r
    BY <1>13
  <1>15. \A p \in Meter : future'[p] \subseteq future[p]
    BY <1>1 DEF TypeOK
  <1>16. \A b \in net' \ wire : b.from = m /\ b.query <= q /\ b.round <= round'[m]
    BY <1>13, <1>3a DEF BatchOf
  <1>17. ASSUME NEW j \in Round,
                r < j, j < round'[m] \/ ~overlay'[m], j \notin skipped'[m]
         PROVE  BatchOf(Pred(m, j), q, j) \in future[m]
    <2>1. j \in (r + 1)..(stop - 1)
      <3>1. CASE stop <= LastRound
        <4>1. j < stop
          BY <1>13, <1>17, <3>1
        <4> QED BY <1>17, <4>1 DEF Round
      <3>2. CASE ~(stop <= LastRound)
        BY <1>17, <3>2 DEF Round
      <3> QED BY <3>1, <3>2
    <2>2. j \in buffered
      BY <1>1, <1>13, <1>17, <2>1
    <2> QED
      BY <2>2
  <1> QED
    BY <1>4, <1>5, <1>6, <1>7, <1>8, <1>9, <1>10, <1>11, <1>12, <1>13, <1>14,
       <1>15, <1>16, <1>17, <1>3c

----------------------------------------------------------------------------
(* The induction. *)

\* No meter ever goes back: to an earlier query, or to an earlier round of a
\* query.
NoneGoesBack ==
  \A p \in Meter : query'[p] > query[p] \/ (query'[p] = query[p] /\ round'[p] >= round[p])

\* What a meter has reached it has reached for good.
LEMMA ReachedStays ==
  ASSUME TypeOK, query' \in [Meter -> NoQuery..MaxQuery], round' \in [Meter -> Round],
         NoneGoesBack,
         NEW p \in Meter, NEW k \in Int, NEW j \in Round,
         Reached(p, k, j)
  PROVE  Reached(p, k, j)'
  <1>1. /\ query[p] \in Int /\ query'[p] \in Int
        /\ round[p] \in Int /\ round'[p] \in Int
        /\ j \in Int
    BY ConstantsAssumption DEF TypeOK, NoQuery, Round
  <1> QED
    BY <1>1 DEF NoneGoesBack, Reached

\* The invariant survives end_overlay_round, whoever calls it: at the start of
\* query q with r = -1, and at the end of round r of the current query, as long
\* as every round up to r that is not skipped was reached by the predecessor.
LEMMA EndOverlayRoundKeepsStepInv ==
  ASSUME StepInv,
         NEW m \in Meter, NEW q \in 0..MaxQuery, NEW r \in -1..LastRound,
         NEW known \in SUBSET Meter, NEW skip \in SUBSET Round,
         NEW left \in SUBSET Leftover, NEW wire \in SUBSET net,
         EndOverlayRound(m, q, r, known, skip, left, wire),
         q > query[m] \/ (q = query[m] /\ r >= round[m]),
         \A j \in Round : j <= r /\ j \notin skip => Reached(Pred(m, j), q, j),
         query' = [query EXCEPT ![m] = q],
         UNCHANGED <<issued, crashed>>
  PROVE  StepInv'
  <1> USE ConstantsAssumption
  <1>1. TypeOK
    BY DEF StepInv
  <1>2. wire \in SUBSET Batch
    BY <1>1 DEF TypeOK
  <1>3. query' \in [Meter -> NoQuery..MaxQuery] /\ query'[m] = q
    BY <1>1 DEF TypeOK, NoQuery
  <1>4. TypeOK'
    BY <1>1, <1>2, <1>3, EndOverlayRoundEffect DEF TypeOK
  <1>5. /\ \A p \in Meter \ {m} : /\ round'[p] = round[p]
                                /\ overlay'[p] = overlay[p]
                                /\ skipped'[p] = skipped[p]
        /\ round'[m] >= r
        /\ \A p \in Meter : future'[p] \subseteq future[p]
        /\ \A b \in net' \ wire : b.from = m /\ b.query <= q /\ b.round <= round'[m]
        /\ skip \subseteq skipped'[m]
        /\ \A j \in Round :
             r < j /\ (j < round'[m] \/ ~overlay'[m]) /\ j \notin skipped'[m]
               => BatchOf(Pred(m, j), q, j) \in future[m]
    BY <1>1, <1>2, EndOverlayRoundEffect
  <1>6. \A p \in Meter \ {m} : query'[p] = query[p] /\ timer'[p] = timer[p]
    BY <1>1 DEF TypeOK, EndOverlayRound
  <1>7. NoneGoesBack
    <2>1. ASSUME NEW p \in Meter
          PROVE  query'[p] > query[p] \/ (query'[p] = query[p] /\ round'[p] >= round[p])
      <3>1. query[p] \in Int /\ round[p] \in Int /\ round'[p] \in Int
        BY <1>1, <1>4 DEF TypeOK, NoQuery, Round
      <3>2. CASE p = m
        BY <1>3, <1>5, <3>1, <3>2
      <3>3. CASE p # m
        BY <1>5, <1>6, <3>1, <3>3
      <3> QED BY <3>2, <3>3
    <2> QED BY <2>1 DEF NoneGoesBack
  <1>8. ASSUME NEW p \in Meter, NEW k \in Int, NEW j \in Round, Reached(p, k, j)
        PROVE  Reached(p, k, j)'
    BY <1>1, <1>4, <1>7, <1>8, ReachedStays DEF TypeOK
  <1>9. TimersInQuery'
    BY <1>3, <1>6 DEF StepInv, TimersInQuery, NoQuery
  <1>10. BatchesSent'
    <2>1. ASSUME NEW b \in net'
          PROVE  Reached(b.from, b.query, b.round)'
      <3>1. b.from \in Meter /\ b.query \in Int /\ b.round \in Round
        BY <1>4 DEF TypeOK, Batch
      <3>2. CASE b \in wire
        BY <1>8, <3>1, <3>2 DEF StepInv, BatchesSent
      <3>3. CASE b \notin wire
        <4>1. b.from = m /\ b.query <= q /\ b.round <= round'[m]
          BY <1>5, <3>3
        <4> QED BY <1>3, <3>1, <4>1 DEF Reached
      <3> QED BY <3>2, <3>3
    <2>2. ASSUME NEW p \in Meter, NEW b \in future'[p]
          PROVE  Reached(b.from, b.query, b.round)'
      <3>1. b.from \in Meter /\ b.query \in Int /\ b.round \in Round
        BY <1>4 DEF TypeOK, Batch
      <3>2. b \in future[p]
        BY <1>5
      <3> QED BY <1>8, <3>1, <3>2 DEF StepInv, BatchesSent
    <2> QED BY <2>1, <2>2 DEF BatchesSent
  <1>11. RoundsInStep'
    <2>1. ASSUME NEW p \in Meter, NEW j \in Round, Left(p, j)', j \notin skipped'[p]
          PROVE  Reached(Pred(p, j), query[p], j)'
      <3>1. Pred(p, j) \in Meter
        BY NeighboursAreMeters
      <3>2. CASE p = m /\ j <= r
        BY <1>3, <1>5, <1>8, <2>1, <3>1, <3>2 DEF Reached
      <3>3. CASE p = m /\ ~(j <= r)
        <4>1. BatchOf(Pred(m, j), q, j) \in future[m]
          BY <1>5, <2>1, <3>3 DEF Left, Round
        <4>2. Reached(Pred(m, j), q, j)
          BY <4>1 DEF StepInv, BatchesSent, BatchOf
        <4> QED BY <1>3, <1>8, <3>1, <3>3, <4>2 DEF Reached
      <3>4. CASE p # m
        <4>1. Left(p, j) /\ j \notin skipped[p]
          BY <1>5, <1>6, <2>1, <3>4 DEF Left
        <4>2. Reached(Pred(p, j), query[p], j) /\ query[p] \in Int
          BY <1>1, <4>1 DEF StepInv, RoundsInStep, TypeOK, NoQuery
        <4> QED BY <1>6, <1>8, <3>1, <3>4, <4>2 DEF Reached
      <3> QED BY <3>2, <3>3, <3>4
    <2> QED BY <2>1 DEF RoundsInStep
  <1> QED BY <1>4, <1>9, <1>10, <1>11 DEF StepInv

\* No meter has started a query, so none has left a round.
LEMMA InitStepInv == Init => StepInv
  <1> SUFFICES ASSUME Init PROVE StepInv
    OBVIOUS
  <1> USE ConstantsAssumption
  <1>1. TypeOK
    BY DEF Init, TypeOK, NoQuery, Round
  <1>2. TimersInQuery /\ BatchesSent /\ RoundsInStep
    BY DEF Init, TimersInQuery, BatchesSent, RoundsInStep, Left
  <1> QED BY <1>1, <1>2 DEF StepInv

\* What a step that is no end of a round must leave alone for StepInv to hold.
LEMMA OtherStepsKeepStepInv ==
  ASSUME StepInv, TypeOK',
         UNCHANGED <<query, round, overlay, timer, skipped>>,
         net' \subseteq net,
         \A m \in Meter : future'[m] \subseteq future[m] \cup net
  PROVE  StepInv'
  <1>1. \A p, k, j : Reached(p, k, j)' <=> Reached(p, k, j)
    BY DEF Reached
  <1>2. BatchesSent'
    BY <1>1 DEF StepInv, BatchesSent
  <1>3. TimersInQuery' /\ RoundsInStep'
    BY DEF StepInv, TimersInQuery, RoundsInStep, Left, Reached
  <1> QED BY <1>2, <1>3 DEF StepInv

\* Every step of any meter preserves the invariant.
LEMMA NextStepInv == StepInv /\ [Next]_vars => StepInv'
  <1> SUFFICES ASSUME StepInv, [Next]_vars PROVE StepInv'
    OBVIOUS
  <1> USE ConstantsAssumption
  <1>1. TypeOK
    BY DEF StepInv
  <1>2. CASE IssueQuery
    <2>1. TypeOK'
      BY <1>1, <1>2 DEF IssueQuery, TypeOK, meterVars, NoQuery
    <2> QED BY <1>2, <2>1, OtherStepsKeepStepInv DEF IssueQuery, meterVars
  <1>3. ASSUME NEW m \in Meter, StartQuery(m)
        PROVE  StepInv'
    <2>1. query[m] \in NoQuery..MaxQuery /\ issued \in NoQuery..MaxQuery
      BY <1>1 DEF TypeOK
    <2>2. query[m] + 1 \in 0..MaxQuery /\ query[m] + 1 > query[m]
      BY <1>3, <2>1 DEF StartQuery, NoQuery
    <2>3. -1 \in -1..LastRound /\ \A j \in Round : ~(j <= -1)
      BY DEF Round
    <2>4. PICK kept \in SUBSET LeftoversOf(m) :
            EndOverlayRound(m, query[m] + 1, -1, {}, {}, waiting[m] \cup kept, net)
      BY <1>3 DEF StartQuery
    <2>5. waiting[m] \cup kept \in SUBSET Leftover
      BY <1>1, <2>1 DEF TypeOK, LeftoversOf, Leftover, NoQuery
    <2> QED
      BY <1>3, <2>2, <2>3, <2>4, <2>5, EndOverlayRoundKeepsStepInv
         DEF StartQuery
  <1>4. ASSUME NEW m \in Meter, BufferBatch(m)
        PROVE  StepInv'
    <2>1. TypeOK'
      BY <1>1, <1>4 DEF BufferBatch, buffer_future_message, TypeOK
    <2> QED BY <1>1, <1>4, <2>1, OtherStepsKeepStepInv DEF BufferBatch, buffer_future_message, TypeOK
  <1>5. ASSUME NEW m \in Meter, HandleBatch(m)
        PROVE  StepInv'
    <2>1. PICK b \in net :
            /\ To(b) = m
            /\ b.query = query[m]
            /\ b.round = round[m]
            /\ EndOverlayRound(m, query[m], round[m], failed[m], skipped[m], waiting[m],
                               net \ {b})
      BY <1>5 DEF HandleBatch, Current
    <2>2. b.from \in Meter /\ query[m] \in 0..MaxQuery /\ round[m] \in Round
      BY <1>1, <2>1 DEF TypeOK, Batch
    <2>3. ASSUME NEW j \in Round, j <= round[m], j \notin skipped[m]
          PROVE  Reached(Pred(m, j), query[m], j)
      <3>1. CASE j = round[m]
        <4>1. Pred(m, j) = b.from
          BY <2>1, <2>2, <3>1, SenderIsPredecessor DEF To
        <4> QED BY <2>1, <3>1, <4>1 DEF StepInv, BatchesSent
      <3>2. CASE j < round[m]
        BY <2>2, <2>3, <3>2 DEF StepInv, RoundsInStep, Left, NoQuery
      <3> QED BY <2>2, <2>3, <3>1, <3>2 DEF Round
    <2>4. /\ round[m] \in -1..LastRound
          /\ failed[m] \in SUBSET Meter
          /\ waiting[m] \in SUBSET Leftover
          /\ skipped[m] \in SUBSET Round
          /\ query' = [query EXCEPT ![m] = query[m]]
      <3>1. /\ failed[m] \in SUBSET Meter
            /\ waiting[m] \in SUBSET Leftover
            /\ skipped[m] \in SUBSET Round
        BY <1>1 DEF TypeOK
      <3>2. query' = [query EXCEPT ![m] = query[m]]
        BY <1>1, <1>5 DEF TypeOK, HandleBatch
      <3> QED BY <2>2, <3>1, <3>2 DEF Round
    <2>5. round[m] >= round[m] /\ net \ {b} \in SUBSET net
      BY <2>2 DEF Round
    <2> QED
      <3>1. UNCHANGED <<issued, crashed>>
        BY <1>5 DEF HandleBatch
      <3>2. EndOverlayRound(m, query[m], round[m], failed[m], skipped[m], waiting[m], net \ {b})
        BY <2>1
      <3>3. \A j \in Round : j <= round[m] /\ j \notin skipped[m]
              => Reached(Pred(m, j), query[m], j)
        BY <2>3
      <3> HIDE DEF StepInv
      <3> QED
        BY <2>2, <2>4, <2>5, <3>1, <3>2, <3>3, EndOverlayRoundKeepsStepInv
  <1>6. ASSUME NEW m \in Meter, DropBatch(m)
        PROVE  StepInv'
    <2>1. TypeOK'
      BY <1>1, <1>6 DEF DropBatch, TypeOK, meterVars
    <2> QED BY <1>6, <2>1, OtherStepsKeepStepInv DEF DropBatch, meterVars
  <1>7. ASSUME NEW m \in Meter, ReceivePong(m)
        PROVE  StepInv'
    <2>1. TypeOK'
      <3>1. pinged' \in [Meter -> BOOLEAN] /\ pings' \in [Meter -> SUBSET Meter]
        BY <1>1, <1>7 DEF ReceivePong, TypeOK
      <3> QED BY <1>1, <1>7, <3>1 DEF ReceivePong, TypeOK
    <2> QED BY <1>7, <2>1, OtherStepsKeepStepInv DEF ReceivePong
  <1>8. ASSUME NEW m \in Meter, KeepWaiting(m)
        PROVE  StepInv'
    <2>1. Pred(m, round[m]) \in Meter
      BY <1>1, NeighboursAreMeters DEF TypeOK
    <2>2. failed' \in [Meter -> SUBSET Meter] /\ pings' \in [Meter -> SUBSET Meter]
      BY <1>1, <1>8, <2>1 DEF KeepWaiting, AskAgain, TypeOK
    <2>3. TypeOK'
      BY <1>1, <1>8, <2>2 DEF KeepWaiting, AskAgain, TypeOK
    <2> QED BY <1>8, <2>3, OtherStepsKeepStepInv DEF KeepWaiting
  <1>9. ASSUME NEW m \in Meter, GiveUp(m)
        PROVE  StepInv'
    <2>1. query[m] \in 0..MaxQuery /\ round[m] \in Round
      BY <1>1, <1>9 DEF GiveUp, TimerExpires, StepInv, TimersInQuery, TypeOK, NoQuery
    <2>2. ASSUME NEW j \in Round, j <= round[m], j \notin skipped[m] \cup {round[m]}
          PROVE  Reached(Pred(m, j), query[m], j)
      <3>1. j < round[m]
        BY <2>1, <2>2 DEF Round
      <3> QED BY <2>1, <2>2, <3>1 DEF StepInv, RoundsInStep, Left, NoQuery
    <2>3. /\ round[m] \in -1..LastRound /\ round[m] >= round[m]
          /\ failed[m] \in SUBSET Meter
          /\ waiting[m] \in SUBSET Leftover
          /\ skipped[m] \cup {round[m]} \in SUBSET Round
          /\ query' = [query EXCEPT ![m] = query[m]]
      BY <1>1, <1>9, <2>1 DEF TypeOK, GiveUp, Round
    <2>4. /\ EndOverlayRound(m, query[m], round[m], failed[m], skipped[m] \cup {round[m]},
                             waiting[m], net)
          /\ UNCHANGED <<issued, crashed>>
          /\ net \in SUBSET net
      BY <1>9 DEF GiveUp, EndByTimeout
    <2> QED
      BY <2>1, <2>2, <2>3, <2>4, EndOverlayRoundKeepsStepInv
  <1>10. ASSUME NEW m \in Meter, Crash(m)
         PROVE  StepInv'
    <2>1. TypeOK'
      BY <1>1, <1>10 DEF Crash, TypeOK, meterVars
    <2> QED BY <1>10, <2>1, OtherStepsKeepStepInv DEF Crash, meterVars
  <1>11. CASE UNCHANGED vars
    <2>1. TypeOK'
      BY <1>1, <1>11 DEF vars, TypeOK
    <2> QED BY <1>11, <2>1, OtherStepsKeepStepInv DEF vars
  <1> QED
    BY <1>2, <1>3, <1>4, <1>5, <1>6, <1>7, <1>8, <1>9, <1>10, <1>11
       DEF Next, Delivery, Timeout

----------------------------------------------------------------------------
(* The theorems. *)

\* The state of every meter, and all that travels, stays within its types:
\* in particular the round never runs past the last one, however many rounds
\* one call of end_overlay_round passes.
THEOREM TypeCorrect == Spec => []TypeOK
  <1>1. StepInv => TypeOK
    BY DEF StepInv
  <1> QED BY <1>1, InitStepInv, NextStepInv, PTL DEF Spec

\* A meter that has left a round without skipping it had its predecessor with
\* it in that round, for all the ways in which end_overlay_round is reached.
THEOREM RoundsStayInStep == Spec => []RoundsInStep
  <1>1. StepInv => RoundsInStep
    BY DEF StepInv
  <1> QED BY <1>1, InitStepInv, NextStepInv, PTL DEF Spec

----------------------------------------------------------------------------
(* Buffers, pings, batches and requests. *)


\* The timer runs in the overlay phase of a query, which leaves the round
\* counter at the last round.
PhaseInQuery ==
  \A m \in Meter :
    /\ timer[m] = overlay[m]
    /\ overlay[m] => query[m] # NoQuery
    /\ query[m] # NoQuery /\ ~overlay[m] => round[m] = LastRound

\* A meter buffers only what is sent to it.
BuffersOwn == \A m \in Meter : \A b \in future[m] : To(b) = m

\* The inductive invariant of BufferedBatchesAhead.
BufferInv == StepInv /\ PhaseInQuery /\ BuffersOwn /\ BufferedBatchesAhead

----------------------------------------------------------------------------
(* What end_overlay_round does, from round r to round stop. *)

\* Meter m stops in round stop of query q, having passed each round between
\* because its batch was buffered or its predecessor known or found to be down.
Passes(m, q, r, known, skip, left, wire, stop) ==
  /\ round' = [round EXCEPT ![m] = IF stop <= LastRound THEN stop ELSE LastRound]
  /\ overlay' = [overlay EXCEPT ![m] = stop <= LastRound]
  /\ timer' = [timer EXCEPT ![m] = stop <= LastRound]
  /\ \A j \in (r + 1)..(stop - 1) :
       BatchOf(Pred(m, j), q, j) \in future[m] \/ Pred(m, j) \in known \cup crashed
  /\ stop <= LastRound => BatchOf(Pred(m, stop), q, stop) \notin future[m]
  /\ \A b \in future[m] : b \in future'[m] \/
       \E j \in (r + 1)..(stop - 1) : b = BatchOf(Pred(m, j), q, j)
  /\ future'[m] \subseteq future[m]
  /\ \A j \in (r + 1)..(stop - 1) : BatchOf(Pred(m, j), q, j) \notin future'[m]
  /\ \A p \in Meter \ {m} : /\ future'[p] = future[p]
                            /\ failed'[p] = failed[p]
                            /\ waiting'[p] = waiting[p]
                            /\ pings'[p] = pings[p]
                            /\ pinged'[p] = pinged[p]
                            /\ skipped'[p] = skipped[p]
  /\ failed'[m] \subseteq known \cup crashed
  /\ waiting'[m] \subseteq left
  /\ stop <= LastRound => Pred(m, stop) \in pings'[m] \cup known \cup crashed
  /\ \A j \in skipped'[m] : j \in skip \/ Pred(m, j) \in known \cup crashed
  /\ wire \subseteq net'
  /\ \A b \in net' \ wire : b.from = m /\ b.query <= q /\ b.round <= stop
  /\ left = {} =>
       \A j \in Round : r < j /\ j <= stop /\ Target(m, j) \notin crashed
                          => BatchOf(m, q, j) \in net'

\* Every call of end_overlay_round passes to some later round in this way.
LEMMA EndOverlayRoundPasses ==
  ASSUME TypeOK,
         NEW m \in Meter, NEW q \in 0..MaxQuery, NEW r \in -1..LastRound,
         NEW known \in SUBSET Meter, NEW skip \in SUBSET Round,
         NEW left \in SUBSET Leftover, NEW wire \in SUBSET Batch,
         EndOverlayRound(m, q, r, known, skip, left, wire)
  PROVE  \E stop \in (r + 1)..(LastRound + 1) :
           Passes(m, q, r, known, skip, left, wire, stop)
  <1> USE ConstantsAssumption
  <1>1. PICK silent \in UndetectedCrashes, stop \in (r + 1)..(LastRound + 1) :
          LET down == crashed \ silent
              entered == {j \in (r + 1)..LastRound : j <= stop}
              buffered == {j \in entered : BatchOf(Pred(m, j), q, j) \in future[m]}
              abandoned == {j \in entered \ buffered : Pred(m, j) \in known \cup down}
          IN /\ \A j \in (r + 1)..(stop - 1) : j \in buffered \cup abandoned
             /\ stop \notin buffered \cup abandoned
             /\ round' = [round EXCEPT ![m] = IF stop <= LastRound THEN stop ELSE LastRound]
             /\ overlay' = [overlay EXCEPT ![m] = stop <= LastRound]
             /\ timer' = [timer EXCEPT ![m] = stop <= LastRound]
             /\ pinged' = [pinged EXCEPT ![m] = pinged[m] /\ r = LastRound]
             /\ failed' = [failed EXCEPT ![m] = known \cup
                  {p \in down : \E j \in entered : p \in {Target(m, j), Pred(m, j)}}]
             /\ future' = [future EXCEPT ![m] =
                  future[m] \ {BatchOf(Pred(m, j), q, j) : j \in buffered}]
             /\ \E last \in FinalQueries(m, q, entered, left) :
                  net' = wire \cup {BatchOf(m, last[j], j) :
                                      j \in {i \in entered : Target(m, i) \notin crashed}}
             /\ waiting' = [waiting EXCEPT ![m] =
                  {w \in left : \A j \in entered : Target(m, j) # w.to}]
             /\ pings' = [pings EXCEPT ![m] = pings[m] \cup
                  ({Pred(m, j) : j \in entered} \ (known \cup crashed))]
             /\ skipped' = [skipped EXCEPT ![m] = skip \cup abandoned]
    BY DEF EndOverlayRound
  <1> DEFINE down == crashed \ silent
             entered == {j \in (r + 1)..LastRound : j <= stop}
             buffered == {j \in entered : BatchOf(Pred(m, j), q, j) \in future[m]}
             abandoned == {j \in entered \ buffered : Pred(m, j) \in known \cup down}
  <1>2. stop <= LastRound => stop \in entered
    OBVIOUS
  <1>3. \A j \in (r + 1)..(stop - 1) : j \in entered
    OBVIOUS
  <1>4. future'[m] = future[m] \ {BatchOf(Pred(m, j), q, j) : j \in buffered}
    BY <1>1 DEF TypeOK
  <1>5. stop \notin buffered
    BY <1>1
  <1>6. \A j \in buffered : j \in (r + 1)..(stop - 1)
    BY <1>5
  <1>7. \A b \in future[m] : b \in future'[m] \/
          \E j \in (r + 1)..(stop - 1) : b = BatchOf(Pred(m, j), q, j)
    BY <1>4, <1>6
  <1>8. ASSUME NEW j \in (r + 1)..(stop - 1)
        PROVE  BatchOf(Pred(m, j), q, j) \notin future'[m]
    BY <1>3, <1>4
  <1>9. ASSUME NEW j \in (r + 1)..(stop - 1)
        PROVE  BatchOf(Pred(m, j), q, j) \in future[m] \/ Pred(m, j) \in known \cup crashed
    BY <1>1
  <1>10. stop <= LastRound => BatchOf(Pred(m, stop), q, stop) \notin future[m]
    BY <1>2, <1>5
  <1>11. \A p \in Meter \ {m} : /\ future'[p] = future[p]
                                /\ failed'[p] = failed[p]
                                /\ waiting'[p] = waiting[p]
                                /\ pings'[p] = pings[p]
                                /\ pinged'[p] = pinged[p]
                                /\ skipped'[p] = skipped[p]
    BY <1>1 DEF TypeOK
  <1>12. failed'[m] \subseteq known \cup crashed
    BY <1>1 DEF TypeOK
  <1>13. waiting'[m] \subseteq left
    BY <1>1 DEF TypeOK
  <1>14. stop <= LastRound => Pred(m, stop) \in pings'[m] \cup known \cup crashed
    BY <1>1, <1>2 DEF TypeOK
  <1>15. \A j \in skipped'[m] : j \in skip \/ Pred(m, j) \in known \cup crashed
    BY <1>1 DEF TypeOK
  <1>16. PICK last \in FinalQueries(m, q, entered, left) :
           net' = wire \cup {BatchOf(m, last[j], j) :
                               j \in {i \in entered : Target(m, i) \notin crashed}}
    BY <1>1
  <1>17. ASSUME left = {}, NEW j \in Round, r < j, j <= stop, Target(m, j) \notin crashed
         PROVE  BatchOf(m, q, j) \in net'
    <2>1. j \in entered
      BY <1>17 DEF Round
    <2>2. last[j] = q
      BY <1>16, <1>17, <2>1 DEF FinalQueries
    <2> QED BY <1>16, <1>17, <2>1, <2>2
  <1>18. wire \subseteq net'
    BY <1>16
  <1>19. \A b \in net' \ wire : b.from = m /\ b.query <= q /\ b.round <= stop
    BY <1>16 DEF FinalQueries, BatchOf
  <1>20. Passes(m, q, r, known, skip, left, wire, stop)
    BY <1>1, <1>4, <1>7, <1>8, <1>9, <1>10, <1>11, <1>12, <1>13, <1>14, <1>15, <1>17, <1>18, <1>19
       DEF Passes
  <1> QED BY <1>20

\* The meter a batch of a round is expected from sends it to the one that
\* expects it.
LEMMA PredecessorSends ==
  ASSUME NEW m \in Meter, NEW j \in Round
  PROVE  /\ Target(Pred(m, j), j) = m
         /\ Pred(m, j) # m
  <1>1. N \in Nat /\ Offset[j] \in 1..(N - 1)
    BY ConstantsAssumption
  <1> QED
    BY <1>1 DEF Meter, Target, Pred

\* A meter that starts a query passes rounds from the first one on.
LEMMA StartPasses ==
  ASSUME StepInv, NEW m \in Meter, StartQuery(m)
  PROVE  /\ query[m] + 1 \in 0..MaxQuery
         /\ query' = [query EXCEPT ![m] = query[m] + 1]
         /\ \E left \in SUBSET Leftover, stop \in 0..(LastRound + 1) :
              /\ ~HoldsMessages => left = waiting[m]
              /\ Passes(m, query[m] + 1, -1, {}, {}, left, net, stop)
  <1> USE ConstantsAssumption
  <1>1. TypeOK
    BY DEF StepInv
  <1>2. query[m] \in NoQuery..MaxQuery /\ issued \in NoQuery..MaxQuery
    BY <1>1 DEF TypeOK
  <1>3. query[m] + 1 \in 0..MaxQuery
    BY <1>2 DEF StartQuery, NoQuery
  <1>4. PICK kept \in SUBSET LeftoversOf(m) :
          EndOverlayRound(m, query[m] + 1, -1, {}, {}, waiting[m] \cup kept, net)
    BY DEF StartQuery
  <1>5. waiting[m] \cup kept \in SUBSET Leftover
    BY <1>1, <1>2 DEF TypeOK, LeftoversOf, Leftover, NoQuery
  <1>6. ~HoldsMessages => waiting[m] \cup kept = waiting[m]
    BY DEF LeftoversOf
  <1>7. -1 \in -1..LastRound /\ net \in SUBSET Batch
    BY <1>1 DEF TypeOK
  <1>8. PICK stop \in (-1 + 1)..(LastRound + 1) :
          Passes(m, query[m] + 1, -1, {}, {}, waiting[m] \cup kept, net, stop)
    BY <1>1, <1>3, <1>4, <1>5, <1>7, EndOverlayRoundPasses
  <1>9. stop \in 0..(LastRound + 1)
    BY <1>8
  <1> QED BY <1>3, <1>5, <1>6, <1>8, <1>9 DEF StartQuery

\* A meter that handles a batch of its round has it from its predecessor, and
\* passes on from its round.
LEMMA BatchPasses ==
  ASSUME StepInv, NEW m \in Meter, HandleBatch(m)
  PROVE  LET b == BatchOf(Pred(m, round[m]), query[m], round[m])
         IN /\ b \in net
            /\ query[m] \in 0..MaxQuery
            /\ \E stop \in (round[m] + 1)..(LastRound + 1) :
                 Passes(m, query[m], round[m], failed[m], skipped[m], waiting[m],
                        net \ {b}, stop)
  <1> USE ConstantsAssumption
  <1>1. TypeOK
    BY DEF StepInv
  <1>2. PICK b \in net :
          /\ To(b) = m
          /\ b.query = query[m]
          /\ b.round = round[m]
          /\ EndOverlayRound(m, query[m], round[m], failed[m], skipped[m], waiting[m],
                             net \ {b})
    BY DEF HandleBatch, Current
  <1>3. b \in Batch
    BY <1>1 DEF TypeOK
  <1>4. b.from = Pred(m, round[m]) /\ query[m] \in 0..MaxQuery
    BY <1>2, <1>3, SenderIsPredecessor DEF To, Batch
  <1>5. b = BatchOf(Pred(m, round[m]), query[m], round[m])
    BY <1>2, <1>3, <1>4 DEF Batch, BatchOf
  <1>6. /\ round[m] \in -1..LastRound /\ failed[m] \in SUBSET Meter
        /\ skipped[m] \in SUBSET Round /\ waiting[m] \in SUBSET Leftover
        /\ net \ {b} \in SUBSET Batch
    BY <1>1 DEF TypeOK, Round
  <1>7. \E stop \in (round[m] + 1)..(LastRound + 1) :
          Passes(m, query[m], round[m], failed[m], skipped[m], waiting[m], net \ {b}, stop)
    BY <1>1, <1>2, <1>4, <1>6, EndOverlayRoundPasses
  <1> QED BY <1>2, <1>4, <1>5, <1>7

\* A meter that gives its round up passes on from it.
LEMMA TimeoutPasses ==
  ASSUME StepInv, NEW m \in Meter, GiveUp(m)
  PROVE  /\ query[m] \in 0..MaxQuery
         /\ \E stop \in (round[m] + 1)..(LastRound + 1) :
              Passes(m, query[m], round[m], failed[m], skipped[m] \cup {round[m]},
                     waiting[m], net, stop)
  <1> USE ConstantsAssumption
  <1>1. TypeOK
    BY DEF StepInv
  <1>2. query[m] \in 0..MaxQuery
    BY <1>1 DEF StepInv, GiveUp, TimerExpires, TimersInQuery, TypeOK, NoQuery
  <1>3. /\ round[m] \in -1..LastRound /\ failed[m] \in SUBSET Meter
        /\ skipped[m] \cup {round[m]} \in SUBSET Round /\ waiting[m] \in SUBSET Leftover
        /\ net \in SUBSET Batch
    BY <1>1 DEF TypeOK, Round
  <1>4. EndOverlayRound(m, query[m], round[m], failed[m], skipped[m] \cup {round[m]},
                        waiting[m], net)
    BY DEF GiveUp, EndByTimeout
  <1> QED BY <1>1, <1>2, <1>3, <1>4, EndOverlayRoundPasses

----------------------------------------------------------------------------
(* Nothing stays buffered past its round. *)

\* A call of end_overlay_round empties the buffer of the rounds it passes,
\* whether it starts a query or ends the round of one.
LEMMA PassingKeepsBufferInv ==
  ASSUME BufferInv, StepInv',
         NEW m \in Meter, NEW q \in 0..MaxQuery, NEW r \in -1..LastRound,
         NEW known, NEW skip, NEW left, NEW wire, NEW stop \in (r + 1)..(LastRound + 1),
         Passes(m, q, r, known, skip, left, wire, stop),
         r = -1 \/ (q = query[m] /\ r = round[m]),
         query' = [query EXCEPT ![m] = q]
  PROVE  BufferInv'
  <1> USE ConstantsAssumption
  <1>1. TypeOK /\ TypeOK'
    BY DEF BufferInv, StepInv
  <1>2. query'[m] = q /\ \A p \in Meter \ {m} : query'[p] = query[p]
    BY <1>1 DEF TypeOK
  <1>3. /\ round'[m] = IF stop <= LastRound THEN stop ELSE LastRound
        /\ overlay'[m] = (stop <= LastRound)
        /\ timer'[m] = (stop <= LastRound)
        /\ \A p \in Meter \ {m} : /\ round'[p] = round[p]
                                  /\ overlay'[p] = overlay[p]
                                  /\ timer'[p] = timer[p]
                                  /\ future'[p] = future[p]
    BY <1>1 DEF TypeOK, Passes
  <1>4. \A p \in Meter : future'[p] \subseteq future[p]
    BY <1>3 DEF Passes
  <1>5. PhaseInQuery'
    <2>1. timer'[m] = overlay'[m]
      BY <1>3, Zenon
    <2>2. query'[m] # NoQuery
      BY <1>2 DEF NoQuery
    <2>3. ~overlay'[m] => round'[m] = LastRound
      BY <1>3
    <2> QED BY <1>2, <1>3, <2>1, <2>2, <2>3 DEF PhaseInQuery, BufferInv
  <1>6. BuffersOwn'
    BY <1>4 DEF BuffersOwn, BufferInv
  <1>7. ASSUME NEW b \in future'[m], b.query = q
        PROVE  overlay'[m] /\ b.round > round'[m]
    <2>1. b \in future[m] /\ b \in Batch
      BY <1>1, <1>4 DEF TypeOK
    <2>2. b.round \in Round /\ b.from \in Meter /\ b.from = Pred(m, b.round)
      BY <2>1, SenderIsPredecessor DEF BufferInv, BuffersOwn, To, Batch
    <2>3. b = BatchOf(Pred(m, b.round), q, b.round)
      BY <1>7, <2>1, <2>2 DEF Batch, BatchOf
    <2>4. b.round > r
      <3>1. CASE r = -1
        BY <2>2, <3>1 DEF Round
      <3>2. CASE q = query[m] /\ r = round[m]
        BY <1>7, <2>1, <3>2 DEF BufferInv, BufferedBatchesAhead
      <3> QED BY <3>1, <3>2
    <2>5. b.round \notin (r + 1)..(stop - 1)
      BY <1>7, <2>3 DEF Passes
    <2>6. b.round # stop
      BY <2>1, <2>2, <2>3 DEF Passes, Round
    <2>7. b.round > stop /\ stop <= LastRound
      <3>1. b.round \in 0..LastRound /\ r \in Int /\ stop \in Int
        BY <2>2 DEF Round
      <3>2. ~ (b.round <= stop - 1)
        BY <2>4, <2>5, <3>1
      <3> QED BY <2>6, <3>1, <3>2
    <2> QED BY <1>3, <2>7
  <1>8. BufferedBatchesAhead'
    BY <1>2, <1>3, <1>7 DEF BufferedBatchesAhead, BufferInv
  <1> QED BY <1>5, <1>6, <1>8 DEF BufferInv

\* A step that ends no round keeps it, if what it buffers is early.
LEMMA OtherStepsKeepBufferInv ==
  ASSUME BufferInv, StepInv',
         UNCHANGED <<query, round, overlay, timer>>,
         \A m \in Meter : \A b \in future'[m] :
           b \in future[m] \/ (b \in net /\ To(b) = m /\ Early(m, b))
  PROVE  BufferInv'
  <1>1. TypeOK
    BY DEF BufferInv, StepInv
  <1>2. PhaseInQuery'
    BY DEF BufferInv, PhaseInQuery
  <1>3. BuffersOwn'
    BY DEF BufferInv, BuffersOwn
  <1>4. ASSUME NEW m \in Meter, NEW b \in future'[m], b.query = query[m]
        PROVE  overlay[m] /\ b.round > round[m]
    <2>1. CASE b \in future[m]
      BY <1>4, <2>1 DEF BufferInv, BufferedBatchesAhead
    <2>2. CASE b \in net /\ Early(m, b)
      <3>1. /\ b.query \in 0..MaxQuery /\ b.round \in Round
            /\ query[m] \in NoQuery..MaxQuery /\ round[m] \in Round
        BY <1>1, <2>2 DEF TypeOK, Batch
      <3>2. b.round > round[m]
        BY <1>4, <2>2, <3>1, ConstantsAssumption DEF Early, NoQuery
      <3>3. query[m] # NoQuery /\ round[m] # LastRound
        BY <1>4, <3>1, <3>2, ConstantsAssumption DEF NoQuery, Round
      <3> QED BY <3>2, <3>3 DEF BufferInv, PhaseInQuery
    <2> QED BY <1>4, <2>1, <2>2
  <1>5. BufferedBatchesAhead'
    BY <1>4 DEF BufferedBatchesAhead
  <1> QED BY <1>2, <1>3, <1>5 DEF BufferInv

\* At first nothing is buffered and no query has begun.
LEMMA InitBufferInv == Init => BufferInv
  <1>1. Init => PhaseInQuery /\ BuffersOwn /\ BufferedBatchesAhead
    BY DEF Init, PhaseInQuery, BuffersOwn, BufferedBatchesAhead
  <1> QED BY <1>1, InitStepInv DEF BufferInv

\* Every step of any meter preserves the invariant.
LEMMA NextBufferInv == BufferInv /\ [Next]_vars => BufferInv'
  <1> SUFFICES ASSUME BufferInv, [Next]_vars PROVE BufferInv'
    OBVIOUS
  <1> USE ConstantsAssumption
  <1>1. StepInv /\ StepInv' /\ TypeOK
    BY NextStepInv DEF BufferInv, StepInv
  <1>2. ASSUME NEW m \in Meter, StartQuery(m)
        PROVE  BufferInv'
    <2>1. -1 \in -1..LastRound
      OBVIOUS
    <2>2. PICK left \in SUBSET Leftover, stop \in 0..(LastRound + 1) :
            Passes(m, query[m] + 1, -1, {}, {}, left, net, stop)
      BY <1>1, <1>2, StartPasses
    <2>3. stop \in (-1 + 1)..(LastRound + 1)
      OBVIOUS
    <2> QED
      BY <1>1, <1>2, <2>1, <2>2, <2>3, StartPasses, PassingKeepsBufferInv
  <1>3. ASSUME NEW m \in Meter, HandleBatch(m)
        PROVE  BufferInv'
    <2>1. round[m] \in -1..LastRound /\ query' = [query EXCEPT ![m] = query[m]]
      BY <1>1, <1>3 DEF TypeOK, Round, HandleBatch
    <2> QED
      BY <1>1, <1>3, <2>1, BatchPasses, PassingKeepsBufferInv
  <1>4. ASSUME NEW m \in Meter, GiveUp(m)
        PROVE  BufferInv'
    <2>1. round[m] \in -1..LastRound /\ query' = [query EXCEPT ![m] = query[m]]
      BY <1>1, <1>4 DEF TypeOK, Round, GiveUp
    <2> QED
      BY <1>1, <1>4, <2>1, TimeoutPasses, PassingKeepsBufferInv
  <1>5. ASSUME NEW m \in Meter, BufferBatch(m)
        PROVE  BufferInv'
    BY <1>1, <1>5, OtherStepsKeepBufferInv
       DEF BufferBatch, buffer_future_message, TypeOK
  <1>6. ASSUME NEW m \in Meter, DropBatch(m) \/ ReceivePong(m) \/ KeepWaiting(m) \/ Crash(m)
        PROVE  BufferInv'
    <2>1. UNCHANGED <<query, round, overlay, timer, future>>
      BY <1>6 DEF DropBatch, ReceivePong, KeepWaiting, Crash, meterVars
    <2> QED BY <1>1, <2>1, OtherStepsKeepBufferInv
  <1>7. CASE IssueQuery \/ UNCHANGED vars
    <2>1. UNCHANGED <<query, round, overlay, timer, future>>
      BY <1>7 DEF IssueQuery, meterVars, vars
    <2> QED BY <1>1, <2>1, OtherStepsKeepBufferInv
  <1> QED
    BY <1>2, <1>3, <1>4, <1>5, <1>6, <1>7 DEF Next, Delivery, Timeout

\* Whatever a meter has buffered for the query it is in is for a round that
\* it has still to enter, wherever end_overlay_round was called from.
THEOREM BuffersStayAhead == Spec => []BufferedBatchesAhead
  <1>1. BufferInv => BufferedBatchesAhead
    BY DEF BufferInv
  <1> QED BY <1>1, InitBufferInv, NextBufferInv, PTL DEF Spec

----------------------------------------------------------------------------
(* Only a crashed predecessor is given up. *)

\* The meters in failed_meter_ids are down.
FailedAreCrashed == \A m \in Meter : failed[m] \subseteq crashed

\* A live predecessor has answered in this period of the round timer, or a
\* ping of it, or its answer, is on its way.
PredecessorAsked ==
  \A m \in Meter \ crashed :
    timer[m] => LET p == Pred(m, round[m])
                IN p \in crashed \/ pinged[m] \/ p \in pings[m]

\* The inductive invariant of OnlyCrashedSkipped, when pings are answered
\* before the timer runs out.
DetectInv == BufferInv /\ FailedAreCrashed /\ PredecessorAsked /\ OnlyCrashedSkipped

\* end_overlay_round pings the predecessor of the round it stops in, and what
\* it passes without a batch it passes because the predecessor is down.
LEMMA PassingKeepsDetectInv ==
  ASSUME DetectInv, BufferInv',
         NEW m \in Meter, NEW q, NEW r \in -1..LastRound,
         NEW known \in SUBSET crashed, NEW skip \in SUBSET Round, NEW left, NEW wire,
         NEW stop \in (r + 1)..(LastRound + 1),
         Passes(m, q, r, known, skip, left, wire, stop),
         \A j \in skip : Pred(m, j) \in crashed,
         UNCHANGED crashed
  PROVE  DetectInv'
  <1> USE ConstantsAssumption
  <1>1. TypeOK /\ TypeOK'
    BY DEF DetectInv, BufferInv, StepInv
  <1>2. /\ round'[m] = IF stop <= LastRound THEN stop ELSE LastRound
        /\ timer'[m] => stop <= LastRound
        /\ \A p \in Meter \ {m} : round'[p] = round[p] /\ timer'[p] = timer[p]
    BY <1>1 DEF TypeOK, Passes
  <1>3. FailedAreCrashed'
    BY DEF DetectInv, FailedAreCrashed, Passes
  <1>4. OnlyCrashedSkipped'
    BY DEF DetectInv, OnlyCrashedSkipped, Passes
  <1>5. ASSUME NEW p \in Meter \ crashed, timer'[p],
               Pred(p, round'[p]) \notin crashed
        PROVE  pinged'[p] \/ Pred(p, round'[p]) \in pings'[p]
    <2>1. CASE p = m
      BY <1>2, <1>5, <2>1 DEF Passes
    <2>2. CASE p # m
      BY <1>2, <1>5, <2>2 DEF Passes, DetectInv, PredecessorAsked
    <2> QED BY <2>1, <2>2
  <1>6. PredecessorAsked'
    BY <1>5 DEF PredecessorAsked
  <1> QED BY <1>3, <1>4, <1>6 DEF DetectInv

\* At first nobody waits for anybody.
LEMMA InitDetectInv == Init => DetectInv
  <1>1. Init => FailedAreCrashed /\ PredecessorAsked /\ OnlyCrashedSkipped
    BY DEF Init, FailedAreCrashed, PredecessorAsked, OnlyCrashedSkipped
  <1> QED BY <1>1, InitBufferInv DEF DetectInv

\* Every step preserves the invariant when no timer overtakes a ping.
LEMMA NextDetectInv == Synchronous /\ DetectInv /\ [Next]_vars => DetectInv'
  <1> SUFFICES ASSUME Synchronous, DetectInv, [Next]_vars PROVE DetectInv'
    OBVIOUS
  <1> USE ConstantsAssumption
  <1>1. /\ BufferInv /\ BufferInv' /\ StepInv /\ TypeOK /\ TypeOK'
        /\ FailedAreCrashed /\ PredecessorAsked /\ OnlyCrashedSkipped
    BY NextBufferInv DEF DetectInv, BufferInv, StepInv
  <1>2. ASSUME NEW m \in Meter, StartQuery(m)
        PROVE  DetectInv'
    <2>1. PICK left \in SUBSET Leftover, stop \in 0..(LastRound + 1) :
            Passes(m, query[m] + 1, -1, {}, {}, left, net, stop)
      BY <1>1, <1>2, StartPasses
    <2>2. stop \in (-1 + 1)..(LastRound + 1) /\ -1 \in -1..LastRound
      OBVIOUS
    <2> QED
      BY <1>1, <1>2, <2>1, <2>2, PassingKeepsDetectInv DEF StartQuery
  <1>3. ASSUME NEW m \in Meter, HandleBatch(m)
        PROVE  DetectInv'
    <2>1. /\ round[m] \in -1..LastRound /\ failed[m] \in SUBSET crashed
          /\ skipped[m] \in SUBSET Round /\ UNCHANGED crashed
          /\ \A j \in skipped[m] : Pred(m, j) \in crashed
      <3>1. round[m] \in Round /\ skipped[m] \subseteq Round
        BY <1>1 DEF TypeOK
      <3>2. failed[m] \subseteq crashed /\ \A j \in skipped[m] : Pred(m, j) \in crashed
        BY <1>1 DEF FailedAreCrashed, OnlyCrashedSkipped
      <3>3. UNCHANGED crashed
        BY <1>3 DEF HandleBatch
      <3>4. round[m] \in -1..LastRound
        BY <3>1 DEF Round
      <3> QED BY <3>1, <3>2, <3>3, <3>4
    <2> QED
      BY <1>1, <1>3, <2>1, BatchPasses, PassingKeepsDetectInv
  <1>4. ASSUME NEW m \in Meter, GiveUp(m)
        PROVE  DetectInv'
    <2>1. Pred(m, round[m]) \in crashed
      BY <1>1, <1>4 DEF GiveUp, TimerExpires, PredecessorAsked
    <2>2. /\ round[m] \in -1..LastRound /\ failed[m] \in SUBSET crashed
          /\ skipped[m] \cup {round[m]} \in SUBSET Round /\ UNCHANGED crashed
          /\ \A j \in skipped[m] \cup {round[m]} : Pred(m, j) \in crashed
      <3>1. round[m] \in Round /\ skipped[m] \subseteq Round
        BY <1>1 DEF TypeOK
      <3>2. failed[m] \subseteq crashed /\ \A j \in skipped[m] : Pred(m, j) \in crashed
        BY <1>1 DEF FailedAreCrashed, OnlyCrashedSkipped
      <3>3. UNCHANGED crashed
        BY <1>4 DEF GiveUp
      <3>4. round[m] \in -1..LastRound
        BY <3>1 DEF Round
      <3> QED BY <2>1, <3>1, <3>2, <3>3, <3>4
    <2> QED
      BY <1>1, <1>4, <2>2, TimeoutPasses, PassingKeepsDetectInv
  <1>5. ASSUME NEW m \in Meter, KeepWaiting(m)
        PROVE  DetectInv'
    <2>1. /\ UNCHANGED <<round, timer, skipped, crashed>>
          /\ \A p \in Meter \ {m} : pinged'[p] = pinged[p] /\ pings'[p] = pings[p]
      BY <1>1, <1>5 DEF KeepWaiting, AskAgain, TypeOK
    <2>2. FailedAreCrashed'
      BY <1>1, <1>5 DEF KeepWaiting, AskAgain, TypeOK, FailedAreCrashed
    <2>3. Pred(m, round[m]) \in crashed \cup pings'[m]
      BY <1>1, <1>5 DEF KeepWaiting, AskAgain, TypeOK
    <2>4. PredecessorAsked'
      BY <1>1, <2>1, <2>3 DEF PredecessorAsked
    <2> QED BY <1>1, <2>1, <2>2, <2>4 DEF DetectInv, OnlyCrashedSkipped
  <1>6. ASSUME NEW m \in Meter, ReceivePong(m)
        PROVE  DetectInv'
    <2>1. /\ UNCHANGED <<round, timer, failed, skipped, crashed>>
          /\ \A p \in Meter \ {m} : pinged'[p] = pinged[p] /\ pings'[p] = pings[p]
      BY <1>1, <1>6 DEF ReceivePong, TypeOK
    <2>2. PICK p \in pings[m] :
            /\ pings' = [pings EXCEPT ![m] = pings[m] \ {p}]
            /\ pinged' = [pinged EXCEPT ![m] = pinged[m] \/ p = Pred(m, round[m])]
      BY <1>6 DEF ReceivePong
    <2>3. pings'[m] = pings[m] \ {p}
      BY <1>1, <2>2 DEF TypeOK
    <2>4. pinged'[m] = (pinged[m] \/ p = Pred(m, round[m]))
      BY <1>1, <2>2 DEF TypeOK
    <2>5. PredecessorAsked'
      BY <1>1, <2>1, <2>3, <2>4 DEF PredecessorAsked
    <2> QED BY <1>1, <2>1, <2>5 DEF DetectInv, FailedAreCrashed, OnlyCrashedSkipped
  <1>7. ASSUME NEW m \in Meter, Crash(m)
        PROVE  DetectInv'
    <2>1. /\ UNCHANGED <<round, timer, pinged, failed, skipped>>
          /\ crashed' = crashed \cup {m}
      BY <1>7 DEF Crash, meterVars
    <2>2. \A s \in Meter \ {m} : pings[s] \ {m} \subseteq pings'[s]
      BY <1>7 DEF Crash
    <2>3. PredecessorAsked'
      BY <1>1, <2>1, <2>2 DEF PredecessorAsked
    <2> QED BY <1>1, <2>1, <2>3 DEF DetectInv, FailedAreCrashed, OnlyCrashedSkipped
  <1>8. ASSUME IssueQuery \/ UNCHANGED vars \/
               \E m \in Meter : BufferBatch(m) \/ DropBatch(m)
        PROVE  DetectInv'
    <2>1. UNCHANGED <<round, timer, pinged, failed, pings, skipped, crashed>>
      BY <1>8 DEF IssueQuery, BufferBatch, DropBatch, meterVars, vars
    <2> QED
      BY <1>1, <2>1 DEF DetectInv, FailedAreCrashed, PredecessorAsked, OnlyCrashedSkipped
  <1> QED
    BY <1>2, <1>3, <1>4, <1>5, <1>6, <1>7, <1>8 DEF Next, Delivery, Timeout

\* A round that ends without its batch, by handle_round_timeout or because a
\* send failed, ends so only because the predecessor is down, when pings are
\* answered within OVERLAY_ROUND_TIMEOUT.
THEOREM SkipsOnlyCrashed == Synchronous => (Spec => []OnlyCrashedSkipped)
  <1> SUFFICES ASSUME Synchronous PROVE Spec => []OnlyCrashedSkipped
    OBVIOUS
  <1>1. DetectInv => OnlyCrashedSkipped
    BY DEF DetectInv
  <1>2. DetectInv /\ [Next]_vars => DetectInv'
    BY NextDetectInv
  <1> QED BY <1>1, <1>2, InitDetectInv, PTL DEF Spec

----------------------------------------------------------------------------
(* The barrier. *)

\* The round that GossipRounds sees a meter in.
StepOf(m) == IF overlay[m] THEN round[m] ELSE LastRound + 1

\* The initial states are those of the barrier.
LEMMA InitBarrier == Init => Abstract!Init
  BY DEF Init, Abstract!Init, Abstract!Meter, Meter, Abstract!NoQuery, NoQuery

\* A meter that has sent the batch of a round, or is known to be down, may be
\* left behind in it.
LEMMA SenderMayBeLeft ==
  ASSUME BufferInv, NEW m \in Meter, NEW q \in Int, NEW j \in Round,
         Reached(Pred(m, j), q, j) \/ Pred(m, j) \in crashed
  PROVE  Abstract!MayLeave(m, q, j)
  <1>1. TypeOK
    BY DEF BufferInv, StepInv
  <1>2. Abstract!Pred(m, j) = Pred(m, j) /\ Pred(m, j) \in Meter
    BY NeighboursAreMeters DEF Abstract!Pred, Pred
  <1>3. round[Pred(m, j)] >= j =>
          (IF overlay[Pred(m, j)] THEN round[Pred(m, j)] ELSE LastRound + 1) >= j
    BY <1>1, <1>2, ConstantsAssumption DEF TypeOK, Round
  <1> QED
    BY <1>2, <1>3 DEF Abstract!MayLeave, Reached

\* Passing rounds moves the meter to the round it stops in, or past the last.
LEMMA PassingSteps ==
  ASSUME BufferInv, NEW m \in Meter, NEW q, NEW r \in -1..LastRound,
         NEW known, NEW skip, NEW left, NEW wire,
         NEW stop \in (r + 1)..(LastRound + 1),
         Passes(m, q, r, known, skip, left, wire, stop)
  PROVE  /\ StepOf(m)' = stop
         /\ \A p \in Meter \ {m} : StepOf(p)' = StepOf(p)
         /\ [p \in Meter |-> StepOf(p)]' = [[p \in Meter |-> StepOf(p)] EXCEPT ![m] = stop]
  <1> USE ConstantsAssumption
  <1>1. TypeOK
    BY DEF BufferInv, StepInv
  <1>2. StepOf(m)' = stop
    <2>1. /\ overlay'[m] <=> stop <= LastRound
          /\ stop <= LastRound => round'[m] = stop
      BY <1>1 DEF Passes, TypeOK
    <2>2. ~(stop <= LastRound) => stop = LastRound + 1
      OBVIOUS
    <2> QED BY <2>1, <2>2 DEF StepOf
  <1>3. \A p \in Meter \ {m} : StepOf(p)' = StepOf(p)
    BY <1>1 DEF Passes, StepOf, TypeOK
  <1> QED BY <1>2, <1>3

\* A step that passes rounds is a step of the barrier, once all that it passes
\* may be left.
LEMMA PassingAdvances ==
  ASSUME BufferInv, FailedAreCrashed,
         NEW m \in Meter \ crashed, NEW known \in SUBSET crashed,
         NEW skip, NEW left, NEW wire,
         NEW stop \in (round[m] + 1)..(LastRound + 1),
         Passes(m, query[m], round[m], known, skip, left, wire, stop),
         overlay[m], query[m] \in 0..MaxQuery,
         Abstract!MayLeave(m, query[m], round[m]),
         UNCHANGED <<query, crashed>>
  PROVE  Abstract!Next
  <1> USE ConstantsAssumption
  <1>1. TypeOK
    BY DEF BufferInv, StepInv
  <1>2. round[m] \in Round /\ StepOf(m) = round[m]
    BY <1>1 DEF TypeOK, StepOf
  <1>3. ASSUME NEW j \in round[m]..(stop - 1)
        PROVE  Abstract!MayLeave(m, query[m], j)
    <2>1. CASE j = round[m]
      BY <2>1
    <2>2. CASE j # round[m]
      <3>1. j \in (round[m] + 1)..(stop - 1) /\ j \in Round
        BY <1>2, <1>3, <2>2 DEF Round
      <3>2. BatchOf(Pred(m, j), query[m], j) \in future[m] \/ Pred(m, j) \in crashed
        BY <3>1 DEF Passes
      <3>3. BatchOf(Pred(m, j), query[m], j) \in future[m] => Reached(Pred(m, j), query[m], j)
        BY DEF BufferInv, StepInv, BatchesSent, BatchOf
      <3> QED BY <3>1, <3>2, <3>3, SenderMayBeLeft
    <2> QED BY <2>1, <2>2
  <1>4. [p \in Meter |-> StepOf(p)]' = [[p \in Meter |-> StepOf(p)] EXCEPT ![m] = stop]
    BY <1>1, <1>2, PassingSteps DEF Round
  <1>5. stop \in 0..(LastRound + 1) /\ round[m] < stop
    BY <1>2 DEF Round
  <1>6. Abstract!Advance(m, stop)
    BY <1>2, <1>3, <1>4, <1>5 DEF Abstract!Advance, StepOf, Abstract!Meter, Meter
  <1> QED BY <1>5, <1>6 DEF Abstract!Next, Abstract!Meter, Meter

\* Every step is one of the barrier, or leaves it as it is.
LEMMA NextBarrier ==
  Synchronous /\ DetectInv /\ [Next]_vars => [Abstract!Next]_(Abstract!vars)
  <1> SUFFICES ASSUME Synchronous, DetectInv, [Next]_vars
               PROVE  [Abstract!Next]_(Abstract!vars)
    OBVIOUS
  <1> USE ConstantsAssumption
  <1>1. /\ BufferInv /\ StepInv /\ TypeOK
        /\ FailedAreCrashed /\ PredecessorAsked
    BY DEF DetectInv, BufferInv, StepInv
  <1>2. ASSUME NEW m \in Meter, StartQuery(m)
        PROVE  Abstract!Next
    <2>1. PICK left \in SUBSET Leftover, stop \in 0..(LastRound + 1) :
            Passes(m, query[m] + 1, -1, {}, {}, left, net, stop)
      BY <1>1, <1>2, StartPasses
    <2>2. query[m] + 1 \in 0..MaxQuery /\ query' = [query EXCEPT ![m] = query[m] + 1]
      BY <1>1, <1>2, StartPasses
    <2>3. query[m] < MaxQuery /\ query[m] \in Int
      BY <1>1, <2>2 DEF TypeOK, NoQuery
    <2>4. ASSUME NEW j \in 0..(stop - 1)
          PROVE  Abstract!MayLeave(m, query[m] + 1, j)
      <3>1. j \in (-1 + 1)..(stop - 1) /\ j \in Round
        BY DEF Round
      <3>2. BatchOf(Pred(m, j), query[m] + 1, j) \in future[m] \/ Pred(m, j) \in crashed
        BY <2>1, <3>1 DEF Passes
      <3>3. BatchOf(Pred(m, j), query[m] + 1, j) \in future[m]
              => Reached(Pred(m, j), query[m] + 1, j)
        BY <1>1 DEF StepInv, BatchesSent, BatchOf
      <3> QED BY <1>1, <2>2, <3>1, <3>2, <3>3, SenderMayBeLeft
    <2>5. -1 \in -1..LastRound /\ stop \in (-1 + 1)..(LastRound + 1)
      OBVIOUS
    <2>6. [p \in Meter |-> StepOf(p)]' = [[p \in Meter |-> StepOf(p)] EXCEPT ![m] = stop]
      BY <1>1, <2>1, <2>5, PassingSteps
    <2>7. m \notin crashed /\ UNCHANGED crashed
      BY <1>2 DEF StartQuery
    <2>8. Abstract!Start(m, stop)
      BY <2>2, <2>3, <2>4, <2>6, <2>7 DEF Abstract!Start, StepOf
    <2> QED BY <2>8 DEF Abstract!Next, Abstract!Meter, Meter
  <1>3. ASSUME NEW m \in Meter, HandleBatch(m)
        PROVE  Abstract!Next
    <2> DEFINE b == BatchOf(Pred(m, round[m]), query[m], round[m])
    <2>1. b \in net /\ query[m] \in 0..MaxQuery
      BY <1>1, <1>3, BatchPasses
    <2>2. PICK stop \in (round[m] + 1)..(LastRound + 1) :
            Passes(m, query[m], round[m], failed[m], skipped[m], waiting[m], net \ {b}, stop)
      BY <1>1, <1>3, BatchPasses
    <2>3. Reached(Pred(m, round[m]), query[m], round[m])
      BY <1>1, <2>1 DEF StepInv, BatchesSent, BatchOf
    <2>4. round[m] \in Round
      BY <1>1 DEF TypeOK
    <2>5. Abstract!MayLeave(m, query[m], round[m])
      BY <1>1, <2>1, <2>3, <2>4, SenderMayBeLeft
    <2>6. /\ m \in Meter \ crashed /\ overlay[m] /\ failed[m] \in SUBSET crashed
          /\ UNCHANGED <<query, crashed>>
      BY <1>1, <1>3 DEF HandleBatch, FailedAreCrashed
    <2> QED BY <1>1, <2>1, <2>2, <2>5, <2>6, PassingAdvances
  <1>4. ASSUME NEW m \in Meter, GiveUp(m)
        PROVE  Abstract!Next
    <2>1. Pred(m, round[m]) \in crashed
      BY <1>1, <1>4 DEF GiveUp, TimerExpires, PredecessorAsked
    <2>2. PICK stop \in (round[m] + 1)..(LastRound + 1) :
            Passes(m, query[m], round[m], failed[m], skipped[m] \cup {round[m]},
                   waiting[m], net, stop)
      BY <1>1, <1>4, TimeoutPasses
    <2>3. query[m] \in 0..MaxQuery /\ round[m] \in Round
      BY <1>1, <1>4, TimeoutPasses DEF TypeOK
    <2>4. Abstract!MayLeave(m, query[m], round[m])
      BY <1>1, <2>1, <2>3, SenderMayBeLeft
    <2>5. /\ m \in Meter \ crashed /\ overlay[m] /\ failed[m] \in SUBSET crashed
          /\ UNCHANGED <<query, crashed>>
      BY <1>1, <1>4 DEF GiveUp, TimerExpires, FailedAreCrashed, BufferInv, PhaseInQuery
    <2> QED BY <1>1, <2>2, <2>3, <2>4, <2>5, PassingAdvances
  <1>5. ASSUME NEW m \in Meter, Crash(m)
        PROVE  Abstract!Next
    <2>1. Abstract!Stop(m)
      BY <1>5 DEF Abstract!Stop, Crash, meterVars
    <2> QED BY <2>1 DEF Abstract!Next, Abstract!Meter, Meter
  <1>6. ASSUME IssueQuery \/ UNCHANGED vars \/
               \E m \in Meter : \/ BufferBatch(m) \/ DropBatch(m)
                                \/ ReceivePong(m) \/ KeepWaiting(m)
        PROVE  UNCHANGED Abstract!vars
    <2>1. UNCHANGED <<query, round, overlay, crashed>>
      BY <1>6 DEF IssueQuery, BufferBatch, DropBatch, ReceivePong, KeepWaiting,
                  meterVars, vars
    <2> QED BY <2>1 DEF Abstract!vars
  <1> QED
    BY <1>2, <1>3, <1>4, <1>5, <1>6 DEF Next, Delivery, Timeout

\* The barrier of each round holds between a live predecessor and its
\* successor, when pings are answered in time: no early, late or overtaking
\* batch, timeout or crash lets a meter past it.
THEOREM ImplementsBarrier == Synchronous => (Spec => BarrierHolds)
  <1> SUFFICES ASSUME Synchronous PROVE Spec => BarrierHolds
    OBVIOUS
  <1>1. DetectInv /\ [Next]_vars => DetectInv'
    BY NextDetectInv
  <1>2. DetectInv /\ [Next]_vars => [Abstract!Next]_(Abstract!vars)
    BY NextBarrier
  <1> QED
    BY <1>1, <1>2, InitDetectInv, InitBarrier, PTL DEF Spec, BarrierHolds, Abstract!Spec

----------------------------------------------------------------------------
(* No batch is lost. *)

\* Meter m has no more use for a batch of round j of query q.
Passed(m, q, j) == query[m] > q \/ (query[m] = q /\ Left(m, j))

\* What a meter has sent in its query to a live meter is in flight, buffered
\* there, or no longer of use there.
BatchesAccounted ==
  \A m \in Meter \ crashed, j \in Round, q \in 0..MaxQuery :
    query[Pred(m, j)] = q /\ j <= round[Pred(m, j)]
      => BatchOf(Pred(m, j), q, j) \in net \cup future[m] \/ Passed(m, q, j)

\* No message outlives its query.
NoneHeld == \A m \in Meter : waiting[m] = {}

\* The inductive invariant of AwaitedBatchOnItsWay.
DeliveryInv == BufferInv /\ NoneHeld /\ BatchesAccounted

\* The batches that end_overlay_round takes from the buffer, and the one that
\* made it run, are of rounds it leaves, and it sends those of the rounds it
\* enters.
LEMMA PassingKeepsDeliveryInv ==
  ASSUME DeliveryInv, BufferInv',
         NEW m \in Meter, NEW q \in 0..MaxQuery, NEW r \in -1..LastRound,
         NEW known, NEW skip, NEW wire,
         NEW stop \in (r + 1)..(LastRound + 1),
         Passes(m, q, r, known, skip, {}, wire, stop),
         \/ q > query[m] /\ r = -1
         \/ q = query[m] /\ r = round[m] /\ overlay[m],
         \A b \in net : b \in wire \/ (r \in Round /\ b = BatchOf(Pred(m, r), q, r)),
         query' = [query EXCEPT ![m] = q],
         UNCHANGED crashed
  PROVE  DeliveryInv'
  <1> USE ConstantsAssumption
  <1>1. TypeOK /\ TypeOK'
    BY DEF DeliveryInv, BufferInv, StepInv
  <1>2. query'[m] = q /\ \A p \in Meter \ {m} : query'[p] = query[p]
    BY <1>1 DEF TypeOK
  <1>3. /\ round'[m] = IF stop <= LastRound THEN stop ELSE LastRound
        /\ overlay'[m] <=> stop <= LastRound
        /\ \A p \in Meter \ {m} : /\ round'[p] = round[p]
                                  /\ overlay'[p] = overlay[p]
                                  /\ future'[p] = future[p]
    <2>1. /\ round' = [round EXCEPT ![m] = IF stop <= LastRound THEN stop ELSE LastRound]
          /\ overlay' = [overlay EXCEPT ![m] = stop <= LastRound]
          /\ \A p \in Meter \ {m} : future'[p] = future[p]
      BY DEF Passes
    <2>2. round \in [Meter -> Round] /\ overlay \in [Meter -> BOOLEAN]
      BY <1>1 DEF TypeOK
    <2> QED BY <2>1, <2>2
  <1>4. NoneHeld'
    BY DEF DeliveryInv, NoneHeld, Passes
  <1>5. \A j \in Round : j < stop => Left(m, j)'
    BY <1>2, <1>3 DEF Left, NoQuery, Round
  <1>6. \A p \in Meter : \A k, j : p # m /\ Passed(p, k, j) => Passed(p, k, j)'
    BY <1>2, <1>3 DEF Passed, Left
  <1>7. ASSUME NEW s \in Meter \ crashed, NEW j \in Round, NEW k \in 0..MaxQuery,
               NEW p, p = Pred(s, j), query'[p] = k, j <= round'[p]
        PROVE  BatchOf(p, k, j) \in net' \cup future'[s] \/ Passed(s, k, j)'
    <2>1a. p \in Meter /\ p # s /\ Target(p, j) = s
      BY <1>7, NeighboursAreMeters, PredecessorSends
    <2>1. /\ p \in Meter /\ p # s /\ Target(p, j) = s
          /\ query[p] \in NoQuery..MaxQuery /\ round[p] \in Round /\ j \in 0..LastRound
          /\ query[m] \in NoQuery..MaxQuery /\ round[m] \in Round
      BY <1>1, <2>1a DEF TypeOK, Round
    <2>2. CASE p = m
      <3>1. k = q
        BY <1>2, <1>7, <2>2
      <3>2. CASE j > r
        <4>1. j <= stop
          BY <1>3, <1>7, <2>1, <2>2
        <4>2. BatchOf(m, q, j) \in net'
          BY <2>1, <2>2, <3>2, <4>1 DEF Passes
        <4> QED BY <2>2, <3>1, <4>2
      <3>3. CASE j <= r
        <4>1. q = query[m] /\ j <= round[m]
          BY <2>1, <3>3
        <4>2. BatchOf(m, q, j) \in net \cup future[s] \/ Passed(s, q, j)
          BY <1>7, <2>2, <4>1 DEF DeliveryInv, BatchesAccounted
        <4>3. BatchOf(m, q, j) \in net => BatchOf(m, q, j) \in net'
          BY <2>1, PredecessorSends DEF Passes, BatchOf
        <4>4. Passed(s, q, j) => Passed(s, q, j)'
          BY <1>6, <2>1, <2>2
        <4>5. future'[s] = future[s]
          BY <1>3, <2>1, <2>2
        <4> QED BY <2>2, <3>1, <4>2, <4>3, <4>4, <4>5
      <3> QED BY <2>1, <3>2, <3>3 DEF Round
    <2>3. CASE p # m
      <3>1. /\ query[p] = k
            /\ BatchOf(p, k, j) \in net \cup future[s] \/ Passed(s, k, j)
        BY <1>2, <1>3, <1>7, <2>1, <2>3 DEF DeliveryInv, BatchesAccounted
      <3>2. CASE BatchOf(p, k, j) \in wire
        BY <3>2 DEF Passes
      <3>3. CASE r \in Round /\ BatchOf(p, k, j) = BatchOf(Pred(m, r), q, r)
        <4>1. p = Pred(m, r) /\ k = q /\ j = r
          BY <3>3 DEF BatchOf
        <4>2. s = m /\ j < stop
          BY <2>1, <3>3, <4>1, PredecessorSends DEF Round
        <4> QED BY <1>2, <1>5, <4>1, <4>2 DEF Passed
      <3>4. CASE BatchOf(p, k, j) \in future[s]
        <4>1. CASE s # m
          BY <1>3, <3>4, <4>1
        <4>2. CASE s = m /\ BatchOf(p, k, j) \notin future'[m]
          <5>1. PICK i \in (r + 1)..(stop - 1) : BatchOf(p, k, j) = BatchOf(Pred(m, i), q, i)
            BY <3>4, <4>2 DEF Passes
          <5>2. k = q /\ j < stop
            BY <5>1 DEF BatchOf
          <5> QED BY <1>2, <1>5, <4>2, <5>2 DEF Passed
        <4> QED BY <4>1, <4>2
      <3>5. CASE Passed(s, k, j)
        <4>1. CASE s # m
          BY <1>6, <3>5, <4>1
        <4>2. CASE s = m /\ q > query[m]
          BY <1>2, <2>1, <3>5, <4>2 DEF Passed, NoQuery
        <4>3. CASE s = m /\ q = query[m] /\ r = round[m] /\ overlay[m]
          <5>1. query[m] > k \/ (query[m] = k /\ j < stop)
            <6>1. j < round[m] => j < stop
              BY <2>1, <4>3 DEF Round
            <6> QED BY <3>5, <4>3, <6>1 DEF Passed, Left
          <5> QED BY <1>2, <1>5, <4>3, <5>1 DEF Passed
        <4> QED BY <4>1, <4>2, <4>3
      <3> QED BY <3>1, <3>2, <3>3, <3>4, <3>5
    <2> QED BY <2>2, <2>3
  <1>8. BatchesAccounted'
    BY <1>7 DEF BatchesAccounted
  <1> QED BY <1>4, <1>8 DEF DeliveryInv

\* What a step that ends no round must do for the invariant to hold: what it
\* takes from the network is buffered, of no use, or to a crashed meter.
LEMMA OtherStepsKeepDeliveryInv ==
  ASSUME DeliveryInv, BufferInv',
         UNCHANGED <<query, round, overlay, waiting>>,
         \A m \in Meter : future[m] \subseteq future'[m],
         crashed \subseteq crashed',
         \A b \in net : \/ b \in net' \cup future'[To(b)]
                        \/ To(b) \in crashed'
                        \/ Passed(To(b), b.query, b.round)
  PROVE  DeliveryInv'
  <1>1. NoneHeld'
    BY DEF DeliveryInv, NoneHeld
  <1>2. ASSUME NEW m \in Meter \ crashed', NEW j \in Round, NEW q \in 0..MaxQuery,
               query[Pred(m, j)] = q, j <= round[Pred(m, j)]
        PROVE  BatchOf(Pred(m, j), q, j) \in net' \cup future'[m] \/ Passed(m, q, j)
    <2>1. BatchOf(Pred(m, j), q, j) \in net \cup future[m] \/ Passed(m, q, j)
      BY <1>2 DEF DeliveryInv, BatchesAccounted
    <2>2. To(BatchOf(Pred(m, j), q, j)) = m
      BY PredecessorSends DEF To, BatchOf
    <2>3. CASE BatchOf(Pred(m, j), q, j) \in net
      BY <1>2, <2>2, <2>3 DEF BatchOf
    <2> QED BY <2>1, <2>3
  <1>3. BatchesAccounted'
    BY <1>2 DEF BatchesAccounted, Passed, Left
  <1> QED BY <1>1, <1>3 DEF DeliveryInv

\* At first nobody has sent anything.
LEMMA InitDeliveryInv == Init => DeliveryInv
  <1> SUFFICES ASSUME Init PROVE DeliveryInv
    OBVIOUS
  <1>1. \A m \in Meter, j \in Round : query[Pred(m, j)] = -1
    BY NeighboursAreMeters DEF Init, NoQuery
  <1>2. NoneHeld /\ BatchesAccounted
    BY <1>1 DEF Init, NoneHeld, BatchesAccounted
  <1> QED BY <1>2, InitBufferInv DEF DeliveryInv

\* Every step preserves the invariant when no message waits for its round.
LEMMA NextDeliveryInv == ~HoldsMessages /\ DeliveryInv /\ [Next]_vars => DeliveryInv'
  <1> SUFFICES ASSUME ~HoldsMessages, DeliveryInv, [Next]_vars PROVE DeliveryInv'
    OBVIOUS
  <1> USE ConstantsAssumption
  <1>1. /\ BufferInv /\ BufferInv' /\ StepInv /\ TypeOK /\ TypeOK'
        /\ NoneHeld /\ BatchesAccounted
    BY NextBufferInv DEF DeliveryInv, BufferInv, StepInv
  <1>2. ASSUME NEW m \in Meter, StartQuery(m)
        PROVE  DeliveryInv'
    <2>1. PICK stop \in 0..(LastRound + 1) :
            Passes(m, query[m] + 1, -1, {}, {}, {}, net, stop)
      BY <1>1, <1>2, StartPasses DEF NoneHeld
    <2>2. stop \in (-1 + 1)..(LastRound + 1) /\ -1 \in -1..LastRound
      OBVIOUS
    <2>3. query[m] + 1 \in 0..MaxQuery /\ query' = [query EXCEPT ![m] = query[m] + 1]
      BY <1>1, <1>2, StartPasses
    <2>4. query[m] + 1 > query[m]
      BY <1>1 DEF TypeOK, NoQuery
    <2> QED
      BY <1>1, <1>2, <2>1, <2>2, <2>3, <2>4, PassingKeepsDeliveryInv DEF StartQuery
  <1>3. ASSUME NEW m \in Meter, HandleBatch(m)
        PROVE  DeliveryInv'
    <2> DEFINE b == BatchOf(Pred(m, round[m]), query[m], round[m])
    <2>1. PICK stop \in (round[m] + 1)..(LastRound + 1) :
            Passes(m, query[m], round[m], failed[m], skipped[m], {}, net \ {b}, stop)
      BY <1>1, <1>3, BatchPasses DEF NoneHeld
    <2>2. /\ round[m] \in -1..LastRound /\ round[m] \in Round /\ overlay[m]
          /\ query' = [query EXCEPT ![m] = query[m]]
          /\ UNCHANGED crashed
      BY <1>1, <1>3 DEF TypeOK, Round, HandleBatch
    <2>3. query[m] \in 0..MaxQuery
      BY <1>1, <1>3, BatchPasses
    <2>4. \A c \in net : c \in net \ {b} \/ (round[m] \in Round /\ c = b)
      BY <2>2
    <2> QED
      BY <1>1, <2>1, <2>2, <2>3, <2>4, PassingKeepsDeliveryInv
  <1>4. ASSUME NEW m \in Meter, GiveUp(m)
        PROVE  DeliveryInv'
    <2>1. PICK stop \in (round[m] + 1)..(LastRound + 1) :
            Passes(m, query[m], round[m], failed[m], skipped[m] \cup {round[m]}, {},
                   net, stop)
      BY <1>1, <1>4, TimeoutPasses DEF NoneHeld
    <2>2. /\ round[m] \in -1..LastRound /\ overlay[m]
          /\ query' = [query EXCEPT ![m] = query[m]]
          /\ UNCHANGED crashed
      BY <1>1, <1>4
         DEF TypeOK, Round, GiveUp, TimerExpires, BufferInv, PhaseInQuery
    <2>3. query[m] \in 0..MaxQuery
      BY <1>1, <1>4, TimeoutPasses
    <2> QED
      BY <1>1, <2>1, <2>2, <2>3, PassingKeepsDeliveryInv
  <1>5. ASSUME NEW m \in Meter, BufferBatch(m)
        PROVE  DeliveryInv'
    BY <1>1, <1>5, OtherStepsKeepDeliveryInv
       DEF BufferBatch, buffer_future_message, TypeOK
  <1>6. ASSUME NEW m \in Meter, DropBatch(m)
        PROVE  DeliveryInv'
    <2>1. PICK b \in net : /\ To(b) = m /\ net' = net \ {b}
                           /\ TooOld(m, b) \/ (Current(m, b) /\ ~overlay[m])
      BY <1>6 DEF DropBatch
    <2>2. b.query \in 0..MaxQuery
      BY <1>1 DEF TypeOK, Batch
    <2>3. Passed(m, b.query, b.round)
      BY <1>1, <2>1, <2>2 DEF TooOld, Current, Passed, Left, NoQuery, TypeOK
    <2> QED
      BY <1>1, <1>6, <2>1, <2>3, OtherStepsKeepDeliveryInv DEF DropBatch, meterVars
  <1>7. ASSUME NEW m \in Meter, Crash(m)
        PROVE  DeliveryInv'
    BY <1>1, <1>7, OtherStepsKeepDeliveryInv DEF Crash, meterVars
  <1>8. ASSUME IssueQuery \/ UNCHANGED vars \/
               \E m \in Meter : ReceivePong(m) \/ KeepWaiting(m)
        PROVE  DeliveryInv'
    <2>1. UNCHANGED <<query, round, overlay, waiting, future, net, crashed>>
      BY <1>8 DEF IssueQuery, ReceivePong, KeepWaiting, meterVars, vars
    <2> QED BY <1>1, <2>1, OtherStepsKeepDeliveryInv
  <1> QED
    BY <1>2, <1>3, <1>4, <1>5, <1>6, <1>7, <1>8 DEF Next, Delivery, Timeout

\* Whatever is in flight, buffered, rejected as too old or lost in a crash, the
\* batch a live meter waits for is on its way once its predecessor has entered
\* the round, as long as no message is left over from an earlier query.
THEOREM AwaitedNeverLost == ~HoldsMessages => (Spec => []AwaitedBatchOnItsWay)
  <1> SUFFICES ASSUME ~HoldsMessages PROVE Spec => []AwaitedBatchOnItsWay
    OBVIOUS
  <1>1. DeliveryInv => AwaitedBatchOnItsWay
    <2> SUFFICES ASSUME DeliveryInv, NEW m \in Meter \ crashed, NEW p, NEW j, NEW q,
                        j = round[m], p = Pred(m, j), q = query[m], overlay[m],
                        query[p] = q, round[p] >= j
                 PROVE  BatchOf(p, q, j) \in net
      BY DEF AwaitedBatchOnItsWay
    <2>1. TypeOK
      BY DEF DeliveryInv, BufferInv, StepInv
    <2>2. j \in Round /\ j \in Int /\ q \in 0..MaxQuery /\ p \in Meter
      BY <2>1, NeighboursAreMeters, ConstantsAssumption
         DEF TypeOK, Round, DeliveryInv, BufferInv, PhaseInQuery, NoQuery
    <2>3. j <= round[p]
      BY <2>1, <2>2 DEF TypeOK, Round
    <2>4. BatchOf(p, q, j) \in net \cup future[m] \/ Passed(m, q, j)
      BY <2>2, <2>3 DEF DeliveryInv, BatchesAccounted
    <2>5. BatchOf(p, q, j) \notin future[m]
      BY <2>2 DEF DeliveryInv, BufferInv, BufferedBatchesAhead, BatchOf
    <2>6. ~Passed(m, q, j)
      BY <2>2 DEF Passed, Left
    <2> QED BY <2>4, <2>5, <2>6
  <1>2. DeliveryInv /\ [Next]_vars => DeliveryInv'
    BY NextDeliveryInv
  <1> QED BY <1>1, <1>2, InitDeliveryInv, PTL DEF Spec

----------------------------------------------------------------------------
(* Nobody is left behind. *)

\* What meter m has heard of before a round it has heard of before a later one,
\* and what it hears of in a round the predecessor of that round has heard of.
LEMMA HeardFromPredecessors ==
  ASSUME NEW heard, GossipSpread(heard),
         NEW m \in Meter, NEW k \in 0..(LastRound + 1), NEW j \in 0..k
  PROVE  /\ heard[j][m] \subseteq heard[k][m]
         /\ heard[k][m] \subseteq Meter
         /\ \A p \in heard[k][m] :
              p = m \/ \E i \in 0..(k - 1) : p \in heard[i][Pred(m, i)]
         /\ \A i \in 0..(k - 1) : heard[i][Pred(m, i)] \subseteq heard[k][m]
  <1> USE ConstantsAssumption
  <1> DEFINE By(n) == {m} \cup UNION {heard[i][Pred(m, i)] : i \in 0..(n - 1)}
  <1>1. j \in 0..(LastRound + 1) /\ \A i \in 0..(j - 1) : i \in 0..(k - 1)
    OBVIOUS
  <1>2. ASSUME NEW n \in 0..(LastRound + 1)
        PROVE  heard[n][m] = By(n)
    <2> DEFINE Before(p, l) == {p} \cup UNION {heard[i][Pred(p, i)] : i \in 0..(l - 1)}
               Line(l) == [p \in Meter |-> Before(p, l)]
    <2>1. heard = [l \in 0..(LastRound + 1) |-> Line(l)]
      BY DEF GossipSpread
    <2> HIDE DEF Line
    <2>2. heard[n] = Line(n)
      BY <2>1
    <2> HIDE DEF Before
    <2>3. Line(n)[m] = Before(m, n)
      BY DEF Line
    <2> QED BY <2>2, <2>3 DEF Before
  <1>3. By(j) \subseteq By(k)
    BY <1>1
  <1>4. heard[k][m] \subseteq Meter
    BY DEF GossipSpread
  <1> QED BY <1>1, <1>2, <1>3, <1>4

\* Whoever can have been heard of has received the request of the query: the
\* meters heard of by the sender of a batch before the round it is of, and by a
\* meter before the round it is in.
RequestSpread(heard) ==
  \A m \in Meter :
    /\ \A b \in net \cup future[m] : \A p \in heard[b.round][b.from] : query[p] >= b.query
    /\ \A p \in heard[StepOf(m)][m] : query[p] >= query[m]

\* The inductive invariant of NobodyLeftBehind.
SpreadInv(heard) == DetectInv /\ (crashed = {} => RequestSpread(heard))

\* Without crashes a meter passes a round only with the batch of the
\* predecessor, and has then heard of all that the predecessor had heard of.
LEMMA PassingSpreads ==
  ASSUME NEW heard, GossipSpread(heard), SpreadInv(heard), DetectInv', crashed = {},
         NEW m \in Meter, NEW q \in 0..MaxQuery, NEW r \in -1..LastRound,
         NEW known \in SUBSET crashed, NEW skip, NEW left, NEW wire \in SUBSET net,
         NEW stop \in (r + 1)..(LastRound + 1),
         Passes(m, q, r, known, skip, left, wire, stop),
         \/ q > query[m] /\ r = -1
         \/ /\ q = query[m] /\ r = round[m] /\ overlay[m]
            /\ \A p \in heard[r][Pred(m, r)] : query[p] >= q,
         query' = [query EXCEPT ![m] = q],
         UNCHANGED crashed
  PROVE  SpreadInv(heard)'
  <1> USE ConstantsAssumption
  <1>1. TypeOK /\ TypeOK' /\ BufferInv /\ RequestSpread(heard)
    BY DEF SpreadInv, DetectInv, BufferInv, StepInv
  <1>2. /\ query'[m] = q
        /\ \A p \in Meter \ {m} : query'[p] = query[p]
        /\ \A p \in Meter : query[p] \in NoQuery..MaxQuery
    BY <1>1 DEF TypeOK
  <1>3. \A p \in Meter : query'[p] >= query[p]
    BY <1>2 DEF NoQuery
  <1>4. ASSUME NEW i \in (r + 1)..(stop - 1)
        PROVE  \A p \in heard[i][Pred(m, i)] : query[p] >= q
    <2>1. BatchOf(Pred(m, i), q, i) \in future[m]
      BY <1>4 DEF Passes
    <2> QED BY <1>1, <2>1 DEF RequestSpread, BatchOf
  <1>5. ASSUME NEW p \in heard[stop][m]
        PROVE  query'[p] >= q
    <2>1. stop \in 0..(LastRound + 1) /\ p \in Meter
      BY HeardFromPredecessors
    <2>2. CASE p = m
      BY <1>2, <2>2
    <2>3. ASSUME NEW i \in 0..(stop - 1), p \in heard[i][Pred(m, i)]
          PROVE  query[p] >= q
      <3>1. CASE i > r
        BY <1>4, <2>3, <3>1
      <3>2. CASE i = r
        BY <2>3, <3>2
      <3>3. CASE i < r
        <4>1. r = round[m] /\ q = query[m] /\ StepOf(m) = r
          BY <3>3 DEF StepOf
        <4>2. p \in heard[r][m]
          BY <2>3, <3>3, HeardFromPredecessors
        <4> QED BY <1>1, <4>1, <4>2 DEF RequestSpread
      <3> QED BY <3>1, <3>2, <3>3
    <2>4. p = m \/ \E i \in 0..(stop - 1) : p \in heard[i][Pred(m, i)]
      BY <2>1, HeardFromPredecessors
    <2>5. q \in Int /\ query[p] \in Int /\ query'[p] \in Int
      BY <1>1, <2>1 DEF TypeOK, NoQuery
    <2> QED BY <1>3, <2>1, <2>2, <2>3, <2>4, <2>5
  <1>6. ASSUME NEW x \in Meter, NEW b \in net' \cup future'[x],
               NEW p \in heard[b.round][b.from]
        PROVE  query'[p] >= b.query
    <2>1a. b \in Batch
      BY <1>1 DEF TypeOK
    <2>1. b.query \in 0..MaxQuery /\ b.round \in 0..LastRound /\ b.from \in Meter
      BY <2>1a DEF Batch, Round
    <2>2. p \in Meter
      BY <2>1, HeardFromPredecessors
    <2>3. query[p] \in Int /\ query'[p] \in Int
      BY <1>1, <2>2 DEF TypeOK, NoQuery
    <2>4. CASE b \in net \cup future[x]
      BY <1>1, <1>3, <2>1, <2>2, <2>3, <2>4 DEF RequestSpread
    <2>5. CASE b \in net' \ wire
      <3>1. b.from = m /\ b.query <= q /\ b.round <= stop
        BY <2>5 DEF Passes
      <3>2. p \in heard[stop][m]
        BY <2>1, <3>1, HeardFromPredecessors
      <3> QED BY <1>5, <2>1, <2>3, <3>1, <3>2
    <2>6. future'[x] \subseteq future[x]
      BY DEF Passes
    <2> QED BY <2>4, <2>5, <2>6
  <1>7. ASSUME NEW x \in Meter, NEW p \in heard[StepOf(x)'][x]
        PROVE  query'[p] >= query'[x]
    <2>1. CASE x = m
      <3>1. StepOf(m)' = stop
        BY <1>1, PassingSteps DEF SpreadInv
      <3> QED BY <1>2, <1>5, <1>7, <2>1, <3>1
    <2>2. CASE x # m
      <3>1. StepOf(x)' = StepOf(x)
        BY <1>1, PassingSteps, <2>2
      <3>2. query[p] >= query[x]
        BY <1>1, <1>7, <3>1 DEF RequestSpread
      <3>3. p \in Meter
        <4>1. StepOf(x) \in 0..(LastRound + 1) /\ 0 \in 0..StepOf(x)
          <5>1. round[x] \in 0..LastRound
            BY <1>1 DEF TypeOK, Round
          <5>2. StepOf(x) = round[x] \/ StepOf(x) = LastRound + 1
            BY DEF StepOf
          <5> QED BY <5>1, <5>2
        <4>2. heard[StepOf(x)][x] \subseteq Meter
          BY <4>1, HeardFromPredecessors
        <4> QED BY <1>7, <3>1, <4>2
      <3>4. query[p] \in Int /\ query'[p] \in Int /\ query[x] \in Int
        BY <1>1, <3>3 DEF TypeOK, NoQuery
      <3> QED BY <1>2, <1>3, <2>2, <3>2, <3>3, <3>4
    <2> QED BY <2>1, <2>2
  <1>8. RequestSpread(heard)'
    BY <1>6, <1>7 DEF RequestSpread
  <1> QED BY <1>8 DEF SpreadInv

\* At first nobody has received a request.
LEMMA InitSpreadInv ==
  ASSUME NEW heard, GossipSpread(heard)
  PROVE  Init => SpreadInv(heard)
  <1> SUFFICES ASSUME Init PROVE SpreadInv(heard)
    OBVIOUS
  <1>1. ASSUME NEW m \in Meter, NEW p \in heard[StepOf(m)][m]
        PROVE  query[p] >= query[m]
    <2>1. StepOf(m) \in 0..(LastRound + 1)
      BY ConstantsAssumption DEF Init, StepOf
    <2>2. p \in Meter
      BY <2>1, HeardFromPredecessors
    <2> QED BY <2>2 DEF Init, NoQuery
  <1>2. RequestSpread(heard)
    BY <1>1 DEF Init, RequestSpread
  <1> QED BY <1>2, InitDetectInv DEF SpreadInv

\* Every step preserves the invariant.
LEMMA NextSpreadInv ==
  ASSUME NEW heard, GossipSpread(heard), Synchronous
  PROVE  SpreadInv(heard) /\ [Next]_vars => SpreadInv(heard)'
  <1> SUFFICES ASSUME SpreadInv(heard), [Next]_vars PROVE SpreadInv(heard)'
    OBVIOUS
  <1> USE ConstantsAssumption
  <1>1. /\ DetectInv /\ DetectInv' /\ StepInv /\ TypeOK
        /\ FailedAreCrashed /\ PredecessorAsked
    BY NextDetectInv DEF SpreadInv, DetectInv, BufferInv, StepInv
  <1>2. crashed \subseteq crashed'
    BY DEF Next, Delivery, Timeout, IssueQuery, StartQuery, BufferBatch, HandleBatch,
           DropBatch, ReceivePong, KeepWaiting, GiveUp, Crash, vars
  <1> SUFFICES ASSUME crashed' = {} PROVE SpreadInv(heard)'
    BY <1>1 DEF SpreadInv
  <1>3. crashed = {} /\ UNCHANGED crashed /\ RequestSpread(heard)
    BY <1>2 DEF SpreadInv
  <1>4. ASSUME NEW m \in Meter, StartQuery(m)
        PROVE  SpreadInv(heard)'
    <2>1. PICK left \in SUBSET Leftover, stop \in 0..(LastRound + 1) :
            Passes(m, query[m] + 1, -1, {}, {}, left, net, stop)
      BY <1>1, <1>4, StartPasses
    <2>2. stop \in (-1 + 1)..(LastRound + 1) /\ -1 \in -1..LastRound
      OBVIOUS
    <2>3. query[m] + 1 \in 0..MaxQuery /\ query' = [query EXCEPT ![m] = query[m] + 1]
      BY <1>1, <1>4, StartPasses
    <2>4. query[m] + 1 > query[m]
      BY <1>1 DEF TypeOK, NoQuery
    <2> QED
      BY <1>1, <1>3, <2>1, <2>2, <2>3, <2>4, PassingSpreads
  <1>5. ASSUME NEW m \in Meter, HandleBatch(m)
        PROVE  SpreadInv(heard)'
    <2> DEFINE b == BatchOf(Pred(m, round[m]), query[m], round[m])
    <2>1. PICK stop \in (round[m] + 1)..(LastRound + 1) :
            Passes(m, query[m], round[m], failed[m], skipped[m], waiting[m], net \ {b}, stop)
      BY <1>1, <1>5, BatchPasses
    <2>2. /\ round[m] \in -1..LastRound /\ overlay[m]
          /\ failed[m] \in SUBSET crashed
          /\ query' = [query EXCEPT ![m] = query[m]]
      BY <1>1, <1>5 DEF TypeOK, Round, HandleBatch, FailedAreCrashed
    <2>3. b \in net /\ query[m] \in 0..MaxQuery
      BY <1>1, <1>5, BatchPasses
    <2>4. \A p \in heard[round[m]][Pred(m, round[m])] : query[p] >= query[m]
      BY <1>3, <2>3 DEF RequestSpread, BatchOf
    <2> QED
      BY <1>1, <1>3, <2>1, <2>2, <2>3, <2>4, PassingSpreads
  <1>6. ASSUME NEW m \in Meter, GiveUp(m)
        PROVE  FALSE
    <2>1. Pred(m, round[m]) \in crashed
      BY <1>1, <1>6 DEF GiveUp, TimerExpires, PredecessorAsked
    <2> QED BY <1>3, <2>1
  <1>7. ASSUME NEW m \in Meter, BufferBatch(m)
        PROVE  SpreadInv(heard)'
    <2>1. /\ UNCHANGED <<query, round, overlay>>
          /\ \A p \in Meter : net' \cup future'[p] \subseteq net \cup future[p]
      BY <1>1, <1>7 DEF BufferBatch, buffer_future_message, TypeOK
    <2>2. RequestSpread(heard)'
      BY <1>3, <2>1 DEF RequestSpread, StepOf
    <2> QED BY <1>1, <2>2 DEF SpreadInv
  <1>8. ASSUME IssueQuery \/ UNCHANGED vars \/
               \E m \in Meter : \/ DropBatch(m) \/ ReceivePong(m)
                                \/ KeepWaiting(m) \/ Crash(m)
        PROVE  SpreadInv(heard)'
    <2>1. UNCHANGED <<query, round, overlay, future>> /\ net' \subseteq net
      BY <1>8 DEF IssueQuery, DropBatch, ReceivePong, KeepWaiting, Crash, meterVars, vars
    <2>2. RequestSpread(heard)'
      BY <1>3, <2>1 DEF RequestSpread, StepOf
    <2> QED BY <1>1, <2>2 DEF SpreadInv
  <1> QED
    BY <1>4, <1>5, <1>6, <1>7, <1>8 DEF Next, Delivery, Timeout

\* Without crashes, nobody starts to aggregate before every meter has received
\* the request, as long as the hops of the rounds reach everyone, whatever is
\* left over from an earlier query and whoever abandons one.
THEOREM RequestReachesAll ==
  ASSUME NEW CONSTANT heard, GossipSpread(heard), SpreadsToAll(heard), Synchronous
  PROVE  Spec => []NobodyLeftBehind
  <1>1. SpreadInv(heard) => NobodyLeftBehind
    <2> SUFFICES ASSUME SpreadInv(heard), crashed = {},
                        NEW m \in Meter, NEW p \in Meter, Left(m, LastRound)
                 PROVE  query[p] >= query[m]
      BY DEF NobodyLeftBehind
    <2>1. TypeOK /\ RequestSpread(heard)
      BY DEF SpreadInv, DetectInv, BufferInv, StepInv
    <2>2. StepOf(m) = LastRound + 1
      BY <2>1, ConstantsAssumption DEF Left, StepOf, TypeOK, Round
    <2>3. p \in heard[StepOf(m)][m]
      BY <2>2 DEF SpreadsToAll
    <2> QED BY <2>1, <2>3 DEF RequestSpread
  <1>2. Init => SpreadInv(heard)
    BY InitSpreadInv
  <1>3. SpreadInv(heard) /\ [Next]_vars => SpreadInv(heard)'
    BY NextSpreadInv
  <1> QED BY <1>1, <1>2, <1>3, PTL DEF Spec

=============================================================================
