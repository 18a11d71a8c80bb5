----------------------------- MODULE GossipRounds -----------------------------
(***************************************************************************)
(* What the round structure promises to the protocols above it: a meter    *)
(* leaves a round of a query only when its gossip predecessor has entered  *)
(* that round, or is down.  The comment at ProtocolState.h:94-97 states    *)
(* the exception: "we don't bother waiting for a message from a meter that *)
(* has failed".                                                            *)
(***************************************************************************)
EXTENDS Integers

CONSTANTS N, LastRound, Offset, MaxQuery

Meter == 0..(N - 1)
NoQuery == -1

VARIABLES
  query,    \* the query each meter is in
  step,     \* the round it is in; LastRound + 1 when it has left them all
  down      \* meters that have stopped

vars == <<query, step, down>>

Pred(m, j) == IF m >= Offset[j] THEN m - Offset[j] ELSE m - Offset[j] + N

Init ==
  /\ query = [m \in Meter |-> NoQuery]
  /\ step = [m \in Meter |-> LastRound + 1]
  /\ down = {}

MayLeave(m, q, j) ==
  LET p == Pred(m, j)
  IN \/ p \in down
     \/ query[p] > q
     \/ query[p] = q /\ step[p] >= j

\* Start the next query and pass the rounds before round k at once.
Start(m, k) ==
  /\ m \notin down
  /\ query[m] < MaxQuery
  /\ \A j \in 0..(k - 1) : MayLeave(m, query[m] + 1, j)
  /\ query' = [query EXCEPT ![m] = query[m] + 1]
  /\ step' = [step EXCEPT ![m] = k]
  /\ down' = down

\* Pass from one round to a later one.
Advance(m, k) ==
  /\ m \notin down
  /\ step[m] < k
  /\ \A j \in step[m]..(k - 1) : MayLeave(m, query[m], j)
  /\ step' = [step EXCEPT ![m] = k]
  /\ UNCHANGED <<query, down>>

Stop(m) ==
  /\ m \notin down
  /\ down' = down \cup {m}
  /\ UNCHANGED <<query, step>>

Next ==
  \E m \in Meter :
    \/ \E k \in 0..(LastRound + 1) : Start(m, k) \/ Advance(m, k)
    \/ Stop(m)

Spec == Init /\ [][Next]_vars

=============================================================================
