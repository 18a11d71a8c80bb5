----------------------------- MODULE TimerManager -----------------------------
(***************************************************************************)
(* What util/TimerManager.h promises to the clients of a timer library: a  *)
(* timer has a number of its own, runs its callback once at most, and "will *)
(* take no action" if it is cancelled before that.                         *)
(***************************************************************************)
EXTENDS Integers

VARIABLES
  next_id,   \* the number of the next timer
  pending,   \* timers that have neither run nor been cancelled
  ran        \* timers whose callback was started

vars == <<next_id, pending, ran>>

Init ==
  /\ next_id = 0
  /\ pending = {}
  /\ ran = {}

Register ==
  /\ next_id' = next_id + 1
  /\ pending' = pending \cup {next_id}
  /\ ran' = ran

Cancel(id) ==
  /\ pending' = pending \ {id}
  /\ UNCHANGED <<next_id, ran>>

Run(id) ==
  /\ id \in pending
  /\ pending' = pending \ {id}
  /\ ran' = ran \cup {id}
  /\ next_id' = next_id

Next ==
  \/ Register
  \/ \E id \in 0..(next_id - 1) : Cancel(id) \/ Run(id)

Spec == Init /\ [][Next]_vars

=============================================================================
