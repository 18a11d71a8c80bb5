----------------------------- MODULE EventManager -----------------------------
(***************************************************************************)
(* The queues of the simulator (simulation/EventManager.cpp): events, and  *)
(* timeouts, which are likely to be cancelled and are filtered from time to *)
(* time.  An event is a record with its fire_time; one cannot be submitted *)
(* twice, so that sets stand for the priority queues, which do not say who *)
(* comes first of two events of one time.                                  *)
(*                                                                         *)
(* Here and in the modules above, an operator marked "fault" is what a     *)
(* slip in the code would make of the definition it precedes.              *)
(***************************************************************************)
EXTENDS Integers

CONSTANT GARBAGE_COLLECT_INTERVAL

ASSUME EventAssumption == GARBAGE_COLLECT_INTERVAL \in Nat

VARIABLES
  simulation_time,
  event_queue,
  timeout_queue,   \* events with a field `cancelled` besides
  last_gc_time,
  running          \* the event that run_simulation has taken, or Idle

Idle == [type |-> "idle"]

InitEvents ==
  /\ simulation_time = 0
  /\ timeout_queue = {}
  /\ last_gc_time = 0
  /\ running = Idle

KeptCancelled == {e \in timeout_queue : e.cancelled}  \* fault: the filter inverted

garbage_collect_timeouts == {e \in timeout_queue : ~ e.cancelled}

CollectsGarbage ==
  timeout_queue # {} /\ simulation_time - last_gc_time > GARBAGE_COLLECT_INTERVAL

\* What is left of the timeouts when an event is about to be taken.
Timeouts == IF CollectsGarbage THEN garbage_collect_timeouts ELSE timeout_queue

Earliest(queue) == {e \in queue : \A other \in queue : e.fire_time <= other.fire_time}

\* Events come before the timeouts of their time.
TimeoutFirst(timeouts) ==
  \E t \in Earliest(timeouts) : \A e \in event_queue : t.fire_time < e.fire_time

NeverCancelled(e) == FALSE  \* fault: fire() does not look

\* Event::fire does nothing.
IsCancelled(e) == e \in timeout_queue /\ e.cancelled

\* The loop takes its next event.
run_simulation ==
  /\ running = Idle
  /\ last_gc_time' = IF CollectsGarbage THEN simulation_time ELSE last_gc_time
  /\ \E e \in IF TimeoutFirst(Timeouts) THEN Earliest(Timeouts) ELSE Earliest(event_queue) :
       /\ simulation_time' = e.fire_time
       /\ timeout_queue' = Timeouts \ {e}
       /\ event_queue' = event_queue \ {e}
       /\ running' = IF IsCancelled(e) THEN Idle ELSE e

\* The loop finds no event.
Over == running = Idle /\ event_queue = {} /\ Timeouts = {}

=============================================================================
