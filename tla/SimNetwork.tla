------------------------------ MODULE SimNetwork ------------------------------
(***************************************************************************)
(* The meters' network and timers in the simulator (SimNetworkClient.cpp,  *)
(* Network.cpp, SimTimerManager.cpp) over the event queues.  Cryptography  *)
(* and failed recipients make a client busy for a while: it queues what it *)
(* receives, and what it sends leaves when it is done.                     *)
(*                                                                         *)
(* What a MeterClient does in its handlers is left open: it computes,      *)
(* sends, and registers and cancels timers.  A step is one such call, or a *)
(* turn of the loop in run_simulation or resume_from_busy.                 *)
(***************************************************************************)
EXTENDS EventManager, Sequences, FiniteSets

CONSTANTS
  Meter,
  Latency,       \* the results of generate_latency, in milliseconds
  Computations,  \* the times that cryptography takes, in microseconds
  TimerDelays,
  MaxFailures,   \* bound: meters that fail
  MaxMessages,   \* bound: messages that are sent
  MaxTimers,     \* bound: timers ever registered
  MaxComputed    \* bound: computations of all meters

ASSUME SimAssumption ==
  /\ Meter \subseteq Nat /\ IsFiniteSet(Meter)
  /\ Latency \subseteq Nat
  /\ Computations \subseteq Nat
  /\ TimerDelays \subseteq Nat

VARIABLES
  failed,
  accumulated_delay_micros, client_is_busy, busy_until_time, incoming_message_queue,
  next_id,
  working,       \* the call of a MeterClient that run_simulation is in
  sent,          \* the number of messages sent
  computed,      \* the number of computations
  arrived,       \* history: a meter's messages that came and were not yet handled
  ran,           \* history: timers that were run
  revoked        \* history: timers that were cancelled

client == <<accumulated_delay_micros, client_is_busy, busy_until_time>>
queues == <<simulation_time, event_queue, timeout_queue, last_gc_time>>
bounds == <<next_id, sent, computed>>
timers == <<ran, revoked>>
vars == <<queues, running, failed, client, incoming_message_queue, working, bounds, arrived, timers>>

None == -1
Nobody == [meter |-> None]

\* The call that handles a message, and that of a timer.
Handles(m, message) == [meter |-> m, message |-> message]
RunsTimer(m, id) == [meter |-> m, timer |-> id]

Delivery(time, to, messages) ==
  [type |-> "deliver", fire_time |-> time, to |-> to, messages |-> messages]
DelayedSend(time, from, to, messages) ==
  [type |-> "send", fire_time |-> time, from |-> from, to |-> to, messages |-> messages]
Resume(time, m) == [type |-> "resume", fire_time |-> time, meter |-> m, cancelled |-> FALSE]
Timer(time, m, id) ==
  [type |-> "timer", fire_time |-> time, meter |-> m, id |-> id, cancelled |-> FALSE]

\* Meters fail before a query starts, and get nothing from then on.  To the others
\* the utility's query, in one message to each, is under way.
Init ==
  /\ InitEvents
  /\ failed \in {f \in SUBSET Meter : Cardinality(f) <= MaxFailures}
  /\ \E latency \in [Meter \ failed -> Latency] :
       event_queue = {Delivery(latency[m], m, <<m>>) : m \in Meter \ failed}
  /\ accumulated_delay_micros = [m \in Meter |-> 0]
  /\ client_is_busy = [m \in Meter |-> FALSE]
  /\ busy_until_time = [m \in Meter |-> 0]
  /\ incoming_message_queue = [m \in Meter |-> <<>>]
  /\ next_id = 0
  /\ working = Nobody
  /\ sent = 0
  /\ computed = 0
  /\ arrived = [m \in Meter |-> <<>>]
  /\ ran = {}
  /\ revoked = {}

----------------------------------------------------------------------------
(* The client. *)

Cancel(events) ==
  (timeout_queue \ events) \cup {[e EXCEPT !.cancelled = TRUE] : e \in events}

NoEvent(m) == {}  \* fault: the earlier end of the delay is not cancelled

busy_done_event(m) == {e \in timeout_queue :
  client_is_busy[m] /\ e = Resume(busy_until_time[m], m)}

\* Where a delay of m starts.
DelayedFrom(m) == IF client_is_busy[m] THEN busy_until_time[m] ELSE simulation_time

delay_client(m, micros) ==
  LET total == accumulated_delay_micros[m] + micros
      until == DelayedFrom(m) + total \div 1000
  IN IF total > 1000
     THEN /\ accumulated_delay_micros' = [accumulated_delay_micros EXCEPT ![m] = total % 1000]
          /\ client_is_busy' = [client_is_busy EXCEPT ![m] = TRUE]
          /\ busy_until_time' = [busy_until_time EXCEPT ![m] = until]
          /\ timeout_queue' = Cancel(busy_done_event(m)) \cup {Resume(until, m)}
     ELSE /\ accumulated_delay_micros' = [accumulated_delay_micros EXCEPT ![m] = total]
          /\ UNCHANGED <<client_is_busy, busy_until_time, timeout_queue>>

\* Network::send.  A failed recipient costs the sender a round trip.  A failed
\* sender would do nothing, but has nothing to send.
network_send(from, to, messages) ==
  \/ /\ to \notin failed
     /\ \E latency \in Latency :
          event_queue' = event_queue \cup {Delivery(simulation_time + latency, to, messages)}
     /\ UNCHANGED <<timeout_queue, client>>
  \/ /\ to \in failed
     /\ \E there, back \in Latency : delay_client(from, (there + back) * 1000)
     /\ UNCHANGED event_queue

----------------------------------------------------------------------------
(* What a MeterClient calls while it handles a message or a timer. *)

Compute(m) ==
  /\ computed < MaxComputed
  /\ computed' = computed + 1
  /\ \E micros \in Computations : delay_client(m, micros)
  /\ UNCHANGED <<simulation_time, event_queue, last_gc_time, running, failed,
                 incoming_message_queue, working, next_id, sent, arrived, timers>>

\* SimNetworkClient::send of a list of one or two messages.
Send(m) ==
  /\ \E count \in {1, 2}, to \in Meter \ {m} :
       LET messages == [i \in 1..count |-> Cardinality(Meter) + sent + i]
       IN /\ sent + count <= MaxMessages
          /\ sent' = sent + count
          /\ \/ /\ ~ client_is_busy[m]
                /\ network_send(m, to, messages)
             \/ /\ client_is_busy[m]
                /\ event_queue' =
                     event_queue \cup {DelayedSend(busy_until_time[m], m, to, messages)}
                /\ UNCHANGED <<timeout_queue, client>>
  /\ UNCHANGED <<simulation_time, last_gc_time, running, failed, incoming_message_queue,
                 working, next_id, computed, arrived, timers>>

register_timer(m) ==
  /\ next_id < MaxTimers
  /\ next_id' = next_id + 1
  /\ \E delay \in TimerDelays :
       timeout_queue' = timeout_queue \cup {Timer(simulation_time + delay, m, next_id)}
  /\ UNCHANGED <<simulation_time, event_queue, last_gc_time, running, failed, client,
                 incoming_message_queue, working, sent, computed, arrived, timers>>

cancel_timer(m) ==
  /\ \E e \in timeout_queue :
       /\ e.type = "timer" /\ e.meter = m /\ ~ e.cancelled
       /\ timeout_queue' = Cancel({e})
       /\ revoked' = revoked \cup {e.id}
  /\ UNCHANGED <<simulation_time, event_queue, last_gc_time, running, failed, client,
                 incoming_message_queue, working, bounds, arrived, ran>>

\* The handler returns; resume_from_busy pops a message when it was handled.
Return(m) ==
  /\ working' = Nobody
  /\ running' = IF running.type = "timer" THEN Idle ELSE running
  /\ incoming_message_queue' =
       [incoming_message_queue EXCEPT ![m] = IF running.type = "resuming" THEN Tail(@) ELSE @]
  /\ arrived' = [arrived EXCEPT ![m] = IF running.type = "timer" THEN @ ELSE Tail(@)]
  /\ UNCHANGED <<queues, failed, client, bounds, timers>>

----------------------------------------------------------------------------
(* Events. *)

TakeEvent ==
  /\ run_simulation
  /\ UNCHANGED <<failed, client, incoming_message_queue, working, bounds, arrived, timers>>

\* receive_message, for the next message of a delivery.
receive_message ==
  LET m == running.to
      message == Head(running.messages)
  IN /\ running.type = "deliver"
     /\ running.messages # <<>>
     /\ running' = [running EXCEPT !.messages = Tail(@)]
     /\ arrived' = [arrived EXCEPT ![m] = Append(@, message)]
     /\ \/ /\ ~ client_is_busy[m]
           /\ accumulated_delay_micros' = [accumulated_delay_micros EXCEPT ![m] = 0]
           /\ working' = Handles(m, message)
           /\ UNCHANGED incoming_message_queue
        \/ /\ client_is_busy[m]
           /\ incoming_message_queue' = [incoming_message_queue EXCEPT ![m] = Append(@, message)]
           /\ UNCHANGED <<accumulated_delay_micros, working>>
     /\ UNCHANGED <<queues, failed, client_is_busy, busy_until_time, bounds, timers>>

Delivered ==
  /\ running.type = "deliver"
  /\ running.messages = <<>>
  /\ running' = Idle
  /\ UNCHANGED <<queues, failed, client, incoming_message_queue, working, bounds, arrived, timers>>

\* A send that waited for the client.
SendDelayed ==
  /\ running.type = "send"
  /\ network_send(running.from, running.to, running.messages)
  /\ running' = Idle
  /\ UNCHANGED <<simulation_time, last_gc_time, failed, incoming_message_queue, working,
                 bounds, arrived, timers>>

RunTimer ==
  /\ running.type = "timer"
  /\ working' = RunsTimer(running.meter, running.id)
  /\ ran' = ran \cup {running.id}
  /\ UNCHANGED <<queues, running, failed, client, incoming_message_queue, bounds, arrived, revoked>>

\* resume_from_busy, up to its loop.
resume_from_busy ==
  /\ running.type = "resume"
  /\ IF simulation_time < busy_until_time[running.meter]
     THEN running' = Idle /\ UNCHANGED client_is_busy
     ELSE /\ running' = [type |-> "resuming", meter |-> running.meter]
          /\ client_is_busy' = [client_is_busy EXCEPT ![running.meter] = FALSE]
  /\ UNCHANGED <<queues, failed, accumulated_delay_micros, busy_until_time,
                 incoming_message_queue, working, bounds, arrived, timers>>

ReceivesButLast(m) ==  \* fault: the loop ends one too early
  ~ client_is_busy[m] /\ Len(incoming_message_queue[m]) > 1

\* The condition of the loop: while(!client_is_busy && !queue.empty()).
Receives(m) == ~ client_is_busy[m] /\ incoming_message_queue[m] # <<>>

ReceiveQueued ==
  /\ running.type = "resuming"
  /\ LET m == running.meter
     IN IF Receives(m)
        THEN working' = Handles(m, Head(incoming_message_queue[m])) /\ UNCHANGED running
        ELSE running' = Idle /\ UNCHANGED working
  /\ UNCHANGED <<queues, failed, client, incoming_message_queue, bounds, arrived, timers>>

Next ==
  \/ /\ working = Nobody
     /\ \/ TakeEvent
        \/ receive_message
        \/ Delivered
        \/ SendDelayed
        \/ RunTimer
        \/ resume_from_busy
        \/ ReceiveQueued
        \/ Over /\ UNCHANGED vars
  \/ \E m \in Meter :
       /\ working.meter = m
       /\ Compute(m) \/ Send(m) \/ register_timer(m) \/ cancel_timer(m) \/ Return(m)

Spec == Init /\ [][Next]_vars

----------------------------------------------------------------------------
(* Properties. *)

\* Between events, a busy client has one event that will wake it, at the end of
\* its delay and not in the past, however often the delay was extended; a free
\* one has none.  What a client sent while it was busy has left when it is free.
BusyClientWakes ==
  running = Idle =>
    /\ \A m \in Meter :
         /\ {e.fire_time : e \in {f \in timeout_queue :
               f.type = "resume" /\ f.meter = m /\ ~ f.cancelled}}
              = {time \in {busy_until_time[m]} : client_is_busy[m]}
         /\ client_is_busy[m] => busy_until_time[m] >= simulation_time
    /\ \A e \in event_queue : e.type = "send" =>
         client_is_busy[e.from] /\ e.fire_time <= busy_until_time[e.from]

\* A client handles its messages in the order of their arrival, also those that
\* come when it is free after others that had to wait.
HandledInOrder ==
  /\ "message" \in DOMAIN working => working.message = Head(arrived[working.meter])
  /\ running = Idle => incoming_message_queue = arrived

\* When no event is left, no client is busy, none has a message that it did not
\* handle, and every timer was run or cancelled.
NothingForgotten ==
  Over => /\ \A m \in Meter : ~ client_is_busy[m] /\ arrived[m] = <<>>
          /\ ran \cup revoked = 0..(next_id - 1)

\* The timers keep the contract of util/TimerManager.h, although cancelled
\* events stay in the queue until they fire or are filtered out.
Contract == INSTANCE TimerManager WITH
  pending <- {e.id : e \in {f \in timeout_queue \cup {running} :
                              f.type = "timer" /\ ~ f.cancelled /\ f.id \notin ran}}

KeepsContract == Contract!Spec

=============================================================================
