--------------------------- MODULE SimNetworkProofs ---------------------------
(***************************************************************************)
(* In the simulator a busy client always has one event that will wake it,  *)
(* messages are handled in the order they arrive in, nothing is forgotten  *)
(* when no event is left, and timers keep their contract: for any meters,  *)
(* latencies and delays, and however often garbage is collected.           *)
(***************************************************************************)
EXTENDS SimNetwork, TLAPS, SequenceTheorems, FiniteSetTheorems, WellFoundedInduction

\* The events of the two queues, and what run_simulation may be in.
DeliveryEvent == [type : {"deliver"}, fire_time : Nat, to : Meter, messages : Seq(Nat)]
SendEvent ==
  [type : {"send"}, fire_time : Nat, from : Meter, to : Meter, messages : Seq(Nat)]
ResumeEvent == [type : {"resume"}, fire_time : Nat, meter : Meter, cancelled : BOOLEAN]
TimerEvent ==
  [type : {"timer"}, fire_time : Nat, meter : Meter, id : Nat, cancelled : BOOLEAN]
Resuming == [type : {"resuming"}, meter : Meter]

\* The calls of a MeterClient.
HandlerCall == [meter : Meter, message : Nat]
TimerCall == [meter : Meter, timer : Nat]

\* What the variables range over.
Types ==
  /\ simulation_time \in Nat
  /\ event_queue \subseteq DeliveryEvent \cup SendEvent
  /\ timeout_queue \subseteq ResumeEvent \cup TimerEvent
  /\ running \in {Idle} \cup DeliveryEvent \cup SendEvent \cup ResumeEvent \cup TimerEvent
                    \cup Resuming
  /\ accumulated_delay_micros \in [Meter -> Nat]
  /\ client_is_busy \in [Meter -> BOOLEAN]
  /\ busy_until_time \in [Meter -> Nat]
  /\ next_id \in Nat
  /\ sent \in Nat

\* Time goes on, and never past an event.
OnTime == \A e \in event_queue \cup timeout_queue : simulation_time <= e.fire_time

\* run_simulation is in a call of a MeterClient while that handles what it got.
CallOf(call, event) ==
  \/ call = Nobody
  \/ call \in HandlerCall /\ event.type = "deliver" /\ event.to = call.meter
  \/ call \in HandlerCall /\ event.type = "resuming" /\ event.meter = call.meter
  \/ call \in TimerCall /\ event.type = "timer" /\ event.meter = call.meter

InCall == CallOf(working, running)

\* The event of m that run_simulation has taken is the end of its delay.
Waking(m) == running.type = "resume" /\ running.meter = m

\* The events in the timeout queue that will wake m.
Alarms(m) ==
  {e \in timeout_queue : e.type = "resume" /\ e.meter = m /\ ~ e.cancelled}

\* A busy client has one event that will wake it, unless that was just taken.
OneAlarm(m) ==
  /\ client_is_busy[m] => simulation_time <= busy_until_time[m]
  /\ Waking(m) => client_is_busy[m] /\ busy_until_time[m] = simulation_time
  /\ Alarms(m) = IF client_is_busy[m] /\ ~ Waking(m) THEN {Resume(busy_until_time[m], m)} ELSE {}

\* What m sent while it was busy leaves before it wakes.
SendsInTime ==
  \A e \in event_queue : e.type = "send" =>
    client_is_busy[e.from] /\ e.fire_time <= busy_until_time[e.from] /\ ~ Waking(e.from)

WakeInv ==
  /\ Types /\ OnTime /\ InCall
  /\ \A m \in Meter : OneAlarm(m)
  /\ SendsInTime

\* The queue of a client is empty when it is free and does not resume.  It holds
\* what has arrived but for the message that came last, while that is handled.
QueueOf(m) ==
  /\ ~ client_is_busy[m] /\ running # [type |-> "resuming", meter |-> m]
       => incoming_message_queue[m] = <<>>
  /\ IF running.type = "deliver" /\ working # Nobody /\ working.meter = m
     THEN incoming_message_queue[m] = <<>> /\ arrived[m] = <<working.message>>
     ELSE incoming_message_queue[m] = arrived[m]
  /\ running.type = "resuming" /\ working # Nobody /\ working.meter = m
       => arrived[m] # <<>> /\ working.message = Head(arrived[m])

OrderInv ==
  /\ incoming_message_queue \in [Meter -> Seq(Nat)]
  /\ arrived \in [Meter -> Seq(Nat)]
  /\ \A m \in Meter : QueueOf(m)

\* Timers that have neither been taken nor cancelled.
LiveTimers == {e \in timeout_queue : e.type = "timer" /\ ~ e.cancelled}

\* Every timer is in one place: it will be taken, it was taken and runs, it has
\* run, or it was cancelled before it ran.
TimerInv ==
  /\ ran \subseteq 0..(next_id - 1)
  /\ \A e \in LiveTimers : e.id \in 0..(next_id - 1) /\ e.id \notin ran
  /\ \A e, f \in LiveTimers : e.id = f.id => e = f
  /\ running.type = "timer" =>
       /\ running.id \in 0..(next_id - 1) /\ ~ running.cancelled
       /\ \A e \in LiveTimers : e.id # running.id
       /\ running.id \in ran <=> working # Nobody
  /\ revoked \subseteq 0..(next_id - 1)
  /\ \A id \in 0..(next_id - 1) :
       \/ id \in ran \cup revoked
       \/ \E e \in LiveTimers : e.id = id
       \/ running.type = "timer" /\ running.id = id

----------------------------------------------------------------------------
(* The earliest event. *)

\* Of events there is always an earliest one, although there may be any number.
LEMMA EarliestExists ==
  ASSUME NEW queue, queue # {}, \A e \in queue : e.fire_time \in Nat
  PROVE  \E e \in queue : \A other \in queue : e.fire_time <= other.fire_time
  <1> DEFINE times == {e.fire_time : e \in queue}
             before == OpToRel(<, Nat)
  <1>1. IsWellFoundedOn(before, Nat)
    BY NatLessThanWellFounded
  <1>2. times \subseteq Nat /\ times # {}
    OBVIOUS
  <1>3. \A x, y \in Nat : <<y, x>> \in before <=> y < x
    BY DEF OpToRel
  <1> HIDE DEF before
  <1>4. PICK first \in times : \A time \in times : <<time, first>> \notin before
    BY <1>1, <1>2, WFMin
  <1>5. ASSUME NEW time \in times
        PROVE  first <= time
    <2>1. first \in Nat /\ time \in Nat
      BY <1>2
    <2>2. ~ (time < first)
      BY <1>3, <1>4, <2>1
    <2> QED BY <2>1, <2>2
  <1> QED BY <1>4, <1>5

----------------------------------------------------------------------------
(* Delays. *)

\* The events that cancel_timer and delay_client cancel stay in the queue, at
\* their time; those that are not cancelled are the others.
LEMMA CancelKeeps ==
  ASSUME Types, OnTime, NEW events \in SUBSET timeout_queue
  PROVE  /\ Cancel(events) \subseteq ResumeEvent \cup TimerEvent
         /\ \A c \in Cancel(events) : simulation_time <= c.fire_time
         /\ \A c : c \in Cancel(events) /\ ~ c.cancelled
                     <=> c \in timeout_queue \ events /\ ~ c.cancelled
  <1>1. ASSUME NEW e \in timeout_queue
        PROVE  LET c == [e EXCEPT !.cancelled = TRUE]
               IN /\ c \in ResumeEvent \cup TimerEvent
                  /\ c.fire_time = e.fire_time /\ c.cancelled = TRUE
    <2>1. CASE e \in ResumeEvent
      BY <2>1 DEF ResumeEvent
    <2>2. CASE e \in TimerEvent
      BY <2>2 DEF TimerEvent
    <2> QED BY <2>1, <2>2 DEF Types
  <1>2. \A e \in timeout_queue : simulation_time <= e.fire_time
    BY DEF OnTime
  <1>3. ASSUME NEW c
        PROVE  c \in Cancel(events) <=>
                 \/ c \in timeout_queue \ events
                 \/ \E e \in events : c = [e EXCEPT !.cancelled = TRUE]
    BY DEF Cancel
  <1>4. ASSUME NEW c \in Cancel(events)
        PROVE  c \in ResumeEvent \cup TimerEvent /\ simulation_time <= c.fire_time
    <2>1. CASE c \in timeout_queue
      BY <1>2, <2>1 DEF Types
    <2>2. CASE \E e \in events : c = [e EXCEPT !.cancelled = TRUE]
      BY <1>1, <1>2, <2>2
    <2> QED BY <1>3, <2>1, <2>2
  <1>5. ASSUME NEW c
        PROVE  c \in Cancel(events) /\ ~ c.cancelled
                 <=> c \in timeout_queue \ events /\ ~ c.cancelled
    <2>1. (\E e \in events : c = [e EXCEPT !.cancelled = TRUE]) => c.cancelled
      BY <1>1
    <2> QED BY <1>3, <2>1
  <1> QED BY <1>4, <1>5

\* A delay of more than a millisecond moves the end of the client's delay.
LEMMA DelayMoves ==
  ASSUME Types, NEW m \in Meter, NEW micros \in Nat, delay_client(m, micros)
  PROVE  /\ accumulated_delay_micros' \in [Meter -> Nat]
         /\ \/ UNCHANGED <<client_is_busy, busy_until_time, timeout_queue>>
            \/ \E until \in Nat :
                 /\ DelayedFrom(m) <= until
                 /\ client_is_busy' = [client_is_busy EXCEPT ![m] = TRUE]
                 /\ busy_until_time' = [busy_until_time EXCEPT ![m] = until]
                 /\ timeout_queue' = Cancel(busy_done_event(m)) \cup {Resume(until, m)}
  <1> DEFINE total == accumulated_delay_micros[m] + micros
             until == DelayedFrom(m) + total \div 1000
  <1>1. total \in Nat /\ DelayedFrom(m) \in Nat
    BY DEF Types, DelayedFrom
  <1>2. total % 1000 \in Nat /\ total \div 1000 \in Nat
    BY <1>1
  <1>3. until \in Nat /\ DelayedFrom(m) <= until
    BY <1>1, <1>2
  <1>4. CASE total > 1000
    <2>1. /\ accumulated_delay_micros' = [accumulated_delay_micros EXCEPT ![m] = total % 1000]
          /\ client_is_busy' = [client_is_busy EXCEPT ![m] = TRUE]
          /\ busy_until_time' = [busy_until_time EXCEPT ![m] = until]
          /\ timeout_queue' = Cancel(busy_done_event(m)) \cup {Resume(until, m)}
      BY <1>4 DEF delay_client
    <2>2. accumulated_delay_micros' \in [Meter -> Nat]
      BY <1>2, <2>1 DEF Types
    <2>3. \E end \in Nat :
            /\ DelayedFrom(m) <= end
            /\ client_is_busy' = [client_is_busy EXCEPT ![m] = TRUE]
            /\ busy_until_time' = [busy_until_time EXCEPT ![m] = end]
            /\ timeout_queue' = Cancel(busy_done_event(m)) \cup {Resume(end, m)}
      <3> HIDE DEF until
      <3> QED BY <1>3, <2>1
    <2> QED BY <2>2, <2>3
  <1>5. CASE ~ (total > 1000)
    <2>1. /\ accumulated_delay_micros' = [accumulated_delay_micros EXCEPT ![m] = total]
          /\ UNCHANGED <<client_is_busy, busy_until_time, timeout_queue>>
      BY <1>5 DEF delay_client
    <2>2. accumulated_delay_micros' \in [Meter -> Nat]
      BY <1>1, <2>1 DEF Types
    <2> QED BY <2>1, <2>2
  <1> QED BY <1>4, <1>5

\* What delays leave: one event for each busy client, which ends no earlier than
\* before.
Delayed ==
  /\ accumulated_delay_micros' \in [Meter -> Nat]
  /\ client_is_busy' \in [Meter -> BOOLEAN]
  /\ busy_until_time' \in [Meter -> Nat]
  /\ timeout_queue' \subseteq ResumeEvent \cup TimerEvent
  /\ \A e \in timeout_queue' : simulation_time <= e.fire_time
  /\ \A m \in Meter : OneAlarm(m)'
  /\ \A m \in Meter : client_is_busy[m]
       => client_is_busy'[m] /\ busy_until_time[m] <= busy_until_time'[m]

\* Nothing but delays changes the events that wake clients, as long as none of
\* them has been taken.
LEMMA OthersDelayNobody ==
  ASSUME WakeInv, running.type # "resume", running'.type # "resume",
         UNCHANGED <<simulation_time, client_is_busy, busy_until_time>>,
         accumulated_delay_micros' \in [Meter -> Nat],
         timeout_queue' \subseteq ResumeEvent \cup TimerEvent,
         \A e \in timeout_queue' : simulation_time <= e.fire_time,
         \A m \in Meter : Alarms(m)' = Alarms(m)
  PROVE  Delayed
  <1>1. \A m \in Meter : ~ Waking(m) /\ ~ Waking(m)'
    BY DEF Waking
  <1>2. ASSUME NEW m \in Meter
        PROVE  OneAlarm(m)'
    BY <1>1 DEF WakeInv, OneAlarm
  <1>3. \A m \in Meter : busy_until_time[m] <= busy_until_time[m]
    BY DEF WakeInv, Types
  <1> QED BY <1>2, <1>3 DEF WakeInv, Types, Delayed

\* The same for steps that do not touch the timeouts either.
LEMMA SameTimeouts ==
  ASSUME WakeInv, running.type # "resume", running'.type # "resume",
         UNCHANGED <<simulation_time, client_is_busy, busy_until_time, timeout_queue>>,
         accumulated_delay_micros' \in [Meter -> Nat]
  PROVE  Delayed /\ LiveTimers' = LiveTimers
  <1>1. \A e \in timeout_queue' : simulation_time <= e.fire_time
    BY DEF WakeInv, OnTime
  <1>2. timeout_queue' \subseteq ResumeEvent \cup TimerEvent
    BY DEF WakeInv, Types
  <1>3. \A m \in Meter : Alarms(m)' = Alarms(m)
    BY DEF Alarms
  <1>4. LiveTimers' = LiveTimers
    BY DEF LiveTimers
  <1> QED BY <1>1, <1>2, <1>3, <1>4, OthersDelayNobody

\* However often a delay is extended, one event is left to end it.
LEMMA DelayKeeps ==
  ASSUME WakeInv, NEW m \in Meter, NEW micros \in Nat, delay_client(m, micros),
         running.type # "resume", running'.type # "resume",
         simulation_time' = simulation_time
  PROVE  Delayed /\ LiveTimers' = LiveTimers
  <1>1. Types /\ OnTime /\ \A x \in Meter : OneAlarm(x)
    BY DEF WakeInv
  <1>2. accumulated_delay_micros' \in [Meter -> Nat]
    BY <1>1, DelayMoves
  <1>3. \A x \in Meter : ~ Waking(x) /\ ~ Waking(x)'
    BY DEF Waking
  <1>4. CASE UNCHANGED <<client_is_busy, busy_until_time, timeout_queue>>
    BY <1>2, <1>4, SameTimeouts
  <1>5. ASSUME NEW until \in Nat,
               DelayedFrom(m) <= until,
               client_is_busy' = [client_is_busy EXCEPT ![m] = TRUE],
               busy_until_time' = [busy_until_time EXCEPT ![m] = until],
               timeout_queue' = Cancel(busy_done_event(m)) \cup {Resume(until, m)}
        PROVE  Delayed /\ LiveTimers' = LiveTimers
    <2> DEFINE alarm == Resume(until, m)
    <2>1. /\ alarm \in ResumeEvent /\ alarm.type = "resume" /\ alarm.fire_time = until
          /\ alarm.meter = m /\ alarm.cancelled = FALSE
      BY DEF Resume, ResumeEvent
    <2>2. busy_done_event(m) \in SUBSET timeout_queue
      BY DEF busy_done_event
    <2>3. /\ Cancel(busy_done_event(m)) \subseteq ResumeEvent \cup TimerEvent
          /\ \A c \in Cancel(busy_done_event(m)) : simulation_time <= c.fire_time
          /\ \A c : c \in Cancel(busy_done_event(m)) /\ ~ c.cancelled
                      <=> c \in timeout_queue \ busy_done_event(m) /\ ~ c.cancelled
      BY <1>1, <2>2, CancelKeeps
    <2>4. simulation_time <= until /\ (client_is_busy[m] => busy_until_time[m] <= until)
      <3>1. simulation_time \in Nat /\ busy_until_time[m] \in Nat
        BY <1>1 DEF Types
      <3> QED BY <1>1, <1>5, <3>1 DEF DelayedFrom, OneAlarm
    <2>5. busy_done_event(m) = Alarms(m)
      <3>1. Alarms(m) = IF client_is_busy[m] THEN {Resume(busy_until_time[m], m)} ELSE {}
        BY <1>1, <1>3 DEF OneAlarm
      <3>2. Alarms(m) \subseteq timeout_queue
        BY DEF Alarms
      <3> QED BY <3>1, <3>2 DEF busy_done_event
    <2>6. \A c : c \in timeout_queue' /\ ~ c.cancelled
                   <=> \/ c \in timeout_queue \ Alarms(m) /\ ~ c.cancelled
                       \/ c = alarm
      BY <1>5, <2>1, <2>3, <2>5
    <2> HIDE DEF alarm
    <2>7. /\ client_is_busy' \in [Meter -> BOOLEAN] /\ client_is_busy'[m]
          /\ busy_until_time' \in [Meter -> Nat] /\ busy_until_time'[m] = until
          /\ \A x \in Meter \ {m} : /\ client_is_busy'[x] = client_is_busy[x]
                                    /\ busy_until_time'[x] = busy_until_time[x]
      BY <1>1, <1>5 DEF Types
    <2>8. ASSUME NEW x \in Meter
          PROVE  OneAlarm(x)'
      <3>1. CASE x = m
        <4>1. Alarms(m)' = {alarm}
          BY <2>1, <2>6 DEF Alarms
        <4> QED BY <1>3, <2>4, <2>7, <3>1, <4>1 DEF OneAlarm, alarm
      <3>2. CASE x # m
        <4>1. Alarms(x)' = Alarms(x)
          BY <2>1, <2>6, <3>2 DEF Alarms
        <4> QED BY <1>1, <1>3, <2>7, <3>2, <4>1 DEF OneAlarm
      <3> QED BY <3>1, <3>2
    <2>9. LiveTimers' = LiveTimers
      BY <2>1, <2>6 DEF LiveTimers, Alarms
    <2>10. \A x \in Meter : client_is_busy[x]
             => client_is_busy'[x] /\ busy_until_time[x] <= busy_until_time'[x]
      BY <1>1, <2>4, <2>7 DEF Types
    <2>11. timeout_queue' \subseteq ResumeEvent \cup TimerEvent
      BY <1>5, <2>1, <2>3 DEF alarm
    <2>12. \A e \in timeout_queue' : simulation_time <= e.fire_time
      BY <1>5, <2>1, <2>3, <2>4 DEF alarm
    <2> QED BY <1>2, <2>7, <2>8, <2>9, <2>10, <2>11, <2>12 DEF Delayed
  <1> QED BY <1>1, <1>4, <1>5, DelayMoves

\* What is sent is delivered later, or costs the sender a delay.
LEMMA SendDelivers ==
  ASSUME WakeInv, NEW from \in Meter, NEW to \in Meter, NEW messages \in Seq(Nat),
         network_send(from, to, messages),
         running.type # "resume", running'.type # "resume",
         simulation_time' = simulation_time
  PROVE  /\ Delayed /\ LiveTimers' = LiveTimers
         /\ \A e \in event_queue' \ event_queue :
              e \in DeliveryEvent /\ simulation_time <= e.fire_time
  <1>1. Latency \subseteq Nat /\ simulation_time \in Nat
    BY SimAssumption DEF WakeInv, Types
  <1>2. CASE /\ \E latency \in Latency :
                  event_queue' = event_queue \cup
                    {Delivery(simulation_time + latency, to, messages)}
             /\ UNCHANGED <<timeout_queue, client>>
    <2>1. Delayed /\ LiveTimers' = LiveTimers
      BY <1>2, SameTimeouts DEF WakeInv, Types, client
    <2>2. ASSUME NEW latency \in Latency
          PROVE  LET d == Delivery(simulation_time + latency, to, messages)
                 IN d \in DeliveryEvent /\ simulation_time <= d.fire_time
      BY <1>1 DEF Delivery, DeliveryEvent
    <2> QED BY <1>2, <2>1, <2>2
  <1>3. CASE /\ \E there, back \in Latency : delay_client(from, (there + back) * 1000)
             /\ UNCHANGED event_queue
    <2>1. \A there, back \in Latency : (there + back) * 1000 \in Nat
      BY <1>1
    <2> QED BY <1>3, <2>1, DelayKeeps
  <1> QED BY <1>2, <1>3 DEF network_send

----------------------------------------------------------------------------
(* What every step keeps of the events and of the delays. *)

\* Who is in a call, and in which event.
LEMMA CallHasEvent ==
  ASSUME WakeInv, NEW m \in Meter, working.meter = m
  PROVE  /\ working # Nobody /\ running.type # "resume"
         /\ \/ working \in HandlerCall /\ running \in DeliveryEvent /\ running.to = m
            \/ working \in HandlerCall /\ running \in Resuming /\ running.meter = m
            \/ working \in TimerCall /\ running \in TimerEvent /\ running.meter = m
  <1>1. m \in Nat
    BY SimAssumption
  <1>2. working # Nobody
    BY <1>1 DEF Nobody, None
  <1>3. CallOf(working, running)
    BY DEF WakeInv, InCall
  <1>4. running \in {Idle} \cup DeliveryEvent \cup SendEvent \cup ResumeEvent \cup TimerEvent
                    \cup Resuming
    BY DEF WakeInv, Types
  <1> QED BY <1>2, <1>3, <1>4
        DEF CallOf, Idle, DeliveryEvent, SendEvent, ResumeEvent, TimerEvent, Resuming

\* A step at which time stands still keeps the invariant if it keeps the delays
\* and what it sends leaves in time.
LEMMA StepWakes ==
  ASSUME WakeInv, Delayed, simulation_time' = simulation_time,
         running'.type # "resume",
         \A e \in event_queue' \ event_queue :
           /\ e \in DeliveryEvent \cup SendEvent /\ simulation_time <= e.fire_time
           /\ e.type = "send" => client_is_busy'[e.from] /\ e.fire_time <= busy_until_time'[e.from],
         running' \in {Idle} \cup DeliveryEvent \cup SendEvent \cup ResumeEvent \cup TimerEvent
                      \cup Resuming,
         next_id' \in Nat, sent' \in Nat,
         InCall'
  PROVE  WakeInv'
  <1>1. Types'
    BY DEF WakeInv, Types, Delayed
  <1>2. OnTime'
    BY DEF WakeInv, OnTime, Delayed
  <1>3. \A m \in Meter : OneAlarm(m)'
    BY DEF Delayed
  <1>4. ASSUME NEW e \in event_queue', e.type = "send"
        PROVE  /\ client_is_busy'[e.from] /\ e.fire_time <= busy_until_time'[e.from]
               /\ ~ Waking(e.from)'
    <2>1. CASE e \in event_queue
      <3>1. e.from \in Meter /\ e.fire_time \in Nat
        BY <1>4, <2>1 DEF WakeInv, Types, DeliveryEvent, SendEvent
      <3>2. client_is_busy[e.from] /\ e.fire_time <= busy_until_time[e.from]
        BY <1>4, <2>1 DEF WakeInv, SendsInTime
      <3>3. client_is_busy'[e.from] /\ busy_until_time[e.from] <= busy_until_time'[e.from]
        BY <3>1, <3>2 DEF Delayed
      <3>4. busy_until_time[e.from] \in Nat /\ busy_until_time'[e.from] \in Nat
        BY <3>1 DEF WakeInv, Types, Delayed
      <3> QED BY <3>1, <3>2, <3>3, <3>4 DEF Waking
    <2>2. CASE e \notin event_queue
      BY <1>4, <2>2 DEF Waking
    <2> QED BY <2>1, <2>2
  <1>5. SendsInTime'
    BY <1>4 DEF SendsInTime
  <1> QED BY <1>1, <1>2, <1>3, <1>5 DEF WakeInv

----------------------------------------------------------------------------
(* The calls of a MeterClient. *)

\* A computation delays the client.
LEMMA ComputeWakes ==
  ASSUME WakeInv, NEW m \in Meter, working.meter = m, Compute(m)
  PROVE  WakeInv' /\ Delayed /\ LiveTimers' = LiveTimers
  <1>1. /\ UNCHANGED <<simulation_time, event_queue, running, working, next_id, sent>>
        /\ \E micros \in Computations : delay_client(m, micros)
    BY DEF Compute
  <1>2. running.type # "resume"
    BY CallHasEvent
  <1>3. Delayed /\ LiveTimers' = LiveTimers
    BY <1>1, <1>2, SimAssumption, DelayKeeps
  <1>4. InCall'
    BY <1>1 DEF WakeInv, InCall
  <1> QED BY <1>1, <1>2, <1>3, <1>4, StepWakes DEF WakeInv, Types

\* What a busy client sends leaves when it wakes.
LEMMA SendWakes ==
  ASSUME WakeInv, NEW m \in Meter, working.meter = m, Send(m)
  PROVE  WakeInv' /\ Delayed /\ LiveTimers' = LiveTimers
  <1>1. UNCHANGED <<simulation_time, running, working, next_id>>
    BY DEF Send
  <1>2. running.type # "resume"
    BY CallHasEvent
  <1>3. InCall'
    BY <1>1 DEF WakeInv, InCall
  <1>4. PICK count \in {1, 2}, to \in Meter \ {m} :
          LET messages == [i \in 1..count |-> Cardinality(Meter) + sent + i]
          IN /\ sent' = sent + count
             /\ \/ network_send(m, to, messages)
                \/ /\ client_is_busy[m]
                   /\ event_queue' =
                        event_queue \cup {DelayedSend(busy_until_time[m], m, to, messages)}
                   /\ UNCHANGED <<timeout_queue, client>>
    BY DEF Send
  <1> DEFINE messages == [i \in 1..count |-> Cardinality(Meter) + sent + i]
  <1>5. count \in Nat /\ sent \in Nat /\ Cardinality(Meter) \in Nat
    BY SimAssumption, FS_CardinalityType DEF WakeInv, Types
  <1>6. messages \in Seq(Nat)
    BY <1>5
  <1>7. sent' \in Nat
    BY <1>4, <1>5
  <1> HIDE DEF messages
  <1>8. CASE network_send(m, to, messages)
    <2>1. /\ Delayed /\ LiveTimers' = LiveTimers
          /\ \A e \in event_queue' \ event_queue :
               e \in DeliveryEvent /\ simulation_time <= e.fire_time
      BY <1>1, <1>2, <1>6, <1>8, SendDelivers
    <2>2. \A e \in event_queue' \ event_queue : e.type # "send"
      BY <2>1 DEF DeliveryEvent
    <2> QED BY <1>1, <1>2, <1>3, <1>7, <2>1, <2>2, StepWakes DEF WakeInv, Types
  <1>9. CASE /\ client_is_busy[m]
             /\ event_queue' =
                  event_queue \cup {DelayedSend(busy_until_time[m], m, to, messages)}
             /\ UNCHANGED <<timeout_queue, client>>
    <2> DEFINE send == DelayedSend(busy_until_time[m], m, to, messages)
    <2>1. Delayed /\ LiveTimers' = LiveTimers
      BY <1>1, <1>2, <1>9, SameTimeouts DEF WakeInv, Types, client
    <2>2. busy_until_time[m] \in Nat /\ simulation_time <= busy_until_time[m]
      BY <1>9 DEF WakeInv, Types, OneAlarm
    <2>3. /\ send \in SendEvent /\ send.fire_time = busy_until_time[m] /\ send.from = m
      BY <1>6, <2>2 DEF DelayedSend, SendEvent
    <2>4. client_is_busy'[m] /\ busy_until_time'[m] = busy_until_time[m]
      BY <1>9 DEF client
    <2>5. \A e \in event_queue' \ event_queue : e = send
      BY <1>9
    <2> HIDE DEF send
    <2>6. \A e \in event_queue' \ event_queue :
            /\ e \in SendEvent /\ simulation_time <= e.fire_time
            /\ client_is_busy'[e.from] /\ e.fire_time <= busy_until_time'[e.from]
      BY <2>2, <2>3, <2>4, <2>5
    <2> QED BY <1>1, <1>2, <1>3, <1>7, <2>1, <2>6, StepWakes DEF WakeInv, Types
  <1> QED BY <1>4, <1>8, <1>9 DEF messages

\* A new timer has a number of its own, and a time that is not past.
LEMMA RegisterWakes ==
  ASSUME WakeInv, NEW m \in Meter, working.meter = m, register_timer(m)
  PROVE  /\ WakeInv' /\ next_id' = next_id + 1
         /\ \E e : e.id = next_id /\ LiveTimers' = LiveTimers \cup {e}
  <1>1. UNCHANGED <<simulation_time, event_queue, running, working, sent, client>>
    BY DEF register_timer
  <1>2. running.type # "resume"
    BY CallHasEvent
  <1>3. InCall'
    BY <1>1 DEF WakeInv, InCall
  <1>4. PICK delay \in TimerDelays :
          timeout_queue' = timeout_queue \cup {Timer(simulation_time + delay, m, next_id)}
    BY DEF register_timer
  <1>5. /\ delay \in Nat /\ simulation_time \in Nat
        /\ next_id \in Nat /\ next_id' = next_id + 1 /\ next_id' \in Nat
    BY SimAssumption DEF register_timer, WakeInv, Types
  <1> DEFINE timer == Timer(simulation_time + delay, m, next_id)
  <1>6. /\ timer \in TimerEvent /\ simulation_time <= timer.fire_time
        /\ timer.type = "timer" /\ timer.id = next_id /\ timer.cancelled = FALSE
    BY <1>5 DEF Timer, TimerEvent
  <1> HIDE DEF timer
  <1>7. timeout_queue' = timeout_queue \cup {timer}
    BY <1>4 DEF timer
  <1>8. \A e \in timeout_queue' : simulation_time <= e.fire_time
    BY <1>6, <1>7 DEF WakeInv, OnTime
  <1>9. timeout_queue' \subseteq ResumeEvent \cup TimerEvent
    BY <1>6, <1>7 DEF WakeInv, Types
  <1>10. \A x \in Meter : Alarms(x)' = Alarms(x)
    BY <1>6, <1>7 DEF Alarms
  <1>11. LiveTimers' = LiveTimers \cup {timer}
    BY <1>6, <1>7 DEF LiveTimers
  <1>12. Delayed
    BY <1>1, <1>2, <1>8, <1>9, <1>10, OthersDelayNobody DEF WakeInv, Types, client
  <1>13. WakeInv'
    BY <1>1, <1>2, <1>3, <1>5, <1>12, StepWakes DEF WakeInv, Types
  <1> QED BY <1>5, <1>6, <1>11, <1>13

\* A timer that is cancelled stays in the queue.
LEMMA CancelWakes ==
  ASSUME WakeInv, NEW m \in Meter, working.meter = m, cancel_timer(m)
  PROVE  /\ WakeInv'
         /\ \E e \in LiveTimers :
              LiveTimers' = LiveTimers \ {e} /\ revoked' = revoked \cup {e.id}
  <1>1. UNCHANGED <<simulation_time, event_queue, running, working, next_id, sent, client>>
    BY DEF cancel_timer, bounds
  <1>2. running.type # "resume"
    BY CallHasEvent
  <1>3. InCall'
    BY <1>1 DEF WakeInv, InCall
  <1>4. PICK e \in timeout_queue :
          /\ e.type = "timer" /\ ~ e.cancelled
          /\ timeout_queue' = Cancel({e})
          /\ revoked' = revoked \cup {e.id}
    BY DEF cancel_timer
  <1>5. /\ timeout_queue' \subseteq ResumeEvent \cup TimerEvent
        /\ \A c \in timeout_queue' : simulation_time <= c.fire_time
        /\ \A c : c \in timeout_queue' /\ ~ c.cancelled
                    <=> c \in timeout_queue \ {e} /\ ~ c.cancelled
    <2>1. {e} \in SUBSET timeout_queue
      OBVIOUS
    <2> QED BY <1>4, <2>1, CancelKeeps DEF WakeInv
  <1>6. \A x \in Meter : Alarms(x)' = Alarms(x)
    BY <1>4, <1>5 DEF Alarms
  <1>7. LiveTimers' = LiveTimers \ {e} /\ e \in LiveTimers
    BY <1>4, <1>5 DEF LiveTimers
  <1>8. Delayed
    BY <1>1, <1>2, <1>5, <1>6, OthersDelayNobody DEF WakeInv, Types, client
  <1>9. WakeInv'
    BY <1>1, <1>2, <1>3, <1>8, StepWakes DEF WakeInv, Types
  <1> QED BY <1>4, <1>7, <1>9

\* A handler returns.
LEMMA ReturnWakes ==
  ASSUME WakeInv, NEW m \in Meter, working.meter = m, Return(m)
  PROVE  WakeInv' /\ LiveTimers' = LiveTimers
  <1>1. UNCHANGED <<simulation_time, event_queue, timeout_queue, client, next_id, sent>>
    BY DEF Return, queues, bounds
  <1>2. running' \in {Idle, running} /\ working' = Nobody
    BY DEF Return
  <1>3. running.type # "resume"
    BY CallHasEvent
  <1>4. running'.type # "resume"
    BY <1>2, <1>3 DEF Idle
  <1>5. Delayed /\ LiveTimers' = LiveTimers
    BY <1>1, <1>3, <1>4, SameTimeouts DEF WakeInv, Types, client
  <1>6. InCall'
    BY <1>2 DEF InCall, CallOf
  <1> QED BY <1>1, <1>2, <1>4, <1>5, <1>6, StepWakes DEF WakeInv, Types

----------------------------------------------------------------------------
(* Events. *)

\* What run_simulation filters out was cancelled.
LEMMA LiveStay ==
  /\ Timeouts \subseteq timeout_queue
  /\ \A e \in timeout_queue : ~ e.cancelled => e \in Timeouts
  BY DEF Timeouts, garbage_collect_timeouts

\* The event that run_simulation takes is the earliest one of both queues; of a
\* timeout and an event of the same time it takes the event.
LEMMA TakesEarliest ==
  ASSUME WakeInv, run_simulation
  PROVE  \/ \E e \in event_queue :
              /\ simulation_time' = e.fire_time /\ running' = e
              /\ event_queue' = event_queue \ {e} /\ timeout_queue' = Timeouts
              /\ \A other \in event_queue \cup Timeouts : e.fire_time <= other.fire_time
         \/ \E e \in Timeouts :
              /\ simulation_time' = e.fire_time
              /\ running' = IF e.cancelled THEN Idle ELSE e
              /\ event_queue' = event_queue /\ timeout_queue' = Timeouts \ {e}
              /\ \A other \in Timeouts : e.fire_time <= other.fire_time
              /\ \A other \in event_queue : e.fire_time < other.fire_time
  <1>1. /\ event_queue \subseteq DeliveryEvent \cup SendEvent
        /\ timeout_queue \subseteq ResumeEvent \cup TimerEvent
        /\ Timeouts \subseteq timeout_queue
    BY LiveStay DEF WakeInv, Types
  <1>2. event_queue \cap timeout_queue = {}
    BY <1>1 DEF DeliveryEvent, SendEvent, ResumeEvent, TimerEvent
  <1>3. \A e \in event_queue \cup Timeouts : e.fire_time \in Nat
    BY <1>1 DEF DeliveryEvent, SendEvent, ResumeEvent, TimerEvent
  <1>4. CASE TimeoutFirst(Timeouts)
    <2>1. PICK t \in Earliest(Timeouts) : \A e \in event_queue : t.fire_time < e.fire_time
      BY <1>4 DEF TimeoutFirst
    <2>2. PICK e \in Earliest(Timeouts) :
            /\ simulation_time' = e.fire_time
            /\ timeout_queue' = Timeouts \ {e}
            /\ event_queue' = event_queue \ {e}
            /\ running' = IF IsCancelled(e) THEN Idle ELSE e
      BY <1>4 DEF run_simulation
    <2>3. /\ e \in Timeouts /\ t \in Timeouts /\ e.fire_time <= t.fire_time
          /\ \A other \in Timeouts : e.fire_time <= other.fire_time
      BY <2>1, <2>2 DEF Earliest
    <2>4. \A other \in event_queue : e.fire_time < other.fire_time
      BY <1>3, <2>1, <2>3
    <2>5. event_queue' = event_queue
      BY <1>1, <1>2, <2>2, <2>3
    <2>6. running' = IF e.cancelled THEN Idle ELSE e
      BY <1>1, <2>2, <2>3 DEF IsCancelled
    <2> QED BY <2>2, <2>3, <2>4, <2>5, <2>6
  <1>5. CASE ~ TimeoutFirst(Timeouts)
    <2>1. PICK e \in Earliest(event_queue) :
            /\ simulation_time' = e.fire_time
            /\ timeout_queue' = Timeouts \ {e}
            /\ event_queue' = event_queue \ {e}
            /\ running' = IF IsCancelled(e) THEN Idle ELSE e
      BY <1>5 DEF run_simulation
    <2>2. e \in event_queue /\ \A other \in event_queue : e.fire_time <= other.fire_time
      BY <2>1 DEF Earliest
    <2>3. timeout_queue' = Timeouts /\ running' = e
      BY <1>1, <1>2, <2>1, <2>2 DEF IsCancelled
    <2>4. ASSUME NEW other \in Timeouts
          PROVE  e.fire_time <= other.fire_time
      <3>1. PICK t \in Timeouts : \A s \in Timeouts : t.fire_time <= s.fire_time
        BY <1>3, EarliestExists
      <3>2. PICK s \in event_queue : ~ (t.fire_time < s.fire_time)
        BY <1>5, <3>1 DEF TimeoutFirst, Earliest
      <3> QED BY <1>3, <2>2, <3>1, <3>2
    <2> QED BY <2>1, <2>2, <2>3, <2>4
  <1> QED BY <1>4, <1>5

\* Taking an event of the queue passes no alarm.
LEMMA EventWakes ==
  ASSUME WakeInv, running = Idle, working = Nobody, NEW e \in event_queue,
         UNCHANGED <<client, working, next_id, sent>>,
         simulation_time' = e.fire_time, running' = e,
         event_queue' = event_queue \ {e}, timeout_queue' = Timeouts,
         \A other \in event_queue \cup Timeouts : e.fire_time <= other.fire_time
  PROVE  WakeInv' /\ LiveTimers' = LiveTimers
  <1>1. Types /\ \A m \in Meter : OneAlarm(m)
    BY DEF WakeInv
  <1>2. e \in DeliveryEvent \cup SendEvent
    BY <1>1 DEF Types
  <1>3. e.fire_time \in Nat /\ e.type # "resume"
    BY <1>2 DEF DeliveryEvent, SendEvent
  <1>4. \A m \in Meter : ~ Waking(m) /\ ~ Waking(m)'
    BY <1>3 DEF Waking, Idle
  <1>5. Types'
    BY <1>1, <1>2, <1>3, LiveStay DEF Types, client
  <1>6. OnTime'
    BY DEF OnTime
  <1>7. InCall'
    BY DEF InCall, CallOf
  <1>8. ASSUME NEW m \in Meter
        PROVE  OneAlarm(m)'
    <2>1. Alarms(m)' = Alarms(m)
      BY LiveStay DEF Alarms
    <2>2. client_is_busy[m] => e.fire_time <= busy_until_time[m]
      <3>1. CASE client_is_busy[m]
        <4>1. Resume(busy_until_time[m], m) \in Alarms(m)
          BY <1>1, <1>4, <3>1 DEF OneAlarm
        <4>2. Resume(busy_until_time[m], m) \in Timeouts
          BY <4>1, LiveStay DEF Alarms
        <4> QED BY <4>2 DEF Resume
      <3> QED BY <3>1
    <2> QED BY <1>1, <1>4, <2>1, <2>2 DEF OneAlarm, client
  <1>9. SendsInTime'
    BY <1>3 DEF WakeInv, SendsInTime, Waking, client
  <1>10. LiveTimers' = LiveTimers
    BY LiveStay DEF LiveTimers
  <1> QED BY <1>5, <1>6, <1>7, <1>8, <1>9, <1>10 DEF WakeInv

\* Taking a timeout passes no alarm, and when it is an alarm all that its client
\* sent while it was busy has left.
LEMMA TimeoutWakes ==
  ASSUME WakeInv, running = Idle, working = Nobody, NEW e \in Timeouts,
         UNCHANGED <<client, working, next_id, sent>>,
         simulation_time' = e.fire_time, running' = IF e.cancelled THEN Idle ELSE e,
         event_queue' = event_queue, timeout_queue' = Timeouts \ {e},
         \A other \in Timeouts : e.fire_time <= other.fire_time,
         \A other \in event_queue : e.fire_time < other.fire_time
  PROVE  WakeInv' /\ LiveTimers' = LiveTimers \ {e}
  <1>1. Types /\ \A m \in Meter : OneAlarm(m)
    BY DEF WakeInv
  <1>2. e \in ResumeEvent \cup TimerEvent /\ e \in timeout_queue
    BY <1>1, LiveStay DEF Types
  <1>3. e.fire_time \in Nat /\ e.cancelled \in BOOLEAN
    BY <1>2 DEF ResumeEvent, TimerEvent
  <1>4. \A m \in Meter : ~ Waking(m)
    BY DEF Waking, Idle
  <1>5. Types'
    BY <1>1, <1>2, <1>3, LiveStay DEF Types, client
  <1>6. OnTime'
    <2>1. \A other \in event_queue : other.fire_time \in Nat
      BY <1>1 DEF Types, DeliveryEvent, SendEvent
    <2> QED BY <1>3, <2>1 DEF OnTime
  <1>7. InCall'
    BY DEF InCall, CallOf
  <1>8. ASSUME NEW m \in Meter, client_is_busy[m]
        PROVE  e.fire_time <= busy_until_time[m]
    <2>1. Resume(busy_until_time[m], m) \in Alarms(m)
      BY <1>1, <1>4, <1>8 DEF OneAlarm
    <2>2. Resume(busy_until_time[m], m) \in Timeouts
      BY <2>1, LiveStay DEF Alarms
    <2> QED BY <2>2 DEF Resume
  <1>9. ASSUME NEW m \in Meter, Waking(m)'
        PROVE  /\ client_is_busy[m] /\ e.fire_time = busy_until_time[m]
               /\ Alarms(m) = {e}
    <2>1. ~ e.cancelled /\ e.type = "resume" /\ e.meter = m
      BY <1>9 DEF Waking, Idle
    <2>2. e \in Alarms(m)
      BY <1>2, <2>1 DEF Alarms
    <2>3. client_is_busy[m] /\ Alarms(m) = {Resume(busy_until_time[m], m)}
      BY <1>1, <1>4, <2>2 DEF OneAlarm
    <2>4. e = Resume(busy_until_time[m], m)
      BY <2>2, <2>3
    <2>5. e.fire_time = busy_until_time[m]
      BY <2>4 DEF Resume
    <2> QED BY <2>3, <2>4, <2>5
  <1>10. ASSUME NEW m \in Meter
         PROVE  OneAlarm(m)'
    <2>1. CASE Waking(m)'
      <3>1. Alarms(m)' = {}
        BY <1>9, <2>1, LiveStay DEF Alarms
      <3> QED BY <1>1, <1>3, <1>9, <2>1, <3>1 DEF OneAlarm, client
    <2>2. CASE ~ Waking(m)'
      <3>1. e \notin Alarms(m)
        BY <2>2 DEF Alarms, Waking
      <3>2. Alarms(m)' = Alarms(m)
        BY <3>1, LiveStay DEF Alarms
      <3> QED BY <1>1, <1>4, <1>8, <2>2, <3>2 DEF OneAlarm, client
    <2> QED BY <2>1, <2>2
  <1>11. SendsInTime'
    <2> SUFFICES ASSUME NEW s \in event_queue, s.type = "send"
                 PROVE  /\ client_is_busy[s.from] /\ s.fire_time <= busy_until_time[s.from]
                        /\ ~ Waking(s.from)'
      BY DEF SendsInTime, client
    <2>1. s.from \in Meter /\ s.fire_time \in Nat
      BY <1>1 DEF Types, DeliveryEvent, SendEvent
    <2>2. client_is_busy[s.from] /\ s.fire_time <= busy_until_time[s.from]
      BY DEF WakeInv, SendsInTime
    <2>3. e.fire_time < s.fire_time
      OBVIOUS
    <2> QED BY <1>3, <1>9, <2>1, <2>2, <2>3
  <1>12. LiveTimers' = LiveTimers \ {e}
    BY LiveStay DEF LiveTimers
  <1> QED BY <1>5, <1>6, <1>7, <1>10, <1>11, <1>12 DEF WakeInv

\* A message arrives, and is queued or handled.
LEMMA ReceiveWakes ==
  ASSUME WakeInv, working = Nobody, receive_message
  PROVE  WakeInv' /\ LiveTimers' = LiveTimers
  <1>1. /\ running.type = "deliver" /\ running.messages # <<>>
        /\ running' = [running EXCEPT !.messages = Tail(running.messages)]
        /\ UNCHANGED <<simulation_time, event_queue, timeout_queue, client_is_busy,
                       busy_until_time, next_id, sent>>
    BY DEF receive_message, queues, bounds
  <1>2. running \in DeliveryEvent
    BY <1>1 DEF WakeInv, Types, Idle, SendEvent, ResumeEvent, TimerEvent, Resuming
  <1>3. /\ running.to \in Meter /\ Head(running.messages) \in Nat
        /\ Tail(running.messages) \in Seq(Nat)
    BY <1>1, <1>2 DEF DeliveryEvent
  <1>4. /\ running' \in DeliveryEvent /\ running'.type = "deliver" /\ running'.to = running.to
    BY <1>1, <1>2, <1>3 DEF DeliveryEvent
  <1>5. accumulated_delay_micros' \in [Meter -> Nat]
    BY DEF receive_message, WakeInv, Types
  <1>6. Delayed /\ LiveTimers' = LiveTimers
    BY <1>1, <1>4, <1>5, SameTimeouts
  <1>7. InCall'
    <2>1. working' = Nobody \/ working' = Handles(running.to, Head(running.messages))
      BY DEF receive_message
    <2> QED BY <1>3, <1>4, <2>1 DEF InCall, CallOf, Handles, HandlerCall
  <1> QED BY <1>1, <1>4, <1>6, <1>7, StepWakes DEF WakeInv, Types

\* The last message of a delivery was received.
LEMMA DeliveredWakes ==
  ASSUME WakeInv, working = Nobody, Delivered
  PROVE  WakeInv' /\ LiveTimers' = LiveTimers
  <1>1. /\ running.type = "deliver" /\ running' = Idle /\ working' = Nobody
        /\ UNCHANGED <<simulation_time, event_queue, timeout_queue, client, next_id, sent>>
    BY DEF Delivered, queues, bounds
  <1>2. running'.type # "resume"
    BY <1>1 DEF Idle
  <1>3. Delayed /\ LiveTimers' = LiveTimers
    BY <1>1, <1>2, SameTimeouts DEF WakeInv, Types, client
  <1>4. InCall'
    BY <1>1 DEF InCall, CallOf
  <1> QED BY <1>1, <1>2, <1>3, <1>4, StepWakes DEF WakeInv, Types

\* A send that has waited may delay its client once more.
LEMMA SendDelayedWakes ==
  ASSUME WakeInv, working = Nobody, SendDelayed
  PROVE  WakeInv' /\ Delayed /\ LiveTimers' = LiveTimers
  <1>1. /\ running.type = "send" /\ running' = Idle /\ working' = Nobody
        /\ network_send(running.from, running.to, running.messages)
        /\ UNCHANGED <<simulation_time, next_id, sent>>
    BY DEF SendDelayed, bounds
  <1>2. running \in SendEvent
    BY <1>1 DEF WakeInv, Types, Idle, DeliveryEvent, ResumeEvent, TimerEvent, Resuming
  <1>3. running.from \in Meter /\ running.to \in Meter /\ running.messages \in Seq(Nat)
    BY <1>2 DEF SendEvent
  <1>4. running'.type # "resume"
    BY <1>1 DEF Idle
  <1>5. /\ Delayed /\ LiveTimers' = LiveTimers
        /\ \A e \in event_queue' \ event_queue :
             e \in DeliveryEvent /\ simulation_time <= e.fire_time
    BY <1>1, <1>3, <1>4, SendDelivers
  <1>6. \A e \in event_queue' \ event_queue : e.type # "send"
    BY <1>5 DEF DeliveryEvent
  <1>7. InCall'
    BY <1>1 DEF InCall, CallOf
  <1> QED BY <1>1, <1>4, <1>5, <1>6, <1>7, StepWakes DEF WakeInv, Types

\* A timer that was taken is run.
LEMMA RunTimerWakes ==
  ASSUME WakeInv, working = Nobody, RunTimer
  PROVE  WakeInv' /\ LiveTimers' = LiveTimers
  <1>1. /\ running.type = "timer" /\ working' = RunsTimer(running.meter, running.id)
        /\ UNCHANGED <<simulation_time, event_queue, timeout_queue, running, client,
                       next_id, sent>>
    BY DEF RunTimer, queues, bounds
  <1>2. running \in TimerEvent
    BY <1>1 DEF WakeInv, Types, Idle, DeliveryEvent, SendEvent, ResumeEvent, Resuming
  <1>3. Delayed /\ LiveTimers' = LiveTimers
    BY <1>1, SameTimeouts DEF WakeInv, Types, client
  <1>4. InCall'
    BY <1>1, <1>2 DEF InCall, CallOf, RunsTimer, TimerCall, TimerEvent
  <1> QED BY <1>1, <1>3, <1>4, StepWakes DEF WakeInv, Types

\* The delay of a client has ended: it is free, and has sent all it had to send.
LEMMA ResumeWakes ==
  ASSUME WakeInv, working = Nobody, resume_from_busy
  PROVE  /\ WakeInv' /\ LiveTimers' = LiveTimers
         /\ running \in ResumeEvent
         /\ running' = [type |-> "resuming", meter |-> running.meter]
         /\ client_is_busy' = [client_is_busy EXCEPT ![running.meter] = FALSE]
  <1> DEFINE m == running.meter
  <1>1. /\ running.type = "resume" /\ working' = Nobody
        /\ UNCHANGED <<simulation_time, event_queue, timeout_queue, accumulated_delay_micros,
                       busy_until_time, next_id, sent>>
    BY DEF resume_from_busy, queues, bounds
  <1>2. running \in ResumeEvent
    BY <1>1 DEF WakeInv, Types, Idle, DeliveryEvent, SendEvent, TimerEvent, Resuming
  <1>3. m \in Meter /\ Waking(m) /\ \A x \in Meter \ {m} : ~ Waking(x)
    BY <1>1, <1>2 DEF ResumeEvent, Waking
  <1>4. busy_until_time[m] = simulation_time /\ Alarms(m) = {}
    BY <1>3 DEF WakeInv, OneAlarm
  <1>5. ~ (simulation_time < busy_until_time[m])
    BY <1>4 DEF WakeInv, Types
  <1>6. /\ running' = [type |-> "resuming", meter |-> m]
        /\ client_is_busy' = [client_is_busy EXCEPT ![m] = FALSE]
    BY <1>5 DEF resume_from_busy
  <1> HIDE DEF m
  <1>7. running' \in Resuming /\ running'.type = "resuming"
    BY <1>3, <1>6 DEF Resuming
  <1>8. /\ client_is_busy' \in [Meter -> BOOLEAN] /\ client_is_busy'[m] = FALSE
        /\ \A x \in Meter \ {m} : client_is_busy'[x] = client_is_busy[x]
    BY <1>3, <1>6 DEF WakeInv, Types
  <1>9. Types'
    BY <1>1, <1>7, <1>8 DEF WakeInv, Types
  <1>10. OnTime'
    BY <1>1 DEF WakeInv, OnTime
  <1>11. InCall'
    BY <1>1 DEF InCall, CallOf
  <1>12. ASSUME NEW x \in Meter
         PROVE  OneAlarm(x)'
    <2>1. Alarms(x)' = Alarms(x) /\ ~ Waking(x)'
      BY <1>1, <1>7 DEF Alarms, Waking
    <2>2. CASE x = m
      BY <1>4, <1>8, <2>1, <2>2 DEF OneAlarm
    <2>3. CASE x # m
      BY <1>1, <1>3, <1>8, <2>1, <2>3 DEF WakeInv, OneAlarm
    <2> QED BY <2>2, <2>3
  <1>13. SendsInTime'
    <2> SUFFICES ASSUME NEW s \in event_queue, s.type = "send"
                 PROVE  /\ client_is_busy'[s.from] /\ s.fire_time <= busy_until_time[s.from]
                        /\ ~ Waking(s.from)'
      BY <1>1 DEF SendsInTime
    <2>1. s.from \in Meter
      BY DEF WakeInv, Types, DeliveryEvent, SendEvent
    <2>2. /\ client_is_busy[s.from] /\ s.fire_time <= busy_until_time[s.from]
          /\ ~ Waking(s.from)
      BY DEF WakeInv, SendsInTime
    <2> QED BY <1>3, <1>7, <1>8, <2>1, <2>2 DEF Waking
  <1>14. LiveTimers' = LiveTimers
    BY <1>1 DEF LiveTimers
  <1> QED BY <1>2, <1>6, <1>9, <1>10, <1>11, <1>12, <1>13, <1>14 DEF WakeInv, m

\* The loop of resume_from_busy handles a queued message, or ends.
LEMMA QueuedWakes ==
  ASSUME WakeInv, OrderInv, working = Nobody, ReceiveQueued
  PROVE  WakeInv' /\ LiveTimers' = LiveTimers
  <1> DEFINE m == running.meter
  <1>1. /\ running.type = "resuming"
        /\ UNCHANGED <<simulation_time, event_queue, timeout_queue, client, next_id, sent>>
    BY DEF ReceiveQueued, queues, bounds
  <1>2. running \in Resuming
    BY <1>1 DEF WakeInv, Types, Idle, DeliveryEvent, SendEvent, ResumeEvent, TimerEvent
  <1>3. m \in Meter
    BY <1>2 DEF Resuming
  <1>4. \/ /\ working' = Handles(m, Head(incoming_message_queue[m])) /\ running' = running
           /\ incoming_message_queue[m] # <<>>
        \/ running' = Idle /\ working' = Nobody
    BY DEF ReceiveQueued, Receives
  <1>5. running' \in {running, Idle} /\ running'.type # "resume"
    BY <1>1, <1>4 DEF Idle
  <1>6. Delayed /\ LiveTimers' = LiveTimers
    BY <1>1, <1>5, SameTimeouts DEF WakeInv, Types, client
  <1>7. InCall'
    <2>1. CASE /\ working' = Handles(m, Head(incoming_message_queue[m])) /\ running' = running
               /\ incoming_message_queue[m] # <<>>
      <3>1. Head(incoming_message_queue[m]) \in Nat
        BY <1>3, <2>1 DEF OrderInv
      <3> QED BY <1>1, <1>3, <2>1, <3>1 DEF InCall, CallOf, Handles, HandlerCall
    <2>2. CASE running' = Idle /\ working' = Nobody
      BY <2>2 DEF InCall, CallOf
    <2> QED BY <1>4, <2>1, <2>2
  <1> QED BY <1>1, <1>5, <1>6, <1>7, StepWakes DEF WakeInv, Types

\* Every step keeps the delays and the alarms.
LEMMA NextWakes == WakeInv /\ OrderInv /\ [Next]_vars => WakeInv'
  <1> SUFFICES ASSUME WakeInv, OrderInv, [Next]_vars PROVE WakeInv'
    OBVIOUS
  <1>1. ASSUME NEW m \in Meter, working.meter = m,
               Compute(m) \/ Send(m) \/ register_timer(m) \/ cancel_timer(m) \/ Return(m)
        PROVE  WakeInv'
    BY <1>1, ComputeWakes, SendWakes, RegisterWakes, CancelWakes, ReturnWakes
  <1>2. CASE working = Nobody /\ TakeEvent
    <2>1. run_simulation /\ running = Idle /\ UNCHANGED <<client, working, next_id, sent>>
      BY <1>2 DEF TakeEvent, run_simulation, bounds
    <2> QED BY <1>2, <2>1, TakesEarliest, EventWakes, TimeoutWakes
  <1>3. CASE working = Nobody /\ (receive_message \/ Delivered \/ SendDelayed \/ RunTimer)
    BY <1>3, ReceiveWakes, DeliveredWakes, SendDelayedWakes, RunTimerWakes
  <1>4. CASE working = Nobody /\ (resume_from_busy \/ ReceiveQueued)
    BY <1>4, ResumeWakes, QueuedWakes
  <1>5. CASE UNCHANGED vars
    <2>1. UNCHANGED <<simulation_time, event_queue, timeout_queue, running, client, working,
                      next_id, sent>>
      BY <1>5 DEF vars, queues, bounds
    <2> QED BY <2>1 DEF WakeInv, Types, OnTime, InCall, OneAlarm, Alarms, Waking, SendsInTime,
                        client
  <1> QED BY <1>1, <1>2, <1>3, <1>4, <1>5 DEF Next

----------------------------------------------------------------------------
(* The queues of the clients. *)

\* Nothing is received or handled to the end.
LEMMA SameQueues ==
  ASSUME OrderInv, UNCHANGED <<incoming_message_queue, arrived, running, working>>,
         \A m \in Meter : client_is_busy[m] => client_is_busy'[m]
  PROVE  OrderInv'
  <1>1. ASSUME NEW m \in Meter
        PROVE  QueueOf(m)'
    BY DEF OrderInv, QueueOf
  <1> QED BY <1>1 DEF OrderInv

\* Nothing is handled before or after the step.
LEMMA QuietQueues ==
  ASSUME OrderInv, UNCHANGED <<incoming_message_queue, arrived>>,
         working = Nobody, working' = Nobody,
         \A m \in Meter : ~ client_is_busy'[m] /\ running' # [type |-> "resuming", meter |-> m]
           => \/ ~ client_is_busy[m] /\ running # [type |-> "resuming", meter |-> m]
              \/ incoming_message_queue[m] = <<>>
  PROVE  OrderInv'
  <1>1. ASSUME NEW m \in Meter
        PROVE  QueueOf(m)'
    BY DEF OrderInv, QueueOf
  <1> QED BY <1>1 DEF OrderInv

\* A message that arrives is the only one, if the client is free.
LEMMA ReceiveOrders ==
  ASSUME WakeInv, OrderInv, working = Nobody, receive_message
  PROVE  OrderInv'
  <1> DEFINE m == running.to
             message == Head(running.messages)
  <1>1. /\ running.type = "deliver" /\ running.messages # <<>>
        /\ running' = [running EXCEPT !.messages = Tail(running.messages)]
        /\ arrived' = [arrived EXCEPT ![m] = Append(arrived[m], message)]
        /\ UNCHANGED client_is_busy
    BY DEF receive_message
  <1>2. running \in DeliveryEvent
    BY <1>1 DEF WakeInv, Types, Idle, SendEvent, ResumeEvent, TimerEvent, Resuming
  <1>3. m \in Meter /\ message \in Nat
    BY <1>1, <1>2 DEF DeliveryEvent
  <1>4. running'.type = "deliver"
    BY <1>1, <1>2 DEF DeliveryEvent
  <1>5. \/ /\ ~ client_is_busy[m] /\ working' = Handles(m, message)
           /\ incoming_message_queue' = incoming_message_queue
        \/ /\ client_is_busy[m] /\ working' = Nobody
           /\ incoming_message_queue' =
                [incoming_message_queue EXCEPT ![m] = Append(incoming_message_queue[m], message)]
    BY DEF receive_message
  <1> HIDE DEF m, message
  <1>6. /\ arrived \in [Meter -> Seq(Nat)] /\ incoming_message_queue \in [Meter -> Seq(Nat)]
        /\ \A x \in Meter : incoming_message_queue[x] = arrived[x]
        /\ \A x \in Meter : ~ client_is_busy[x] => incoming_message_queue[x] = <<>>
    BY <1>1 DEF OrderInv, QueueOf
  <1>7. Append(arrived[m], message) \in Seq(Nat)
    BY <1>3, <1>6
  <1>8. /\ arrived' \in [Meter -> Seq(Nat)]
        /\ incoming_message_queue' \in [Meter -> Seq(Nat)]
    BY <1>1, <1>3, <1>5, <1>6, <1>7
  <1>9. /\ arrived'[m] = Append(arrived[m], message)
        /\ \A x \in Meter \ {m} : arrived'[x] = arrived[x]
    BY <1>1, <1>3, <1>6
  <1>10. \A x \in Meter : running' # [type |-> "resuming", meter |-> x]
    BY <1>4
  <1>11. CASE /\ ~ client_is_busy[m] /\ working' = Handles(m, message)
              /\ incoming_message_queue' = incoming_message_queue
    <2>1. working' # Nobody /\ working'.meter = m /\ working'.message = message
      <3>1. m \in Nat
        BY <1>3, SimAssumption
      <3> QED BY <1>11, <3>1 DEF Handles, Nobody, None
    <2>2. arrived'[m] = <<message>>
      <3>1. arrived[m] = <<>>
        BY <1>3, <1>6, <1>11
      <3> QED BY <1>9, <3>1
    <2>3. ASSUME NEW x \in Meter
          PROVE  QueueOf(x)'
      <3>1. CASE x = m
        BY <1>1, <1>4, <1>6, <1>11, <2>1, <2>2, <3>1 DEF QueueOf
      <3>2. CASE x # m
        BY <1>1, <1>4, <1>6, <1>9, <1>11, <2>1, <3>2 DEF QueueOf
      <3> QED BY <3>1, <3>2
    <2> QED BY <1>8, <2>3 DEF OrderInv
  <1>12. CASE /\ client_is_busy[m] /\ working' = Nobody
              /\ incoming_message_queue' =
                   [incoming_message_queue EXCEPT ![m] = Append(incoming_message_queue[m], message)]
    <2>1. /\ incoming_message_queue'[m] = Append(incoming_message_queue[m], message)
          /\ \A x \in Meter \ {m} : incoming_message_queue'[x] = incoming_message_queue[x]
      BY <1>3, <1>6, <1>12
    <2>2. ASSUME NEW x \in Meter
          PROVE  QueueOf(x)'
      <3>1. CASE x = m
        BY <1>1, <1>6, <1>9, <1>12, <2>1, <3>1 DEF QueueOf
      <3>2. CASE x # m
        BY <1>1, <1>6, <1>9, <1>12, <2>1, <3>2 DEF QueueOf
      <3> QED BY <3>1, <3>2
    <2> QED BY <1>8, <2>2 DEF OrderInv
  <1> QED BY <1>5, <1>11, <1>12

\* The message that was handled leaves the queue, if it ever was in it.
LEMMA ReturnOrders ==
  ASSUME WakeInv, OrderInv, NEW m \in Meter, working.meter = m, Return(m)
  PROVE  OrderInv'
  <1>1. /\ working' = Nobody /\ UNCHANGED client_is_busy
        /\ running' = IF running.type = "timer" THEN Idle ELSE running
        /\ incoming_message_queue' = [incoming_message_queue EXCEPT ![m] =
             IF running.type = "resuming" THEN Tail(incoming_message_queue[m])
             ELSE incoming_message_queue[m]]
        /\ arrived' = [arrived EXCEPT ![m] =
             IF running.type = "timer" THEN arrived[m] ELSE Tail(arrived[m])]
    BY DEF Return, client
  <1>2. /\ arrived \in [Meter -> Seq(Nat)] /\ incoming_message_queue \in [Meter -> Seq(Nat)]
        /\ \A x \in Meter : QueueOf(x)
    BY DEF OrderInv
  <1>3. working # Nobody
    BY CallHasEvent
  <1>4. /\ \A x \in Meter \ {m} : /\ arrived'[x] = arrived[x]
                                  /\ incoming_message_queue'[x] = incoming_message_queue[x]
        /\ \A x \in Meter \ {m} : incoming_message_queue[x] = arrived[x]
    BY <1>1, <1>2 DEF QueueOf
  <1>5. \A x \in Meter : running' # [type |-> "resuming", meter |-> x]
          => running # [type |-> "resuming", meter |-> x]
    BY <1>1
  <1>6. /\ incoming_message_queue'[m] \in Seq(Nat) /\ arrived'[m] \in Seq(Nat)
        /\ incoming_message_queue'[m] = arrived'[m]
        /\ ~ client_is_busy[m] /\ running' # [type |-> "resuming", meter |-> m]
             => incoming_message_queue'[m] = <<>>
    <2>1. CASE running \in DeliveryEvent
      <3>1. running.type = "deliver"
        BY <2>1 DEF DeliveryEvent
      <3>2. incoming_message_queue[m] = <<>> /\ arrived[m] = <<working.message>>
        BY <1>2, <1>3, <3>1 DEF QueueOf
      <3>3. Tail(arrived[m]) = <<>>
        BY <3>2
      <3> QED BY <1>1, <1>2, <3>1, <3>2, <3>3
    <2>2. CASE running \in Resuming /\ running.meter = m
      <3>1. running.type = "resuming" /\ running = [type |-> "resuming", meter |-> m]
        BY <2>2 DEF Resuming
      <3>2. incoming_message_queue[m] = arrived[m] /\ arrived[m] # <<>>
        BY <1>2, <1>3, <3>1 DEF QueueOf
      <3>3. Tail(arrived[m]) \in Seq(Nat)
        BY <1>2, <3>2
      <3> QED BY <1>1, <1>2, <3>1, <3>2, <3>3
    <2>3. CASE running \in TimerEvent
      <3>1. running.type = "timer"
        BY <2>3 DEF TimerEvent
      <3>2. /\ incoming_message_queue[m] = arrived[m]
            /\ ~ client_is_busy[m] => incoming_message_queue[m] = <<>>
        BY <1>2, <3>1 DEF QueueOf
      <3> QED BY <1>1, <1>2, <3>1, <3>2
    <2> QED BY <2>1, <2>2, <2>3, CallHasEvent
  <1>7. /\ arrived' \in [Meter -> Seq(Nat)]
        /\ incoming_message_queue' \in [Meter -> Seq(Nat)]
    BY <1>1, <1>2, <1>6
  <1>8. ASSUME NEW x \in Meter
        PROVE  QueueOf(x)'
    <2>1. CASE x = m
      BY <1>1, <1>6, <2>1 DEF QueueOf
    <2>2. CASE x # m
      BY <1>1, <1>2, <1>4, <1>5, <2>2 DEF QueueOf
    <2> QED BY <2>1, <2>2
  <1> QED BY <1>7, <1>8 DEF OrderInv

\* Every step keeps the queues in order.
LEMMA NextOrders == WakeInv /\ OrderInv /\ [Next]_vars => OrderInv'
  <1> SUFFICES ASSUME WakeInv, OrderInv, [Next]_vars PROVE OrderInv'
    OBVIOUS
  <1>1. ASSUME NEW m \in Meter, working.meter = m,
               Compute(m) \/ Send(m) \/ register_timer(m) \/ cancel_timer(m)
        PROVE  OrderInv'
    <2>1. UNCHANGED <<incoming_message_queue, arrived, running, working>>
      BY <1>1 DEF Compute, Send, register_timer, cancel_timer
    <2>2. \A x \in Meter : client_is_busy[x] => client_is_busy'[x]
      <3>1. CASE Compute(m) \/ Send(m)
        BY <1>1, <3>1, ComputeWakes, SendWakes DEF Delayed
      <3>2. CASE register_timer(m) \/ cancel_timer(m)
        BY <3>2 DEF register_timer, cancel_timer, client
      <3> QED BY <1>1, <3>1, <3>2
    <2> QED BY <2>1, <2>2, SameQueues
  <1>2. ASSUME NEW m \in Meter, working.meter = m, Return(m)
        PROVE  OrderInv'
    BY <1>2, ReturnOrders
  <1>3. CASE working = Nobody /\ (TakeEvent \/ Delivered)
    <2>1. UNCHANGED <<incoming_message_queue, arrived, working, client_is_busy>>
      BY <1>3 DEF TakeEvent, Delivered, client
    <2>2. \A x \in Meter : running # [type |-> "resuming", meter |-> x]
      BY <1>3 DEF TakeEvent, run_simulation, Delivered, Idle
    <2> QED BY <1>3, <2>1, <2>2, QuietQueues
  <1>4. CASE working = Nobody /\ SendDelayed
    <2>1. UNCHANGED <<incoming_message_queue, arrived, working>>
      BY <1>4 DEF SendDelayed
    <2>2. \A x \in Meter : /\ running # [type |-> "resuming", meter |-> x]
                           /\ client_is_busy[x] => client_is_busy'[x]
      BY <1>4, SendDelayedWakes DEF SendDelayed, Delayed
    <2> QED BY <1>4, <2>1, <2>2, QuietQueues
  <1>5. CASE working = Nobody /\ receive_message
    BY <1>5, ReceiveOrders
  <1>6. CASE working = Nobody /\ RunTimer
    <2>1. /\ UNCHANGED <<incoming_message_queue, arrived, running, client_is_busy>>
          /\ running.type = "timer"
      BY <1>6 DEF RunTimer, client
    <2>2. ASSUME NEW x \in Meter
          PROVE  QueueOf(x)'
      BY <1>6, <2>1 DEF OrderInv, QueueOf
    <2> QED BY <2>1, <2>2 DEF OrderInv
  <1>7. CASE working = Nobody /\ resume_from_busy
    <2>1. UNCHANGED <<incoming_message_queue, arrived, working>>
      BY <1>7 DEF resume_from_busy
    <2>2. /\ running \in ResumeEvent
          /\ running' = [type |-> "resuming", meter |-> running.meter]
          /\ client_is_busy' = [client_is_busy EXCEPT ![running.meter] = FALSE]
      BY <1>7, ResumeWakes
    <2>3. ASSUME NEW x \in Meter, ~ client_is_busy'[x],
                 running' # [type |-> "resuming", meter |-> x]
          PROVE  ~ client_is_busy[x] /\ running # [type |-> "resuming", meter |-> x]
      BY <2>2, <2>3 DEF ResumeEvent, WakeInv, Types
    <2> QED BY <1>7, <2>1, <2>3, QuietQueues
  <1>8. CASE working = Nobody /\ ReceiveQueued
    <2>1. /\ UNCHANGED <<incoming_message_queue, arrived, client_is_busy>>
          /\ running.type = "resuming"
      BY <1>8 DEF ReceiveQueued, client
    <2>2. CASE Receives(running.meter)
      <3>1. /\ working' = Handles(running.meter, Head(incoming_message_queue[running.meter]))
            /\ incoming_message_queue[running.meter] # <<>>
            /\ running' = running
        BY <1>8, <2>2 DEF ReceiveQueued, Receives
      <3>2. /\ working'.meter = running.meter
            /\ working'.message = Head(incoming_message_queue[running.meter])
        BY <3>1 DEF Handles
      <3>3. ASSUME NEW x \in Meter
            PROVE  QueueOf(x)'
        BY <1>8, <2>1, <3>1, <3>2 DEF OrderInv, QueueOf
      <3> QED BY <2>1, <3>3 DEF OrderInv
    <2>3. CASE ~ Receives(running.meter)
      <3>1. running' = Idle /\ working' = Nobody
        BY <1>8, <2>3 DEF ReceiveQueued
      <3>2. ASSUME NEW x \in Meter, ~ client_is_busy'[x],
                   running = [type |-> "resuming", meter |-> x]
            PROVE  incoming_message_queue[x] = <<>>
        BY <2>1, <2>3, <3>2 DEF Receives
      <3> QED BY <1>8, <2>1, <3>1, <3>2, QuietQueues
    <2> QED BY <2>2, <2>3
  <1>9. CASE UNCHANGED vars
    BY <1>9, SameQueues DEF vars, client
  <1> QED BY <1>1, <1>2, <1>3, <1>4, <1>5, <1>6, <1>7, <1>8, <1>9 DEF Next

----------------------------------------------------------------------------
(* The timers. *)

\* The timers that have neither run nor been cancelled, by their numbers.
Pending ==
  {e.id : e \in LiveTimers}
    \cup {id \in {running.id} : running.type = "timer" /\ working = Nobody}

\* A step of the contract of TimerManager.h, or none.
ContractStep ==
  \/ UNCHANGED <<next_id, Pending, ran>>
  \/ next_id' = next_id + 1 /\ Pending' = Pending \cup {next_id} /\ ran' = ran
  \/ \E id \in 0..(next_id - 1) : Pending' = Pending \ {id} /\ UNCHANGED <<next_id, ran>>
  \/ \E id \in Pending :
       Pending' = Pending \ {id} /\ ran' = ran \cup {id} /\ next_id' = next_id

\* Steps that are not about timers.
LEMMA OthersKeepTimers ==
  ASSUME TimerInv, UNCHANGED <<LiveTimers, next_id, ran, revoked>>,
         \/ UNCHANGED <<running, working>>
         \/ running.type # "timer" /\ running'.type # "timer"
  PROVE  TimerInv' /\ ContractStep
  <1>1. Pending' = Pending
    BY DEF Pending
  <1>2. TimerInv'
    BY DEF TimerInv
  <1> QED BY <1>1, <1>2 DEF ContractStep

\* A timer is registered.
LEMMA RegisterKeepsTimers ==
  ASSUME WakeInv, TimerInv, next_id' = next_id + 1,
         NEW e, e.id = next_id, LiveTimers' = LiveTimers \cup {e},
         UNCHANGED <<running, working, ran, revoked>>
  PROVE  TimerInv' /\ ContractStep
  <1>1. next_id \in Nat
    BY DEF WakeInv, Types
  <1>2. 0..(next_id' - 1) = 0..(next_id - 1) \cup {next_id} /\ next_id \notin 0..(next_id - 1)
    BY <1>1
  <1>3. Pending' = Pending \cup {next_id}
    BY DEF Pending
  <1>4. /\ ran' \subseteq 0..(next_id' - 1) /\ revoked' \subseteq 0..(next_id' - 1)
        /\ \A f \in LiveTimers' : f.id \in 0..(next_id' - 1) /\ f.id \notin ran'
    BY <1>2 DEF TimerInv
  <1>5. \A f, g \in LiveTimers' : f.id = g.id => f = g
    BY <1>2 DEF TimerInv
  <1>6. running'.type = "timer" =>
          /\ running'.id \in 0..(next_id' - 1) /\ ~ running'.cancelled
          /\ \A f \in LiveTimers' : f.id # running'.id
          /\ running'.id \in ran' <=> working' # Nobody
    BY <1>2 DEF TimerInv
  <1>7. \A id \in 0..(next_id' - 1) :
          \/ id \in ran' \cup revoked'
          \/ \E f \in LiveTimers' : f.id = id
          \/ running'.type = "timer" /\ running'.id = id
    BY <1>2 DEF TimerInv
  <1>8. TimerInv'
    BY <1>4, <1>5, <1>6, <1>7 DEF TimerInv
  <1> QED BY <1>3, <1>8 DEF ContractStep

\* A timer is cancelled.
LEMMA CancelKeepsTimers ==
  ASSUME TimerInv, NEW e \in LiveTimers, LiveTimers' = LiveTimers \ {e},
         revoked' = revoked \cup {e.id},
         UNCHANGED <<running, working, next_id, ran>>
  PROVE  TimerInv' /\ ContractStep
  <1>1. \A f \in LiveTimers \ {e} : f.id # e.id
    BY DEF TimerInv
  <1>2. running.type = "timer" => running.id # e.id
    BY DEF TimerInv
  <1>3. Pending' = Pending \ {e.id}
    BY <1>1, <1>2 DEF Pending
  <1>4. e.id \in 0..(next_id - 1)
    BY DEF TimerInv
  <1>5. TimerInv'
    BY <1>4 DEF TimerInv
  <1> QED BY <1>3, <1>4, <1>5 DEF ContractStep

\* A timer is taken from the queue to be run.
LEMMA TakeKeepsTimers ==
  ASSUME TimerInv, NEW e \in LiveTimers, LiveTimers' = LiveTimers \ {e},
         running = Idle, running' = e, e.type = "timer", ~ e.cancelled,
         working = Nobody, UNCHANGED <<working, next_id, ran, revoked>>
  PROVE  TimerInv' /\ ContractStep
  <1>1. \A f \in LiveTimers \ {e} : f.id # e.id
    BY DEF TimerInv
  <1>2. running.type # "timer"
    BY DEF Idle
  <1>3. Pending' = Pending
    BY <1>2 DEF Pending
  <1>4. TimerInv'
    BY <1>1, <1>2 DEF TimerInv
  <1> QED BY <1>3, <1>4 DEF ContractStep

\* A timer is run.
LEMMA RunKeepsTimers ==
  ASSUME WakeInv, TimerInv, working = Nobody, RunTimer, LiveTimers' = LiveTimers
  PROVE  TimerInv' /\ ContractStep
  <1>1. /\ running.type = "timer" /\ ran' = ran \cup {running.id}
        /\ working' = RunsTimer(running.meter, running.id)
        /\ UNCHANGED <<running, next_id, revoked>>
    BY DEF RunTimer, bounds
  <1>2. running \in TimerEvent
    BY <1>1 DEF WakeInv, Types, Idle, DeliveryEvent, SendEvent, ResumeEvent, Resuming
  <1>3. working' # Nobody
    <2>1. running.meter \in Nat
      BY <1>2, SimAssumption DEF TimerEvent
    <2> QED BY <1>1, <2>1 DEF RunsTimer, Nobody, None
  <1>4. running.id \in Pending /\ \A f \in LiveTimers : f.id # running.id
    BY <1>1 DEF Pending, TimerInv
  <1>5. Pending' = Pending \ {running.id}
    BY <1>1, <1>3, <1>4 DEF Pending
  <1>6. TimerInv'
    BY <1>1, <1>3, <1>4 DEF TimerInv
  <1> QED BY <1>1, <1>4, <1>5, <1>6 DEF ContractStep

\* The callback of a timer returns.
LEMMA ReturnKeepsTimers ==
  ASSUME WakeInv, TimerInv, NEW m \in Meter, working.meter = m, Return(m),
         LiveTimers' = LiveTimers
  PROVE  TimerInv' /\ ContractStep
  <1>1. /\ working' = Nobody /\ working # Nobody
        /\ running' = IF running.type = "timer" THEN Idle ELSE running
        /\ UNCHANGED <<next_id, ran, revoked>>
    BY CallHasEvent DEF Return, bounds, timers
  <1>2. running'.type # "timer"
    BY <1>1 DEF Idle
  <1>3. Pending' = Pending
    BY <1>1, <1>2 DEF Pending
  <1>4. TimerInv'
    BY <1>1, <1>2 DEF TimerInv
  <1> QED BY <1>1, <1>3, <1>4 DEF ContractStep

\* Every step keeps every timer in its place, and is one that the contract allows.
LEMMA NextTimers ==
  ASSUME WakeInv, OrderInv, TimerInv, [Next]_vars
  PROVE  TimerInv' /\ ContractStep
  <1>1. ASSUME NEW m \in Meter, working.meter = m, Compute(m) \/ Send(m)
        PROVE  TimerInv' /\ ContractStep
    <2>1. UNCHANGED <<running, working, next_id, ran, revoked>>
      BY <1>1 DEF Compute, Send, timers
    <2>2. LiveTimers' = LiveTimers
      BY <1>1, ComputeWakes, SendWakes
    <2> QED BY <2>1, <2>2, OthersKeepTimers
  <1>2. ASSUME NEW m \in Meter, working.meter = m, register_timer(m)
        PROVE  TimerInv' /\ ContractStep
    <2>1. UNCHANGED <<running, working, ran, revoked>>
      BY <1>2 DEF register_timer, timers
    <2> QED BY <1>2, <2>1, RegisterWakes, RegisterKeepsTimers
  <1>3. ASSUME NEW m \in Meter, working.meter = m, cancel_timer(m)
        PROVE  TimerInv' /\ ContractStep
    <2>1. UNCHANGED <<running, working, next_id, ran>>
      BY <1>3 DEF cancel_timer, bounds
    <2> QED BY <1>3, <2>1, CancelWakes, CancelKeepsTimers
  <1>4. ASSUME NEW m \in Meter, working.meter = m, Return(m)
        PROVE  TimerInv' /\ ContractStep
    BY <1>4, ReturnWakes, ReturnKeepsTimers
  <1>5. CASE working = Nobody /\ TakeEvent
    <2>1. /\ run_simulation /\ running = Idle
          /\ UNCHANGED <<client, working, next_id, sent, ran, revoked>>
      BY <1>5 DEF TakeEvent, run_simulation, bounds, timers
    <2>2. ASSUME NEW e \in event_queue,
                 simulation_time' = e.fire_time, running' = e,
                 event_queue' = event_queue \ {e}, timeout_queue' = Timeouts,
                 \A other \in event_queue \cup Timeouts : e.fire_time <= other.fire_time
          PROVE  TimerInv' /\ ContractStep
      <3>1. LiveTimers' = LiveTimers
        BY <1>5, <2>1, <2>2, EventWakes
      <3>2. running.type # "timer" /\ running'.type # "timer"
        BY <2>1, <2>2 DEF WakeInv, Types, Idle, DeliveryEvent, SendEvent
      <3> QED BY <2>1, <3>1, <3>2, OthersKeepTimers
    <2>3. ASSUME NEW e \in Timeouts,
                 simulation_time' = e.fire_time, running' = IF e.cancelled THEN Idle ELSE e,
                 event_queue' = event_queue, timeout_queue' = Timeouts \ {e},
                 \A other \in Timeouts : e.fire_time <= other.fire_time,
                 \A other \in event_queue : e.fire_time < other.fire_time
          PROVE  TimerInv' /\ ContractStep
      <3>1. LiveTimers' = LiveTimers \ {e}
        BY <1>5, <2>1, <2>3, TimeoutWakes
      <3>2. CASE e \in LiveTimers
        <4>1. e.type = "timer" /\ ~ e.cancelled
          BY <3>2 DEF LiveTimers
        <4> QED BY <1>5, <2>1, <2>3, <3>1, <3>2, <4>1, TakeKeepsTimers
      <3>3. CASE e \notin LiveTimers
        <4>1. LiveTimers' = LiveTimers
          BY <3>1, <3>3
        <4>2. e.type # "timer" \/ e.cancelled
          BY <3>3, LiveStay DEF LiveTimers
        <4>3. running.type # "timer" /\ running'.type # "timer"
          BY <2>1, <2>3, <4>2 DEF Idle
        <4> QED BY <2>1, <4>1, <4>3, OthersKeepTimers
      <3> QED BY <3>2, <3>3
    <2> QED BY <2>1, <2>2, <2>3, TakesEarliest
  <1>6. CASE working = Nobody /\ RunTimer
    BY <1>6, RunTimerWakes, RunKeepsTimers
  <1>7. CASE working = Nobody /\ (receive_message \/ Delivered \/ SendDelayed)
    <2>1. LiveTimers' = LiveTimers
      BY <1>7, ReceiveWakes, DeliveredWakes, SendDelayedWakes
    <2>2. UNCHANGED <<next_id, ran, revoked>>
      BY <1>7 DEF receive_message, Delivered, SendDelayed, bounds, timers
    <2>3. running.type \in {"deliver", "send"}
      BY <1>7 DEF receive_message, Delivered, SendDelayed
    <2>4. CASE receive_message
      <3>1. running \in DeliveryEvent
        BY <2>4 DEF receive_message, WakeInv, Types, Idle, SendEvent, ResumeEvent, TimerEvent,
                    Resuming
      <3>2. running'.type # "timer"
        BY <2>4, <3>1 DEF receive_message, DeliveryEvent
      <3> QED BY <2>1, <2>2, <2>3, <3>2, OthersKeepTimers
    <2>5. CASE Delivered \/ SendDelayed
      <3>1. running'.type # "timer"
        BY <2>5 DEF Delivered, SendDelayed, Idle
      <3> QED BY <2>1, <2>2, <2>3, <3>1, OthersKeepTimers
    <2> QED BY <1>7, <2>4, <2>5
  <1>8. CASE working = Nobody /\ (resume_from_busy \/ ReceiveQueued)
    <2>1. LiveTimers' = LiveTimers
      BY <1>8, ResumeWakes, QueuedWakes
    <2>2. UNCHANGED <<next_id, ran, revoked>>
      BY <1>8 DEF resume_from_busy, ReceiveQueued, bounds, timers
    <2>3. running.type # "timer" /\ running'.type # "timer"
      BY <1>8 DEF resume_from_busy, ReceiveQueued, Idle
    <2> QED BY <2>1, <2>2, <2>3, OthersKeepTimers
  <1>9. CASE UNCHANGED vars
    <2>1. UNCHANGED <<LiveTimers, next_id, ran, revoked, running, working>>
      BY <1>9 DEF vars, queues, bounds, timers, LiveTimers
    <2> QED BY <2>1, OthersKeepTimers
  <1> QED BY <1>1, <1>2, <1>3, <1>4, <1>5, <1>6, <1>7, <1>8, <1>9 DEF Next

----------------------------------------------------------------------------
(* The theorems. *)

\* At the start the utility's query is under way, and no client is busy.
LEMMA InitSimInv == Init => WakeInv /\ OrderInv /\ TimerInv
  <1> SUFFICES ASSUME Init PROVE WakeInv /\ OrderInv /\ TimerInv
    OBVIOUS
  <1>1. /\ simulation_time = 0 /\ timeout_queue = {} /\ running = Idle /\ working = Nobody
        /\ next_id = 0 /\ sent = 0 /\ ran = {} /\ revoked = {}
        /\ accumulated_delay_micros = [m \in Meter |-> 0]
        /\ client_is_busy = [m \in Meter |-> FALSE]
        /\ busy_until_time = [m \in Meter |-> 0]
        /\ incoming_message_queue = [m \in Meter |-> <<>>]
        /\ arrived = [m \in Meter |-> <<>>]
    BY DEF Init, InitEvents
  <1>2. \A e \in event_queue : e \in DeliveryEvent
    <2>1. PICK latency \in [Meter \ failed -> Latency] :
            event_queue = {Delivery(latency[m], m, <<m>>) : m \in Meter \ failed}
      BY DEF Init
    <2>2. ASSUME NEW m \in Meter \ failed
          PROVE  Delivery(latency[m], m, <<m>>) \in DeliveryEvent
      <3>1. latency[m] \in Nat /\ m \in Nat
        BY SimAssumption
      <3>2. <<m>> \in Seq(Nat)
        BY <3>1
      <3> QED BY <3>1, <3>2 DEF Delivery, DeliveryEvent
    <2> QED BY <2>1, <2>2
  <1>3. Types
    BY <1>1, <1>2 DEF Types
  <1>4. OnTime /\ SendsInTime
    BY <1>1, <1>2 DEF OnTime, SendsInTime, DeliveryEvent
  <1>5. InCall
    BY <1>1 DEF InCall, CallOf
  <1>6. \A m \in Meter : OneAlarm(m)
    BY <1>1 DEF OneAlarm, Alarms, Waking, Idle
  <1>7. OrderInv
    <2>1. <<>> \in Seq(Nat)
      OBVIOUS
    <2> QED BY <1>1, <2>1 DEF OrderInv, QueueOf, Idle
  <1>8. TimerInv
    <2>1. LiveTimers = {} /\ running.type # "timer"
      BY <1>1 DEF LiveTimers, Idle
    <2> QED BY <1>1, <2>1 DEF TimerInv
  <1> QED BY <1>3, <1>4, <1>5, <1>6, <1>7, <1>8 DEF WakeInv

\* The invariants hold together.
LEMMA SimInvariant == Spec => [](WakeInv /\ OrderInv /\ TimerInv)
  BY InitSimInv, NextWakes, NextOrders, NextTimers, PTL DEF Spec

\* Between events, a busy client has one event that will wake it, at the end of
\* its delay and not in the past, and what it sent while it was busy leaves
\* before it wakes: however often delay_client moves the end of the delay.
THEOREM BusyClientsWake == Spec => []BusyClientWakes
  <1>1. WakeInv => BusyClientWakes
    <2> SUFFICES ASSUME WakeInv, running = Idle PROVE BusyClientWakes
      BY DEF BusyClientWakes
    <2>1. \A m \in Meter : ~ Waking(m)
      BY DEF Waking, Idle
    <2>2. ASSUME NEW m \in Meter
          PROVE  /\ {e.fire_time : e \in Alarms(m)}
                      = {time \in {busy_until_time[m]} : client_is_busy[m]}
                 /\ client_is_busy[m] => busy_until_time[m] >= simulation_time
      <3>1. CASE client_is_busy[m]
        <4>1. Alarms(m) = {Resume(busy_until_time[m], m)}
          BY <2>1, <3>1 DEF WakeInv, OneAlarm
        <4>2. Resume(busy_until_time[m], m).fire_time = busy_until_time[m]
          BY DEF Resume
        <4>3. simulation_time <= busy_until_time[m]
          BY <3>1 DEF WakeInv, OneAlarm
        <4>4. {e.fire_time : e \in Alarms(m)} = {busy_until_time[m]}
          BY <4>1, <4>2
        <4> QED BY <3>1, <4>3, <4>4 DEF WakeInv, Types
      <3>2. CASE ~ client_is_busy[m]
        <4>1. Alarms(m) = {}
          BY <3>2 DEF WakeInv, OneAlarm
        <4> QED BY <3>2, <4>1
      <3> QED BY <3>1, <3>2
    <2>3. ASSUME NEW e \in event_queue, e.type = "send"
          PROVE  client_is_busy[e.from] /\ e.fire_time <= busy_until_time[e.from]
      BY <2>3 DEF WakeInv, SendsInTime
    <2> QED BY <2>2, <2>3 DEF BusyClientWakes, Alarms
  <1> QED BY <1>1, SimInvariant, PTL

\* A client handles its messages in the order of their arrival: those that it
\* queued while it was busy come before those that find it free again.
THEOREM MessagesHandledInOrder == Spec => []HandledInOrder
  <1>1. WakeInv /\ OrderInv => HandledInOrder
    <2> SUFFICES ASSUME WakeInv, OrderInv PROVE HandledInOrder
      OBVIOUS
    <2>1. arrived \in [Meter -> Seq(Nat)] /\ incoming_message_queue \in [Meter -> Seq(Nat)]
      BY DEF OrderInv
    <2>2. ASSUME "message" \in DOMAIN working
          PROVE  working.message = Head(arrived[working.meter])
      <3>1. /\ working # Nobody /\ working.meter \in Meter
            /\ \/ running.type = "deliver" /\ running.to = working.meter
               \/ running.type = "resuming" /\ running.meter = working.meter
        BY <2>2 DEF WakeInv, InCall, CallOf, Nobody, HandlerCall, TimerCall
      <3>2. QueueOf(working.meter)
        BY <3>1 DEF OrderInv
      <3>3. CASE running.type = "deliver"
        <4>1. arrived[working.meter] = <<working.message>>
          BY <3>1, <3>2, <3>3 DEF QueueOf
        <4> QED BY <4>1
      <3>4. CASE running.type = "resuming"
        BY <3>1, <3>2, <3>4 DEF QueueOf
      <3> QED BY <3>1, <3>3, <3>4
    <2>3. ASSUME running = Idle
          PROVE  incoming_message_queue = arrived
      <3>1. \A m \in Meter : incoming_message_queue[m] = arrived[m]
        BY <2>3 DEF OrderInv, QueueOf, Idle
      <3> QED BY <2>1, <3>1
    <2> QED BY <2>2, <2>3 DEF HandledInOrder
  <1> QED BY <1>1, SimInvariant, PTL

\* When run_simulation finds no event, nothing is left to do: no client is busy or
\* has a message, and every timer was run or cancelled.
THEOREM NothingIsForgotten == Spec => []NothingForgotten
  <1>1. WakeInv /\ OrderInv /\ TimerInv => NothingForgotten
    <2> SUFFICES ASSUME WakeInv, OrderInv, TimerInv, Over
                 PROVE  /\ \A m \in Meter : ~ client_is_busy[m] /\ arrived[m] = <<>>
                        /\ ran \cup revoked = 0..(next_id - 1)
      BY DEF NothingForgotten
    <2>1. running = Idle /\ running.type # "timer" /\ Timeouts = {}
      BY DEF Over, Idle
    <2>2. \A e \in timeout_queue : e.cancelled
      BY <2>1, LiveStay
    <2>3. ASSUME NEW m \in Meter
          PROVE  ~ client_is_busy[m] /\ arrived[m] = <<>>
      <3>1. Alarms(m) = {} /\ ~ Waking(m)
        BY <2>1, <2>2 DEF Alarms, Waking, Idle
      <3>2. ~ client_is_busy[m]
        BY <3>1 DEF WakeInv, OneAlarm
      <3>3. QueueOf(m)
        BY DEF OrderInv
      <3> QED BY <2>1, <3>2, <3>3 DEF QueueOf, Idle
    <2>4. LiveTimers = {}
      BY <2>2 DEF LiveTimers
    <2>5. ran \cup revoked = 0..(next_id - 1)
      BY <2>1, <2>4 DEF TimerInv
    <2> QED BY <2>3, <2>5
  <1> QED BY <1>1, SimInvariant, PTL

\* What the contract takes for pending.
PendingOfContract ==
  {e.id : e \in {f \in timeout_queue \cup {running} :
                    f.type = "timer" /\ ~ f.cancelled /\ f.id \notin ran}}

\* The contract finds pending what the invariant says is.
LEMMA PendingIs == WakeInv /\ TimerInv => PendingOfContract = Pending
  <1> SUFFICES ASSUME WakeInv, TimerInv PROVE PendingOfContract = Pending
    OBVIOUS
  <1>1. \A e : e \in {f \in timeout_queue \cup {running} :
                        f.type = "timer" /\ ~ f.cancelled /\ f.id \notin ran}
               <=> \/ e \in LiveTimers
                   \/ e = running /\ running.type = "timer" /\ working = Nobody
    BY DEF LiveTimers, TimerInv
  <1> QED BY <1>1 DEF Pending, PendingOfContract

\* The timers of the simulator keep the contract of util/TimerManager.h, although
\* cancelled timers stay in the queue until they are filtered out or fire.
THEOREM SimulatorKeepsContract == Spec => KeepsContract
  <1>1. Init => Contract!Init
    <2> SUFFICES ASSUME Init PROVE Contract!Init
      OBVIOUS
    <2>1. WakeInv /\ TimerInv /\ next_id = 0 /\ ran = {}
      BY InitSimInv DEF Init
    <2>2. LiveTimers = {} /\ running.type # "timer"
      BY DEF Init, InitEvents, LiveTimers, Idle
    <2>3. Pending = {}
      BY <2>2 DEF Pending
    <2> QED BY <2>1, <2>3, PendingIs DEF Contract!Init, PendingOfContract
  <1>2. (WakeInv /\ TimerInv => PendingOfContract = Pending)'
    BY PendingIs, PTL
  <1>3. /\ WakeInv /\ OrderInv /\ TimerInv
        /\ (WakeInv /\ OrderInv /\ TimerInv)'
        /\ [Next]_vars
        => [Contract!Next]_(Contract!vars)
    <2> SUFFICES ASSUME WakeInv, OrderInv, TimerInv,
                        WakeInv', OrderInv', TimerInv', [Next]_vars
                 PROVE  [Contract!Next]_(Contract!vars)
      OBVIOUS
    <2>1. ContractStep
      BY NextTimers
    <2>2. PendingOfContract = Pending
      BY PendingIs
    <2>3. PendingOfContract' = Pending'
      BY <1>2
    <2>4. Pending \subseteq 0..(next_id - 1)
      BY DEF Pending, TimerInv
    <2> QED BY <2>1, <2>2, <2>3, <2>4
            DEF ContractStep, Contract!Next, Contract!Register, Contract!Cancel, Contract!Run,
                Contract!vars, PendingOfContract
  <1> QED BY <1>1, <1>3, SimInvariant, PTL DEF Spec, KeepsContract, Contract!Spec

=============================================================================
