--------------------------- MODULE LinuxTimerManager ---------------------------
(***************************************************************************)
(* The timers of the Linux build (util/LinuxTimerManager.cpp): the threads *)
(* that register and cancel timers, the kernel that signals their expiry,  *)
(* and the thread that runs their callbacks.                               *)
(*                                                                         *)
(* register_timer takes no lock: each of its accesses to next_id, to a map *)
(* or to the kernel is a step of its own.  Each section under              *)
(* cancelled_timers_mutex is one step; what it does to the maps while      *)
(* another thread inserts is a data race in the code, and here either      *)
(* happens before the other.  A callback lasts from StartCallback to       *)
(* FinishCallback; it may itself register and cancel.  Where at() throws   *)
(* there is no step.  The destructor is left out.  An operator marked      *)
(* "fault" is what a slip would make of the definition it precedes.        *)
(***************************************************************************)
EXTENDS Integers, FiniteSets

CONSTANTS
  Threads,          \* the threads that register timers ...
  callback_thread,  \* ... one of which runs the callbacks
  Overlap,          \* may one of them call register_timer while another does?
  Delays,           \* the values of delay_ms that clients use
  MaxTimers         \* bound: timers ever registered

MaxDelay == 100000   \* bound: keeps wait() within the integers of TLC

ASSUME TimerAssumption ==
  /\ callback_thread \in Threads
  /\ Overlap \in BOOLEAN
  /\ Delays \subseteq 1..MaxDelay
  /\ MaxTimers \in Nat

TimerId == 0..(MaxTimers - 1)
None == -1

VARIABLES
  next_id,
  timer_handles,      \* the kernel's timer of each ID, or None if it has no entry
  timer_callbacks,    \* likewise the timer whose callback it is
  cancelled_timers,
  fired_timers,       \* the queue: timers that have expired
  created,            \* the kernel's timers are 0..(created - 1); those that ...
  armed,              \* ... will still expire; and for each ...
  sival_int,          \* ... the ID that its signal carries,
  asked,              \* ... history: its delay, or None before it is armed,
  returned,           \* ... the ID its client has for it, or None before the return
  pc,                 \* the line of register_timer that a thread will execute next
  own,                \* the timer it is registering
  read,               \* next_id as it has read it for the return
  current,            \* the expired timer whose turn it is, or None
  ran,                \* history: timers whose callback was started
  revoked             \* history: timers cancelled before their callback started

id_vars == <<created, sival_int, asked, returned, pc, own, read>>
timer_vars == <<next_id, timer_handles, timer_callbacks, cancelled_timers, fired_timers,
                armed, current, ran, revoked, id_vars>>

Timer == 0..(created - 1)
OnTheirWay == armed \cup fired_timers \cup ({current} \ {None})

TimersInit ==
  /\ next_id = 0
  /\ timer_handles = [id \in TimerId |-> None]
  /\ timer_callbacks = [id \in TimerId |-> None]
  /\ cancelled_timers = {}
  /\ fired_timers = {}
  /\ created = 0
  /\ armed = {}
  /\ sival_int = [t \in TimerId |-> None]
  /\ asked = [t \in TimerId |-> None]
  /\ returned = [t \in TimerId |-> None]
  /\ pc = [th \in Threads |-> "idle"]
  /\ own = [th \in Threads |-> None]
  /\ read = [th \in Threads |-> None]
  /\ current = None
  /\ ran = {}
  /\ revoked = {}

----------------------------------------------------------------------------
(* Arming. *)

\* A millisecond, and a second, in the unit of 64 ns: 64 divides both a
\* million and 2^32, so that the wrap of an int is one of 26 bits here.
Millisecond == 15625
Second == 1000 * Millisecond

wait_ten_times(delay_ms) == delay_ms * 10 * Millisecond  \* fault: a zero too many

\* tv_nsec = delay_ms * 1000000, an int computation; the build wraps it.
wait(delay_ms) ==
  LET w == (delay_ms * Millisecond) % 2^26
  IN IF w >= 2^25 THEN w - 2^26 ELSE w

\* timer_settime rejects a tv_nsec outside of one second, and a zero disarms;
\* its result is not looked at.
Arms(delay_ms) == wait(delay_ms) \in 1..(Second - 1)

----------------------------------------------------------------------------
(* register_timer, line by line.  A callback calls it in the callback thread. *)

At(th, line) == pc[th] = line
Goto(th, line) == pc' = [pc EXCEPT ![th] = line]

\* The ID in the signal is read, and the kernel's timer created.
Create(th) ==
  /\ At(th, "idle") /\ created < MaxTimers
  /\ th = callback_thread => current # None
  /\ Overlap \/ \A other \in Threads : At(other, "idle")
  /\ sival_int' = [sival_int EXCEPT ![created] = next_id]
  /\ own' = [own EXCEPT ![th] = created]
  /\ created' = created + 1
  /\ Goto(th, "handles")
  /\ UNCHANGED <<next_id, timer_handles, timer_callbacks, cancelled_timers, fired_timers,
                 armed, asked, returned, read, current, ran, revoked>>

StoreHandle(th) ==
  /\ At(th, "handles")
  /\ timer_handles' = [timer_handles EXCEPT ![next_id] = own[th]]
  /\ Goto(th, "callbacks")
  /\ UNCHANGED <<next_id, timer_callbacks, cancelled_timers, fired_timers, created, armed,
                 sival_int, asked, returned, own, read, current, ran, revoked>>

StoreCallback(th) ==
  /\ At(th, "callbacks")
  /\ timer_callbacks' = [timer_callbacks EXCEPT ![next_id] = own[th]]
  /\ Goto(th, "settime")
  /\ UNCHANGED <<next_id, timer_handles, cancelled_timers, fired_timers, created, armed,
                 sival_int, asked, returned, own, read, current, ran, revoked>>

SetTime(th, delay_ms) ==
  /\ At(th, "settime")
  /\ asked' = [asked EXCEPT ![own[th]] = delay_ms]
  /\ armed' = armed \cup (IF Arms(delay_ms) THEN {own[th]} ELSE {})
  /\ Goto(th, "return")
  /\ UNCHANGED <<next_id, timer_handles, timer_callbacks, cancelled_timers, fired_timers,
                 created, sival_int, returned, own, read, current, ran, revoked>>

\* return next_id++ reads next_id ...
ReadId(th) ==
  /\ At(th, "return")
  /\ read' = [read EXCEPT ![th] = next_id]
  /\ Goto(th, "increment")
  /\ UNCHANGED <<next_id, timer_handles, timer_callbacks, cancelled_timers, fired_timers,
                 created, armed, sival_int, asked, returned, own, current, ran, revoked>>

\* ... and writes it.
IncrementId(th) ==
  /\ At(th, "increment")
  /\ next_id' = read[th] + 1
  /\ returned' = [returned EXCEPT ![own[th]] = read[th]]
  /\ Goto(th, "idle")
  /\ UNCHANGED <<timer_handles, timer_callbacks, cancelled_timers, fired_timers, created,
                 armed, sival_int, asked, own, read, current, ran, revoked>>

\* What follows the first line.
Continue(th) ==
  \/ StoreHandle(th)
  \/ StoreCallback(th)
  \/ \E d \in Delays : SetTime(th, d)
  \/ ReadId(th)
  \/ IncrementId(th)

register_timer(th) == Create(th) \/ Continue(th)

----------------------------------------------------------------------------
(* The clients cancel timers by the IDs they have. *)

Revoke(t) == revoked' = revoked \cup ({t} \ ran)

cancel_and_erase(t) ==  \* fault: the entries erased at once
  /\ returned[t] # None
  /\ timer_handles' = [timer_handles EXCEPT ![returned[t]] = None]
  /\ Revoke(t)
  /\ UNCHANGED <<next_id, timer_callbacks, cancelled_timers, fired_timers, armed, id_vars,
                 current, ran>>

cancel_if_armed(t) ==  \* fault: a timer that waits in the queue taken for gone
  /\ returned[t] # None
  /\ cancelled_timers' = cancelled_timers \cup {id \in {returned[t]} : t \in armed}
  /\ Revoke(t)
  /\ UNCHANGED <<next_id, timer_handles, timer_callbacks, fired_timers, armed, id_vars,
                 current, ran>>

\* cancel_timer marks the ID, whatever has become of its timer, as long as the
\* callback thread has not erased it.
cancel_timer(t) ==
  /\ returned[t] # None
  /\ cancelled_timers' =
       cancelled_timers \cup {id \in {returned[t]} : timer_handles[id] # None}
  /\ Revoke(t)
  /\ UNCHANGED <<next_id, timer_handles, timer_callbacks, fired_timers, armed, id_vars,
                 current, ran>>

----------------------------------------------------------------------------
(* The signal handler and the callback thread. *)

\* The handler runs in whichever thread takes the signal; the queue keeps the
\* order of one thread only.
timer_signal_handler(t) ==
  /\ t \in armed
  /\ armed' = armed \ {t}
  /\ fired_timers' = fired_timers \cup {t}
  /\ UNCHANGED <<next_id, timer_handles, timer_callbacks, cancelled_timers, id_vars,
                 current, ran, revoked>>

\* The thread takes a timer from the queue.  If its ID is not cancelled, the lock
\* is released and the callback starts ...
StartCallback(t) ==
  /\ current = None
  /\ t \in fired_timers /\ sival_int[t] \notin cancelled_timers
  /\ timer_callbacks[sival_int[t]] # None
  /\ fired_timers' = fired_timers \ {t}
  /\ current' = t
  /\ ran' = ran \cup {timer_callbacks[sival_int[t]]}
  /\ UNCHANGED <<next_id, timer_handles, timer_callbacks, cancelled_timers, armed, id_vars,
                 revoked>>

\* The entries of an ID are erased and its timer deleted.
Erase(id) ==
  /\ timer_handles[id] # None
  /\ timer_callbacks' = [timer_callbacks EXCEPT ![id] = None]
  /\ timer_handles' = [timer_handles EXCEPT ![id] = None]
  /\ armed' = armed \ {timer_handles[id]}

\* ... to be followed by the erasure of the timer ...
FinishCallback ==
  /\ current # None
  /\ At(callback_thread, "idle")
  /\ Erase(sival_int[current])
  /\ current' = None
  /\ UNCHANGED <<next_id, cancelled_timers, fired_timers, id_vars, ran, revoked>>

\* ... which is all that happens to a cancelled one.
DiscardCancelled(t) ==
  /\ current = None
  /\ t \in fired_timers /\ sival_int[t] \in cancelled_timers
  /\ fired_timers' = fired_timers \ {t}
  /\ cancelled_timers' = cancelled_timers \ {sival_int[t]}
  /\ Erase(sival_int[t])
  /\ UNCHANGED <<next_id, id_vars, current, ran, revoked>>

callback_thread_main ==
  \/ \E t \in fired_timers : StartCallback(t) \/ DiscardCancelled(t)
  \/ FinishCallback

TimersNext ==
  \/ \E th \in Threads : register_timer(th)
  \/ \E t \in Timer : cancel_timer(t)
  \/ \E t \in armed : timer_signal_handler(t)
  \/ callback_thread_main

TimersSpec == TimersInit /\ [][TimersNext]_timer_vars

\* The kernel delivers the signals of armed timers and schedules the callback
\* thread, and callbacks return.
FairTimersSpec ==
  /\ TimersSpec
  /\ \A t \in TimerId : WF_timer_vars(timer_signal_handler(t))
  /\ WF_timer_vars(callback_thread_main)
  /\ WF_timer_vars(Continue(callback_thread))

----------------------------------------------------------------------------
(* Properties. *)

TypeOK ==
  /\ next_id \in 0..MaxTimers /\ created \in 0..MaxTimers
  /\ timer_handles \in [TimerId -> Timer \cup {None}]
  /\ timer_callbacks \in [TimerId -> Timer \cup {None}]
  /\ cancelled_timers \in SUBSET TimerId
  /\ fired_timers \in SUBSET Timer /\ armed \in SUBSET Timer
  /\ sival_int \in [TimerId -> TimerId \cup {None}]
  /\ asked \in [TimerId -> Delays \cup {None}]
  /\ returned \in [TimerId -> TimerId \cup {None}]
  /\ pc \in [Threads -> {"idle", "handles", "callbacks", "settime", "return", "increment"}]
  /\ own \in [Threads -> Timer \cup {None}]
  /\ read \in [Threads -> TimerId \cup {None}]
  /\ current \in Timer \cup {None}
  /\ ran \in SUBSET Timer /\ revoked \in SUBSET Timer

\* "Cancels a timer that has not yet expired, so that it will take no action
\* when it expires" (TimerManager.h:34-35), however expiry, cancellation and
\* the callback thread interleave.  The code does better: it is enough that
\* the callback has not started.
RevokedNeverRuns == ran \cap revoked = {}

\* A timer on its way to the callback thread has its own entries in both maps:
\* timer_callbacks.at() and timer_handles.at() in callback_thread_main never
\* throw, and never find those of another timer.
EntriesOutliveTimers ==
  \A t \in OnTheirWay :
    timer_handles[sival_int[t]] = t /\ timer_callbacks[sival_int[t]] = t

\* "A unique identifier for this timer, which will allow it to be cancelled
\* later" (TimerManager.h:29-30).  Violated if threads may Overlap.
IdentifiersUnique ==
  \A t, u \in Timer : returned[t] # None /\ returned[t] = returned[u] => t = u

\* "Creates a new timer that will invoke the specified function after a delay"
\* (TimerManager.h:25-26): a timer runs or is cancelled.  Violated by those of
\* a second and more.
TimersFire ==
  \A t \in TimerId : asked[t] # None ~> t \in ran \cup revoked

\* Those of less than a second do, whatever the others are.
BriefTimersFire ==
  \A t \in TimerId : asked[t] \in 1..999 ~> t \in ran \cup revoked

Contract == INSTANCE TimerManager
  WITH next_id <- created,
       pending <- {sival_int[t] : t \in Timer \ (ran \cup revoked)},
       ran <- {sival_int[t] : t \in ran}

\* The threads together implement TimerManager.h: every timer has a number of
\* its own, and none runs twice, or after it was cancelled, or unregistered.
KeepsContract == Contract!Spec

=============================================================================
