---------------------------- MODULE PlatformProofs ----------------------------
(***************************************************************************)
(* Proofs about what is around the meters: the utility's client, and the   *)
(* timers and TCP connections of the Linux build.                          *)
(*                                                                         *)
(* A query of the utility can always be ended by its timeout, and queries  *)
(* that are started one at a time complete once and leave no timer behind: *)
(* for every number of groups, tolerated failures and queries.             *)
(*                                                                         *)
(* While no thread calls register_timer during the call of another, timers *)
(* of the Linux build do not share an ID, a cancelled one never runs, and  *)
(* the callback thread finds the map entries of the timer it deals with:   *)
(* for every number of threads and timers and every delay.                 *)
(*                                                                         *)
(* Messages between processes that connect, send and stop are handled      *)
(* whole and in order up to the first short read of their connection: for  *)
(* any number of processes, messages and pieces of a message, and buffers  *)
(* of any size.                                                            *)
(***************************************************************************)
EXTENDS UtilityClient, LinuxTimerManager, TcpNetwork, SequenceTheorems, TLAPS

----------------------------------------------------------------------------
(* The utility. *)

\* The cases of a step that changes anything, with the choices of its inputs
\* made.
LEMMA StepCases ==
  ASSUME [Next]_vars
  PROVE  \/ StartQuery
         \/ StartQueries
         \/ /\ UNCHANGED <<reported, batched>>
            /\ \E m \in net :
                 /\ net' = net \ {m}
                 /\ LateResult(m) \/ PartialResult(m) \/ LastResult(m) \/ LastResultInBatch(m)
         \/ \E t \in timers : TimerFires(t)
         \/ RootReports
         \/ UNCHANGED vars
  BY DEF Next, HandleResult

----------------------------------------------------------------------------
(* The timeout of the running query. *)

\* Every path that cancels or uses up the timer of a query ends that query or
\* registers another timer; a timer the batch has left behind cannot hurt.
THEOREM TimeoutCovered == Spec => []RunningQueryHasTimer
  <1>1. Init => RunningQueryHasTimer
    BY DEF Init, RunningQueryHasTimer, Running
  <1>2. RunningQueryHasTimer /\ [Next]_vars => RunningQueryHasTimer'
    <2> SUFFICES ASSUME RunningQueryHasTimer, [Next]_vars
                 PROVE  RunningQueryHasTimer'
      OBVIOUS
    <2> USE DEF RunningQueryHasTimer, Running
    <2>1. CASE StartQuery
      BY <2>1 DEF StartQuery, RegisterTimer
    <2>2. CASE StartQueries
      BY <2>2 DEF StartQueries, RegisterTimer
    <2>3. ASSUME NEW m \in net, LateResult(m)
          PROVE  RunningQueryHasTimer'
      BY <2>3 DEF LateResult
    <2>4. ASSUME NEW m \in net, PartialResult(m)
          PROVE  RunningQueryHasTimer'
      BY <2>4 DEF PartialResult, RegisterTimer
    <2>5. ASSUME NEW m \in net, LastResult(m)
          PROVE  RunningQueryHasTimer'
      BY <2>5 DEF LastResult, FinishQuery
    <2>6. ASSUME NEW m \in net, LastResultInBatch(m)
          PROVE  RunningQueryHasTimer'
      BY <2>6 DEF LastResultInBatch
    <2>7. ASSUME NEW t \in timers, TimerFires(t)
          PROVE  RunningQueryHasTimer'
      BY <2>7 DEF TimerFires, FinishQuery, RegisterTimer
    <2>8. CASE RootReports
      BY <2>8 DEF RootReports
    <2>9. CASE UNCHANGED vars
      BY <2>9 DEF vars
    <2> QED BY <2>1, <2>2, <2>3, <2>4, <2>5, <2>6, <2>7, <2>8, <2>9, StepCases
  <1> QED BY <1>1, <1>2, PTL DEF Spec

----------------------------------------------------------------------------
(* Queries one at a time: nobody has called start_queries. *)

\* How often query q has ended, at most.
Due(q) == IF q < query_num \/ (q = query_num /\ query_finished) THEN 1 ELSE 0

\* The part of the state that counts, before start_queries is called: no query
\* waits, no timer outlives its query, a query that is running has not ended
\* before, and no result comes before the first query.
SingleInv ==
  /\ ~batched
  /\ query_num \in -1..MaxQuery
  /\ query_finished \in BOOLEAN
  /\ ended \in [Query -> Nat]
  /\ pending_batch_queries = {}
  /\ query_num = -1 => net = {}
  /\ NoStrayTimer
  /\ \A q \in Query : ended[q] <= Due(q)

\* No query has ended at the start.
LEMMA InitSingleInv == Init => SingleInv
  <1> SUFFICES ASSUME Init PROVE SingleInv
    OBVIOUS
  <1>1. ended \in [Query -> Nat] /\ \A q \in Query : ended[q] = 0
    BY DEF Init
  <1>2. \A q \in Query : ended[q] <= Due(q)
    BY <1>1 DEF Due
  <1>3. query_num = -1 /\ -1 \in -1..MaxQuery
    BY UtilityAssumption DEF Init
  <1> QED BY <1>1, <1>2, <1>3 DEF Init, SingleInv, NoStrayTimer, Running

\* end_query of a running query: it is done, and this is the first time.
LEMMA EndKeepsCount ==
  ASSUME SingleInv, Running, FinishQuery, NEW results, StoreResult(results)
  PROVE  /\ ended' \in [Query -> Nat]
         /\ \A q \in Query : ended'[q] <= Due(q)'
  <1>1. /\ query_num \in Query /\ query_num' = query_num
        /\ query_finished = FALSE /\ query_finished' = TRUE
    BY UtilityAssumption DEF SingleInv, Running, FinishQuery, Query
  <1>2. ended' = [ended EXCEPT ![query_num] = ended[query_num] + 1]
    BY DEF StoreResult
  <1>3. ended[query_num] = 0
    BY <1>1 DEF SingleInv, Due
  <1>4. ended' \in [Query -> Nat]
    <2>1. ended[query_num] + 1 \in Nat
      BY <1>3
    <2> QED BY <1>2, <2>1 DEF SingleInv
  <1>5. ASSUME NEW q \in Query
        PROVE  ended'[q] <= Due(q)'
    <2>1. q \in Int /\ query_num \in Int
      BY DEF Query, SingleInv
    <2>2. CASE q = query_num
      BY <1>1, <1>2, <1>3, <2>2 DEF SingleInv, Due
    <2>3. CASE q # query_num
      BY <1>1, <1>2, <2>1, <2>3 DEF SingleInv, Due
    <2> QED BY <2>2, <2>3
  <1> QED BY <1>4, <1>5

\* Once start_queries has been called, it has been called.
LEMMA BatchedStays == batched /\ [Next]_vars => batched'
  BY StepCases DEF StartQuery, StartQueries, TimerFires, RootReports, vars

\* Any step but start_queries keeps the invariant.
LEMMA NextSingleInv ==
  ASSUME SingleInv, [Next]_vars
  PROVE  SingleInv' \/ batched'
  <1> SUFFICES ASSUME ~batched' PROVE SingleInv'
    OBVIOUS
  <1> USE DEF SingleInv, NoStrayTimer, Running
  <1>1. CASE StartQuery
    <2>1. /\ query_num' = query_num + 1 /\ query_finished' = FALSE
          /\ ended' = ended /\ pending_batch_queries' = {}
          /\ query_num < MaxQuery
          /\ timers = {} /\ timers' = {query_timeout_timer'}
      BY <1>1 DEF StartQuery, BeginQuery, RegisterTimer, Idle
    <2>2. ASSUME NEW q \in Query
          PROVE  ended'[q] <= Due(q)'
      <3>1. q \in Int /\ query_num \in Int /\ (query_num = -1 \/ query_finished)
        BY <1>1 DEF Query, StartQuery, Idle
      <3>2. CASE q <= query_num
        <4>1. Due(q) = 1 /\ Due(q)' = 1
          BY <2>1, <3>1, <3>2 DEF Due, Query
        <4> QED BY <2>1, <4>1
      <3>3. CASE q > query_num
        <4>1. Due(q) = 0 /\ Due(q)' = 0
          BY <2>1, <3>1, <3>3 DEF Due
        <4> QED BY <2>1, <4>1
      <3> QED BY <3>1, <3>2, <3>3
    <2>3. query_num' \in -1..MaxQuery /\ query_num' >= 0 /\ query_num' # -1
      BY <2>1, UtilityAssumption
    <2>4. Running' /\ NoStrayTimer'
      BY <2>1, <2>3
    <2>5. /\ query_finished' \in BOOLEAN
          /\ ended' \in [Query -> Nat]
          /\ query_num' = -1 => net' = {}
      BY <2>1, <2>3
    <2> QED BY <2>1, <2>2, <2>3, <2>4, <2>5
  <1>2. CASE StartQueries
    BY <1>2 DEF StartQueries
  <1>3. ASSUME NEW m \in net, LateResult(m), net' = net \ {m}
        PROVE  SingleInv'
    BY <1>3 DEF LateResult, Due
  <1>4. ASSUME NEW m \in net, PartialResult(m), net' = net \ {m}
        PROVE  SingleInv'
    BY <1>4 DEF PartialResult, RegisterTimer, Due
  <1>5. ASSUME NEW m \in net, LastResult(m), net' = net \ {m}
        PROVE  SingleInv'
    <2>1. Running /\ FinishQuery /\ StoreResult(curr_query_results \cup {m})
      BY <1>5 DEF LastResult
    <2> QED BY <1>5, <2>1, EndKeepsCount DEF LastResult, FinishQuery
  <1>6. ASSUME NEW m \in net, LastResultInBatch(m)
        PROVE  FALSE
    BY <1>6 DEF LastResultInBatch, ContinueBatch
  <1>7. ASSUME NEW t \in timers, TimerFires(t)
        PROVE  SingleInv'
    <2>1. Running /\ FinishQuery /\ StoreResult(curr_query_results)
      BY <1>7 DEF TimerFires, ContinueBatch
    <2> QED BY <1>7, <2>1, EndKeepsCount DEF TimerFires, FinishQuery, ContinueBatch
  <1>8. CASE RootReports
    BY <1>8 DEF RootReports, Due
  <1>9. CASE UNCHANGED vars
    BY <1>9 DEF vars, Due
  <1> QED BY <1>1, <1>2, <1>3, <1>4, <1>5, <1>6, <1>7, <1>8, <1>9, StepCases

\* Started one at a time, queries complete at most once: no late message and
\* no timer ends a query for a second time.
THEOREM SingleQueriesCompleteOnce == Spec => []CompletesOnce
  <1>1. (batched \/ SingleInv) /\ [Next]_vars => (batched \/ SingleInv)'
    BY NextSingleInv, BatchedStays
  <1>2. batched \/ SingleInv => CompletesOnce
    BY DEF SingleInv, CompletesOnce, Due
  <1> QED BY <1>1, <1>2, InitSingleInv, PTL DEF Spec

\* Started one at a time, queries leave no timer behind, although start_query
\* cancels none.
THEOREM SingleQueriesLeaveNoTimer == Spec => []NoStrayTimer
  <1>1. (batched \/ SingleInv) /\ [Next]_vars => (batched \/ SingleInv)'
    BY NextSingleInv, BatchedStays
  <1>2. batched \/ SingleInv => NoStrayTimer
    BY DEF SingleInv, NoStrayTimer
  <1> QED BY <1>1, <1>2, InitSingleInv, PTL DEF Spec

----------------------------------------------------------------------------
(* The timers of the Linux build, while no thread calls register_timer during *)
(* the call of another.                                                       *)

\* One thread at most is in register_timer.
OneRegisters ==
  \A a, b \in Threads : pc[a] # "idle" /\ pc[b] # "idle" => a = b

\* Every use of next_id, in the signal, the maps and the return, is then one
\* number, and the entries of a number are those of its timer.
NumbersAgree ==
  /\ \A t \in Timer : sival_int[t] = t
  /\ \A t \in TimerId : returned[t] \in {None, t}
  /\ (\A th \in Threads : pc[th] = "idle") => next_id = created
  /\ \A th \in Threads :
       /\ pc[th] # "idle" => own[th] = next_id /\ created = next_id + 1
       /\ pc[th] = "increment" => read[th] = next_id
  /\ \A t \in TimerId : t >= created => returned[t] = None
  /\ \A id \in TimerId : timer_handles[id] \in {None, id} /\ timer_callbacks[id] \in {None, id}

\* A timer that is being registered: nobody has its number, and it has its
\* entries before it is armed.
RegisteringInv ==
  \A th \in Threads :
    /\ pc[th] # "idle" => own[th] \notin revoked /\ returned[own[th]] = None
    /\ pc[th] \in {"handles", "callbacks", "settime"} => own[th] \notin OnTheirWay \cup ran
    /\ pc[th] \in {"callbacks", "settime"} => timer_handles[own[th]] = own[th]
    /\ pc[th] = "settime" => timer_callbacks[own[th]] = own[th]

\* A timer is on its way once, and one that has run is no longer.
RanIsOver == armed \cap fired_timers = {} /\ ran \cap (armed \cup fired_timers) = {}

\* A revoked one that still is carries its mark.
RevokedIsMarked == revoked \cap (armed \cup fired_timers) \subseteq cancelled_timers

\* The timer whose callback is running was not revoked.
CurrentHasRun == current # None => current \in ran

WayInv ==
  /\ RanIsOver
  /\ RevokedIsMarked
  /\ CurrentHasRun
  /\ RevokedNeverRuns
  /\ EntriesOutliveTimers

TimerInv == TypeOK /\ OneRegisters /\ NumbersAgree /\ RegisteringInv /\ WayInv

\* Nothing is registered at the start.
LEMMA InitTimerInv == TimersInit => TimerInv
  BY TimerAssumption
     DEF TimersInit, TimerInv, TypeOK, OneRegisters, NumbersAgree, RegisteringInv, WayInv,
         RanIsOver, RevokedIsMarked, CurrentHasRun, RevokedNeverRuns, EntriesOutliveTimers,
         OnTheirWay, Timer, TimerId, None

\* The cases of a step, with the choices of its inputs made.
LEMMA TimerStepCases ==
  ASSUME [TimersNext]_timer_vars
  PROVE  \/ \E th \in Threads : Create(th)
         \/ \E th \in Threads : StoreHandle(th)
         \/ \E th \in Threads : StoreCallback(th)
         \/ \E th \in Threads : \E d \in Delays : SetTime(th, d)
         \/ \E th \in Threads : ReadId(th)
         \/ \E th \in Threads : IncrementId(th)
         \/ \E t \in Timer : cancel_timer(t)
         \/ \E t \in armed : timer_signal_handler(t)
         \/ \E t \in fired_timers : StartCallback(t)
         \/ \E t \in fired_timers : DiscardCancelled(t)
         \/ FinishCallback
         \/ UNCHANGED timer_vars
  BY DEF TimersNext, register_timer, Continue, callback_thread_main

\* Every step of registering threads, clients, signals and the callback thread
\* preserves the invariant.
LEMMA NextTimerInv ==
  ASSUME ~ Overlap
  PROVE  TimerInv /\ [TimersNext]_timer_vars => TimerInv'
  <1> SUFFICES ASSUME TimerInv, [TimersNext]_timer_vars PROVE TimerInv'
    OBVIOUS
  <1> USE TimerAssumption DEF TimerInv
  <1>0. TypeOK /\ OneRegisters /\ NumbersAgree /\ RegisteringInv /\ WayInv
    OBVIOUS
  <1>b. \A th \in Threads : pc[th] # "idle" =>
          /\ own[th] = next_id /\ own[th] \in Timer /\ own[th] \in TimerId
          /\ pc[th] = "increment" => read[th] = next_id
    BY DEF NumbersAgree, TypeOK, Timer, TimerId
  <1>t. \A t \in Timer : t \in TimerId /\ t # None
    BY DEF TypeOK, Timer, TimerId, None
  <1>1. ASSUME NEW th \in Threads, Create(th)
        PROVE  TimerInv'
    <2>a. next_id = created /\ created \in 0..(MaxTimers - 1)
      BY <1>1 DEF Create, NumbersAgree, At, TypeOK
    <2>b. Timer' = Timer \cup {created} /\ created' \in 0..MaxTimers
      BY <1>1, <2>a DEF Create, Timer
    <2>1. TypeOK'
      BY <1>1, <2>a, <2>b DEF Create, TypeOK, TimerId, At, Goto
    <2>2. OneRegisters'
      BY <1>1 DEF Create, OneRegisters, TypeOK, At, Goto
    <2>3. NumbersAgree'
      <3>1. \A t \in Timer' : sival_int'[t] = t
        BY <1>1, <2>a, <2>b, <1>t DEF Create, NumbersAgree, TypeOK, TimerId
      <3>2. \A t \in TimerId : returned'[t] \in {None, t}
        BY <1>1, <2>a, <2>b, <1>t DEF Create, NumbersAgree
      <3>3. /\ \A u \in Threads : pc'[u] # "idle" => u = th
            /\ pc'[th] = "handles" /\ own'[th] = next_id'
        BY <1>1, <2>a DEF Create, TypeOK, At, Goto
      <3>4. \A u \in Threads : /\ pc'[u] # "idle" => own'[u] = next_id' /\ created' = next_id' + 1
                               /\ pc'[u] = "increment" => read'[u] = next_id'
        BY <1>1, <2>a, <3>3 DEF Create
      <3>5. /\ \A u \in TimerId : u >= created' => returned'[u] = None
            /\ ~ \A u \in Threads : pc'[u] = "idle"
            /\ UNCHANGED <<timer_handles, timer_callbacks>>
        BY <1>1, <2>a, <3>3 DEF Create, NumbersAgree, TimerId
      <3> QED
        BY <3>1, <3>2, <3>4, <3>5 DEF NumbersAgree
    <2>c. created \notin Timer /\ created # None
      BY <2>a DEF Timer, None
    <2>d. OnTheirWay \cup ran \cup revoked \subseteq Timer
      BY DEF OnTheirWay, TypeOK
    <2>e. /\ \A u \in Threads : pc'[u] # "idle" => u = th
          /\ pc'[th] = "handles" /\ own'[th] = created
          /\ UNCHANGED <<current, armed, fired_timers, ran, revoked, returned>>
      BY <1>1, <2>a DEF Create, TypeOK, At, Goto
    <2>f. returned[created] = None
      BY <2>a DEF NumbersAgree, TimerId
    <2>4. RegisteringInv'
      BY <2>c, <2>d, <2>e, <2>f DEF RegisteringInv, OnTheirWay
    <2>5. WayInv'
      BY <1>1 DEF Create, OneRegisters, NumbersAgree, RegisteringInv, WayInv, RanIsOver,
         RevokedIsMarked, CurrentHasRun, RevokedNeverRuns, EntriesOutliveTimers, OnTheirWay,
         TypeOK, Timer, TimerId, None, At, Goto
    <2> QED BY <2>1, <2>2, <2>3, <2>4, <2>5
  <1>2. ASSUME NEW th \in Threads, StoreHandle(th)
        PROVE  TimerInv'
    <2>1. TypeOK'
      BY <1>2 DEF StoreHandle, TypeOK, Timer, TimerId, None, At, Goto
    <2>2. OneRegisters'
      BY <1>2 DEF StoreHandle, OneRegisters, TypeOK, At, Goto
    <2>3. NumbersAgree'
      BY <1>2 DEF StoreHandle, OneRegisters, NumbersAgree, TypeOK, Timer, TimerId, None, At,
         Goto
    <2>4. RegisteringInv'
      BY <1>2 DEF StoreHandle, OneRegisters, NumbersAgree, RegisteringInv, OnTheirWay,
         TypeOK, Timer, TimerId, None, At, Goto
    <2>5. WayInv'
      BY <1>2 DEF StoreHandle, OneRegisters, NumbersAgree, RegisteringInv, WayInv, RanIsOver,
         RevokedIsMarked, CurrentHasRun, RevokedNeverRuns, EntriesOutliveTimers, OnTheirWay,
         TypeOK, Timer, TimerId, None, At, Goto
    <2> QED BY <2>1, <2>2, <2>3, <2>4, <2>5
  <1>3. ASSUME NEW th \in Threads, StoreCallback(th)
        PROVE  TimerInv'
    <2>1. TypeOK'
      BY <1>3 DEF StoreCallback, TypeOK, Timer, TimerId, None, At, Goto
    <2>2. OneRegisters'
      BY <1>3 DEF StoreCallback, OneRegisters, TypeOK, At, Goto
    <2>3. NumbersAgree'
      BY <1>3 DEF StoreCallback, OneRegisters, NumbersAgree, TypeOK, Timer, TimerId, None,
         At, Goto
    <2>4. RegisteringInv'
      BY <1>3 DEF StoreCallback, OneRegisters, NumbersAgree, RegisteringInv, OnTheirWay,
         TypeOK, Timer, TimerId, None, At, Goto
    <2>5. WayInv'
      BY <1>3 DEF StoreCallback, OneRegisters, NumbersAgree, RegisteringInv, WayInv,
         RanIsOver, RevokedIsMarked, CurrentHasRun, RevokedNeverRuns, EntriesOutliveTimers,
         OnTheirWay, TypeOK, Timer, TimerId, None, At, Goto
    <2> QED BY <2>1, <2>2, <2>3, <2>4, <2>5
  <1>4. ASSUME NEW th \in Threads, NEW d \in Delays, SetTime(th, d)
        PROVE  TimerInv'
    <2>1. TypeOK'
      BY <1>4, <1>b DEF SetTime, TypeOK, Timer, At, Goto
    <2>2. OneRegisters'
      BY <1>4 DEF SetTime, OneRegisters, TypeOK, At, Goto
    <2>3. NumbersAgree'
      BY <1>4 DEF SetTime, OneRegisters, NumbersAgree, TypeOK, Timer, TimerId, None, At, Goto
    <2>4. RegisteringInv'
      BY <1>4 DEF SetTime, OneRegisters, NumbersAgree, RegisteringInv, OnTheirWay, TypeOK,
         Timer, TimerId, None, At, Goto
    <2>a. own[th] \in Timer /\ own[th] \notin OnTheirWay \cup ran \cup revoked
          /\ timer_handles[own[th]] = own[th] /\ timer_callbacks[own[th]] = own[th]
          /\ sival_int[own[th]] = own[th]
      BY <1>4, <1>b DEF SetTime, RegisteringInv, NumbersAgree, At
    <2>b. armed \subseteq armed' /\ armed' \subseteq armed \cup {own[th]}
          /\ UNCHANGED <<fired_timers, current, ran, revoked, cancelled_timers, timer_handles,
                         timer_callbacks, sival_int>>
      BY <1>4 DEF SetTime
    <2>c. RanIsOver' /\ RevokedIsMarked' /\ CurrentHasRun' /\ RevokedNeverRuns'
      BY <2>a, <2>b DEF WayInv, RanIsOver, RevokedIsMarked, CurrentHasRun, RevokedNeverRuns,
         OnTheirWay
    <2>d. EntriesOutliveTimers'
      BY <2>a, <2>b DEF WayInv, EntriesOutliveTimers, OnTheirWay
    <2>5. WayInv'
      BY <2>c, <2>d DEF WayInv
    <2> QED BY <2>1, <2>2, <2>3, <2>4, <2>5
  <1>5. ASSUME NEW th \in Threads, ReadId(th)
        PROVE  TimerInv'
    <2>1. TypeOK'
      BY <1>5, <1>b DEF ReadId, TypeOK, Timer, At, Goto
    <2>2. OneRegisters'
      BY <1>5 DEF ReadId, OneRegisters, TypeOK, At, Goto
    <2>3. NumbersAgree'
      BY <1>5 DEF ReadId, OneRegisters, NumbersAgree, TypeOK, Timer, TimerId, None, At, Goto
    <2>4. RegisteringInv'
      BY <1>5 DEF ReadId, OneRegisters, NumbersAgree, RegisteringInv, OnTheirWay, TypeOK,
         Timer, TimerId, None, At, Goto
    <2>5. WayInv'
      BY <1>5 DEF ReadId, OneRegisters, NumbersAgree, RegisteringInv, WayInv, RanIsOver,
         RevokedIsMarked, CurrentHasRun, RevokedNeverRuns, EntriesOutliveTimers, OnTheirWay,
         TypeOK, Timer, TimerId, None, At, Goto
    <2> QED BY <2>1, <2>2, <2>3, <2>4, <2>5
  <1>6. ASSUME NEW th \in Threads, IncrementId(th)
        PROVE  TimerInv'
    <2>1. TypeOK'
      <3>1. next_id' = next_id + 1 /\ created = next_id + 1 /\ read[th] \in TimerId
        BY <1>6, <1>b DEF IncrementId, NumbersAgree, At
      <3> QED
        BY <1>6, <3>1 DEF IncrementId, TypeOK, Timer, At, Goto
    <2>2. OneRegisters'
      BY <1>6 DEF IncrementId, OneRegisters, TypeOK, At, Goto
    <2>3. NumbersAgree'
      BY <1>6 DEF IncrementId, OneRegisters, NumbersAgree, TypeOK, Timer, TimerId, None, At,
         Goto
    <2>4. RegisteringInv'
      BY <1>6 DEF IncrementId, OneRegisters, NumbersAgree, RegisteringInv, OnTheirWay,
         TypeOK, Timer, TimerId, None, At, Goto
    <2>5. WayInv'
      BY <1>6 DEF IncrementId, OneRegisters, NumbersAgree, RegisteringInv, WayInv, RanIsOver,
         RevokedIsMarked, CurrentHasRun, RevokedNeverRuns, EntriesOutliveTimers, OnTheirWay,
         TypeOK, Timer, TimerId, None, At, Goto
    <2> QED BY <2>1, <2>2, <2>3, <2>4, <2>5
  <1>7. ASSUME NEW t \in Timer, cancel_timer(t)
        PROVE  TimerInv'
    <2>1. TypeOK'
      <3>1. returned[t] \in TimerId
        BY <1>7, <1>t DEF cancel_timer, TypeOK
      <3> QED
        BY <1>7, <3>1 DEF cancel_timer, Revoke, id_vars, TypeOK, Timer
    <2>2. OneRegisters'
      BY <1>7 DEF cancel_timer, Revoke, id_vars, OneRegisters, TypeOK, At, Goto
    <2>3. NumbersAgree'
      BY <1>7 DEF cancel_timer, Revoke, id_vars, OneRegisters, NumbersAgree, TypeOK, Timer,
         TimerId, None, At, Goto
    <2>4. RegisteringInv'
      BY <1>7 DEF cancel_timer, Revoke, id_vars, OneRegisters, NumbersAgree, RegisteringInv,
         OnTheirWay, TypeOK, Timer, TimerId, None, At, Goto
    <2>5. WayInv'
      BY <1>7 DEF cancel_timer, Revoke, id_vars, OneRegisters, NumbersAgree, RegisteringInv,
         WayInv, RanIsOver, RevokedIsMarked, CurrentHasRun, RevokedNeverRuns,
         EntriesOutliveTimers, OnTheirWay, TypeOK, Timer, TimerId, None, At, Goto
    <2> QED BY <2>1, <2>2, <2>3, <2>4, <2>5
  <1>8. ASSUME NEW t \in armed, timer_signal_handler(t)
        PROVE  TimerInv'
    <2>1. TypeOK'
      BY <1>8 DEF timer_signal_handler, id_vars, TypeOK, Timer, TimerId, None, At, Goto
    <2>2. OneRegisters'
      BY <1>8 DEF timer_signal_handler, id_vars, OneRegisters, TypeOK, At, Goto
    <2>3. NumbersAgree'
      BY <1>8 DEF timer_signal_handler, id_vars, OneRegisters, NumbersAgree, TypeOK, Timer,
         TimerId, None, At, Goto
    <2>4. RegisteringInv'
      BY <1>8 DEF timer_signal_handler, id_vars, OneRegisters, NumbersAgree, RegisteringInv,
         OnTheirWay, TypeOK, Timer, TimerId, None, At, Goto
    <2>5. WayInv'
      BY <1>8 DEF timer_signal_handler, id_vars, OneRegisters, NumbersAgree, RegisteringInv,
         WayInv, RanIsOver, RevokedIsMarked, CurrentHasRun, RevokedNeverRuns,
         EntriesOutliveTimers, OnTheirWay, TypeOK, Timer, TimerId, None, At, Goto
    <2> QED BY <2>1, <2>2, <2>3, <2>4, <2>5
  <1>9. ASSUME NEW t \in fired_timers, StartCallback(t)
        PROVE  TimerInv'
    <2>a. t \in Timer /\ t \in TimerId /\ t # None /\ sival_int[t] = t /\ timer_callbacks[t] = t
      BY <1>9, <1>t DEF StartCallback, NumbersAgree, TypeOK
    <2>b. ran' = ran \cup {t}
      BY <1>9, <2>a DEF StartCallback
    <2>1. TypeOK'
      BY <1>9, <2>a, <2>b DEF StartCallback, id_vars, TypeOK, Timer
    <2>2. OneRegisters'
      BY <1>9 DEF StartCallback, id_vars, OneRegisters, TypeOK, At, Goto
    <2>3. NumbersAgree'
      BY <1>9 DEF StartCallback, id_vars, OneRegisters, NumbersAgree, TypeOK, Timer, TimerId,
         None, At, Goto
    <2>4. RegisteringInv'
      BY <1>9 DEF StartCallback, id_vars, OneRegisters, NumbersAgree, RegisteringInv,
         OnTheirWay, TypeOK, Timer, TimerId, None, At, Goto
    <2>c. t \notin armed /\ t \notin revoked
      BY <1>9, <2>a DEF StartCallback, WayInv, RanIsOver, RevokedIsMarked
    <2>d. RanIsOver' /\ RevokedIsMarked' /\ CurrentHasRun' /\ RevokedNeverRuns'
      BY <1>9, <2>b, <2>c DEF StartCallback, id_vars, WayInv, RanIsOver, RevokedIsMarked,
         CurrentHasRun, RevokedNeverRuns
    <2>e. EntriesOutliveTimers'
      BY <1>9, <2>a DEF StartCallback, id_vars, WayInv, EntriesOutliveTimers, OnTheirWay
    <2>5. WayInv'
      BY <2>d, <2>e DEF WayInv
    <2> QED BY <2>1, <2>2, <2>3, <2>4, <2>5
  <1>10. ASSUME NEW t \in fired_timers, DiscardCancelled(t)
        PROVE  TimerInv'
    <2>1. TypeOK'
      BY <1>10 DEF DiscardCancelled, Erase, id_vars, TypeOK, Timer, TimerId, None, At, Goto
    <2>2. OneRegisters'
      BY <1>10 DEF DiscardCancelled, Erase, id_vars, OneRegisters, TypeOK, At, Goto
    <2>3. NumbersAgree'
      BY <1>10 DEF DiscardCancelled, Erase, id_vars, OneRegisters, NumbersAgree, TypeOK,
         Timer, TimerId, None, At, Goto
    <2>4. RegisteringInv'
      BY <1>10 DEF DiscardCancelled, Erase, id_vars, OneRegisters, NumbersAgree,
         RegisteringInv, OnTheirWay, TypeOK, Timer, TimerId, None, At, Goto
    <2>a. t \in Timer /\ t \in TimerId /\ t # None /\ sival_int[t] = t /\ timer_handles[t] = t
      BY <1>10, <1>t DEF DiscardCancelled, WayInv, EntriesOutliveTimers, OnTheirWay,
         NumbersAgree, TypeOK
    <2>b. t \notin armed /\ armed' = armed /\ current = None
      BY <1>10, <2>a DEF DiscardCancelled, Erase, WayInv, RanIsOver
    <2>c. RanIsOver' /\ RevokedIsMarked' /\ CurrentHasRun' /\ RevokedNeverRuns'
      BY <1>10, <2>a, <2>b DEF DiscardCancelled, WayInv, RanIsOver, RevokedIsMarked,
         CurrentHasRun, RevokedNeverRuns
    <2>d. \A u \in OnTheirWay' : u \in OnTheirWay /\ u \in Timer /\ u # t
      BY <1>10, <2>b DEF DiscardCancelled, OnTheirWay, TypeOK
    <2>e. EntriesOutliveTimers'
      BY <1>10, <2>a, <2>d, <1>t DEF DiscardCancelled, Erase, id_vars, WayInv,
         EntriesOutliveTimers,
         NumbersAgree, TypeOK
    <2>5. WayInv'
      BY <2>c, <2>e DEF WayInv
    <2> QED BY <2>1, <2>2, <2>3, <2>4, <2>5
  <1>11. ASSUME FinishCallback
        PROVE  TimerInv'
    <2>1. TypeOK'
      BY <1>11 DEF FinishCallback, Erase, id_vars, TypeOK, Timer, TimerId, None, At, Goto
    <2>2. OneRegisters'
      BY <1>11 DEF FinishCallback, Erase, id_vars, OneRegisters, TypeOK, At, Goto
    <2>3. NumbersAgree'
      BY <1>11 DEF FinishCallback, Erase, id_vars, OneRegisters, NumbersAgree, TypeOK, Timer,
         TimerId, None, At, Goto
    <2>4. RegisteringInv'
      BY <1>11 DEF FinishCallback, Erase, id_vars, OneRegisters, NumbersAgree,
         RegisteringInv, OnTheirWay, TypeOK, Timer, TimerId, None, At, Goto
    <2>a. /\ current \in Timer /\ current \in TimerId /\ sival_int[current] = current
          /\ timer_handles[current] = current
      BY <1>11, <1>t DEF FinishCallback, WayInv, EntriesOutliveTimers, OnTheirWay,
         NumbersAgree, TypeOK
    <2>b. current \notin armed /\ current \notin fired_timers /\ armed' = armed
      BY <1>11, <2>a DEF FinishCallback, Erase, WayInv, RanIsOver, CurrentHasRun
    <2>c. RanIsOver' /\ RevokedIsMarked' /\ CurrentHasRun' /\ RevokedNeverRuns'
      BY <1>11, <2>b DEF FinishCallback, WayInv, RanIsOver, RevokedIsMarked,
         CurrentHasRun, RevokedNeverRuns
    <2>d. \A u \in OnTheirWay' : u \in OnTheirWay /\ u \in Timer /\ u # current
      BY <1>11, <2>b DEF FinishCallback, OnTheirWay, TypeOK
    <2>e. EntriesOutliveTimers'
      BY <1>11, <2>a, <2>d, <1>t DEF FinishCallback, Erase, id_vars, WayInv,
         EntriesOutliveTimers,
         NumbersAgree, TypeOK
    <2>5. WayInv'
      BY <2>c, <2>e DEF WayInv
    <2> QED BY <2>1, <2>2, <2>3, <2>4, <2>5
  <1>12. ASSUME UNCHANGED timer_vars
        PROVE  TimerInv'
    <2>1. TypeOK'
      BY <1>12 DEF timer_vars, id_vars, TypeOK, Timer, TimerId, None, At, Goto
    <2>2. OneRegisters'
      BY <1>12 DEF timer_vars, id_vars, OneRegisters, TypeOK, At, Goto
    <2>3. NumbersAgree'
      BY <1>12 DEF timer_vars, id_vars, OneRegisters, NumbersAgree, TypeOK, Timer, TimerId,
         None, At, Goto
    <2>4. RegisteringInv'
      BY <1>12 DEF timer_vars, id_vars, OneRegisters, NumbersAgree, RegisteringInv,
         OnTheirWay, TypeOK, Timer, TimerId, None, At, Goto
    <2>5. WayInv'
      BY <1>12 DEF timer_vars, id_vars, OneRegisters, NumbersAgree, RegisteringInv, WayInv,
         RanIsOver, RevokedIsMarked, CurrentHasRun, RevokedNeverRuns, EntriesOutliveTimers,
         OnTheirWay, TypeOK, Timer, TimerId, None, At, Goto
    <2> QED BY <2>1, <2>2, <2>3, <2>4, <2>5
  <1> QED
    BY <1>1, <1>2, <1>3, <1>4, <1>5, <1>6, <1>7, <1>8, <1>9, <1>10, <1>11, <1>12, TimerStepCases
----------------------------------------------------------------------------

\* A timer that is cancelled before its callback starts never runs, whichever
\* of the kernel, the client and the callback thread comes first, while no two
\* threads are in register_timer at once.
THEOREM CancelledNeverRuns ==
  ASSUME ~ Overlap
  PROVE  TimersSpec => []RevokedNeverRuns
  <1>1. TimerInv => RevokedNeverRuns
    BY DEF TimerInv, WayInv
  <1> QED BY <1>1, InitTimerInv, NextTimerInv, PTL DEF TimersSpec

\* callback_thread_main never looks up an entry that has been erased, or finds
\* that of another timer, while no two threads are in register_timer at once.
THEOREM LookupsSucceed ==
  ASSUME ~ Overlap
  PROVE  TimersSpec => []EntriesOutliveTimers
  <1>1. TimerInv => EntriesOutliveTimers
    BY DEF TimerInv, WayInv
  <1> QED BY <1>1, InitTimerInv, NextTimerInv, PTL DEF TimersSpec

\* What the contract sees of the timers, by their IDs.
LEMMA ContractSees ==
  TimerInv => /\ {sival_int[t] : t \in Timer \ (ran \cup revoked)} = Timer \ (ran \cup revoked)
              /\ {sival_int[t] : t \in ran} = ran
              /\ created \in Nat /\ ran \subseteq Timer
  BY TimerAssumption DEF TimerInv, TypeOK, NumbersAgree

\* Every step of the timers is a step of the contract, or none.
LEMMA StepKeepsContract ==
  ASSUME TimerInv, TimerInv', [TimersNext]_timer_vars
  PROVE  [Contract!Next]_(Contract!vars)
  <1>s. /\ {sival_int[t] : t \in Timer \ (ran \cup revoked)} = Timer \ (ran \cup revoked)
        /\ {sival_int[t] : t \in ran} = ran
        /\ created \in Nat /\ ran \subseteq Timer
    BY ContractSees
  <1>p. /\ {sival_int'[t] : t \in (Timer \ (ran \cup revoked))'} = Timer' \ (ran' \cup revoked')
        /\ {sival_int'[t] : t \in ran'} = ran'
        /\ created' \in Nat
    BY TimerAssumption DEF TimerInv, TypeOK, NumbersAgree
  <1> DEFINE Pending == Timer \ (ran \cup revoked)
  <1>a. ASSUME NEW id \in Timer, created' = created, Pending' = Pending \ {id}, ran' = ran
        PROVE  Contract!Next
    BY <1>a, <1>s, <1>p DEF Contract!Next, Contract!Cancel, Timer
  <1>b. ASSUME created' = created, Pending' = Pending, ran' = ran
        PROVE  UNCHANGED Contract!vars
    BY <1>b, <1>s, <1>p DEF Contract!vars
  <1>1. ASSUME NEW th \in Threads, Create(th)
        PROVE  Contract!Register
    <2>1. created' = created + 1 /\ Timer' = Timer \cup {created} /\ UNCHANGED <<ran, revoked>>
      BY <1>1, <1>s DEF Create, Timer
    <2>2. created \notin ran \cup revoked
      BY <1>s DEF TimerInv, TypeOK, Timer
    <2>3. Pending' = Pending \cup {created}
      BY <2>1, <2>2
    <2> QED BY <2>1, <2>3, <1>s, <1>p DEF Contract!Register
  <1>2. ASSUME NEW t \in Timer, cancel_timer(t)
        PROVE  Contract!Next \/ UNCHANGED Contract!vars
    <2>1. UNCHANGED <<created, ran>> /\ Timer' = Timer /\ revoked' = revoked \cup ({t} \ ran)
      BY <1>2 DEF cancel_timer, Revoke, id_vars, Timer
    <2>2. Pending' = Pending \ {t}
      BY <2>1
    <2> QED BY <1>a, <2>1, <2>2
  <1>3. ASSUME NEW t \in fired_timers, StartCallback(t)
        PROVE  Contract!Next
    <2>1. t \in Timer /\ sival_int[t] = t /\ timer_callbacks[t] = t /\ t \notin ran \cup revoked
      BY <1>3 DEF StartCallback, TimerInv, TypeOK, NumbersAgree, WayInv, EntriesOutliveTimers,
         OnTheirWay, RanIsOver, RevokedIsMarked
    <2>2. ran' = ran \cup {t} /\ UNCHANGED <<created, revoked>> /\ Timer' = Timer
      BY <1>3, <2>1 DEF StartCallback, id_vars, Timer
    <2>3. Pending' = Pending \ {t} /\ t \in Pending
      BY <2>1, <2>2
    <2>4. Contract!Run(t)
      BY <2>2, <2>3, <1>s, <1>p DEF Contract!Run
    <2> QED BY <2>1, <2>4 DEF Contract!Next, Timer
  <1>4. ASSUME UNCHANGED <<created, ran, revoked>>
        PROVE  UNCHANGED Contract!vars
    BY <1>b, <1>4 DEF Timer
  <1> QED
    BY <1>1, <1>2, <1>3, <1>4, TimerStepCases
       DEF Contract!Next, StoreHandle, StoreCallback, SetTime, ReadId, IncrementId,
           timer_signal_handler, DiscardCancelled, FinishCallback, id_vars, timer_vars

\* LinuxTimerManager implements the interface of TimerManager.h, while no two
\* threads are in register_timer at once.
THEOREM ImplementsTimerManager ==
  ASSUME ~ Overlap
  PROVE  TimersSpec => KeepsContract
  <1>1. TimersInit => Contract!Init
    BY DEF TimersInit, Contract!Init, Timer
  <1>2. TimerInv /\ TimerInv' /\ [TimersNext]_timer_vars => [Contract!Next]_(Contract!vars)
    BY StepKeepsContract
  <1> QED
    BY <1>1, <1>2, InitTimerInv, NextTimerInv, PTL DEF TimersSpec, KeepsContract, Contract!Spec

\* Every timer has an ID of its own, while no two threads are in register_timer
\* at once.
THEOREM IdentifiersApart ==
  ASSUME ~ Overlap
  PROVE  TimersSpec => []IdentifiersUnique
  <1>1. TimerInv => IdentifiersUnique
    <2> SUFFICES ASSUME TimerInv, NEW t \in Timer, NEW u \in Timer,
                        returned[t] # None, returned[t] = returned[u]
                 PROVE  t = u
      BY DEF IdentifiersUnique
    <2>1. t \in TimerId /\ u \in TimerId
      <3>1. created \in Nat /\ created <= MaxTimers /\ MaxTimers \in Nat
        BY TimerAssumption DEF TimerInv, TypeOK
      <3> QED BY <3>1 DEF Timer, TimerId
    <2> QED BY <2>1 DEF TimerInv, NumbersAgree
  <1> QED BY <1>1, InitTimerInv, NextTimerInv, PTL DEF TimersSpec

----------------------------------------------------------------------------
(* The connections. *)

\* A piece of a size or of a message.
Piece == Nat \X {"size", "body"} \X Nat

\* The pieces of a size and its message.
Block == SizeLength + BodyLength

\* What is before block k of a stream.
Start(k) == k * Block

\* What the variables range over; no more has arrived than was taken, and no more
\* was taken than was sent.
Types ==
  /\ up \subseteq Process
  /\ written \in [Connection -> Nat]
  /\ socket \in [Connection -> {"none", "connected", "accepted", "reset", "closed"}]
  /\ stream \in [Connection -> Seq(Piece)]
  /\ taken \in [Connection -> Nat]
  /\ available \in [Connection -> Nat]
  /\ handled \in [Connection -> Seq(Seq(Piece))]
  /\ \A c \in Connection : available[c] <= taken[c] /\ taken[c] <= Len(stream[c])

\* A stream s holds the messages after the first h, one after another; the last
\* may be cut off.
Holds(s, h) ==
  \A k \in Nat, i \in 1..Block :
    Start(k) + i <= Len(s) => s[Start(k) + i] = Pieces(h + k + 1)[i]

\* A stream s on which w messages were sent, of which those in done were
\* handled, starts at the first one not yet handled; while the sender is alive,
\* it holds all that were sent.
Carries(s, w, done, alive) ==
  LET h == Len(done)
  IN /\ h <= w
     /\ Len(s) <= Start(w - h)
     /\ alive => Len(s) = Start(w - h)
     /\ Holds(s, h)
     /\ \A n \in 1..h : done[n] = Body(n)

InStep(c) == Carries(stream[c], written[c], handled[c], c[1] \in up)

\* The inductive invariant: as long as no read was short, what will be handled next
\* is still in the stream.
StreamInv == Types /\ HandledWhole /\ \A c \in Connection \ short : InStep(c)

----------------------------------------------------------------------------
(* Messages and their pieces. *)

\* The pieces of message n: those of its size, then those of the message.
LEMMA PiecesInOrder ==
  ASSUME NEW n \in Nat
  PROVE  /\ Body(n) \in Seq(Piece) /\ Len(Body(n)) = BodyLength
         /\ Pieces(n) \in Seq(Piece) /\ Len(Pieces(n)) = Block
         /\ \A i \in 1..BodyLength : Pieces(n)[SizeLength + i] = Body(n)[i]
  <1> DEFINE size == [k \in 1..SizeLength |-> <<n, "size", k>>]
  <1>1. SizeLength \in Nat /\ BodyLength \in Nat
    BY TcpAssumption
  <1>2. size \in Seq(Piece) /\ Len(size) = SizeLength
    BY <1>1 DEF Piece
  <1>3. Body(n) \in Seq(Piece) /\ Len(Body(n)) = BodyLength
    BY <1>1 DEF Piece, Body
  <1>4. Pieces(n) = size \o Body(n)
    BY DEF Pieces
  <1> HIDE DEF size
  <1>5. /\ Pieces(n) \in Seq(Piece) /\ Len(Pieces(n)) = Len(size) + Len(Body(n))
        /\ \A i \in 1..(Len(size) + Len(Body(n))) :
             Pieces(n)[i] = IF i <= Len(size) THEN size[i] ELSE Body(n)[i - Len(size)]
    BY <1>2, <1>3, <1>4, ConcatProperties
  <1>6. Len(Pieces(n)) = Block
    BY <1>2, <1>3, <1>5 DEF Block
  <1>7. ASSUME NEW i \in 1..BodyLength
        PROVE  Pieces(n)[SizeLength + i] = Body(n)[i]
    <2>1. i \in Nat /\ 1 <= i /\ i <= BodyLength
      BY <1>1
    <2>2. Len(size) = SizeLength /\ Len(Body(n)) = BodyLength
      BY <1>2, <1>3
    <2>3. SizeLength + i \in 1..(SizeLength + BodyLength)
      BY <1>1, <2>1
    <2>4. ~ (SizeLength + i <= SizeLength) /\ SizeLength + i - SizeLength = i
      BY <1>1, <2>1
    <2> QED BY <1>5, <2>2, <2>3, <2>4
  <1> QED BY <1>3, <1>5, <1>6, <1>7

\* Blocks follow one another.
LEMMA BlockStarts ==
  /\ Block \in Nat \ {0} /\ SizeLength \in Nat /\ BodyLength \in Nat
  /\ SizeLength + 1 <= Block /\ Block = SizeLength + BodyLength
  /\ Start(0) = 0
  /\ \A k \in Nat : Start(k) \in Nat /\ Start(k + 1) = Start(k) + Block
  <1>1. /\ Block \in Nat \ {0} /\ SizeLength \in Nat /\ BodyLength \in Nat
        /\ SizeLength + 1 <= Block /\ Block = SizeLength + BodyLength
    BY TcpAssumption DEF Block
  <1>2. Start(0) = 0
    BY <1>1 DEF Start
  <1>3. \A k \in Nat : Start(k) \in Nat /\ Start(k + 1) = Start(k) + Block
    BY <1>1 DEF Start
  <1> QED BY <1>1, <1>2, <1>3

\* Any piece of block k is in the first n blocks exactly if k is less than n.
LEMMA BlocksInOrder ==
  ASSUME NEW k \in Nat, NEW n \in Nat, NEW i \in 1..Block
  PROVE  Start(k) + i <= Start(n) <=> k < n
  <1>1. Block \in Nat /\ Block > 0
    BY TcpAssumption DEF Block
  <1>2. CASE k < n
    <2>1. PICK d \in Nat : n = k + 1 + d
      <3>1. n - k - 1 \in Nat
        BY <1>2
      <3> QED BY <3>1
    <2>2. n * Block = k * Block + Block + d * Block
      BY <1>1, <2>1
    <2> QED BY <1>1, <1>2, <2>2 DEF Start
  <1>3. CASE ~(k < n)
    <2>1. PICK d \in Nat : k = n + d
      <3>1. k - n \in Nat
        BY <1>3
      <3> QED BY <3>1
    <2>2. k * Block = n * Block + d * Block
      BY <1>1, <2>1
    <2> QED BY <1>1, <1>3, <2>2 DEF Start
  <1> QED BY <1>2, <1>3

----------------------------------------------------------------------------
(* The types. *)

\* What a process that stops leaves of its streams is a part that the kernel had
\* taken; the others stay as they are.
LEMMA StopTruncates ==
  ASSUME Types, NEW p, Stop(p)
  PROVE  /\ up' \subseteq up
         /\ stream' \in [Connection -> Seq(Piece)]
         /\ taken' \in [Connection -> Nat]
         /\ \A c \in Connection :
              /\ available[c] <= taken'[c] /\ taken'[c] <= Len(stream'[c])
              /\ \/ stream'[c] = stream[c]
                 \/ /\ c[1] \notin up'
                    /\ Len(stream'[c]) <= Len(stream[c])
                    /\ \A i \in 1..Len(stream'[c]) : stream'[c][i] = stream[c][i]
  <1>1. PICK kept \in {taken, available} :
          /\ taken' = [c \in Connection |-> IF c[1] = p THEN kept[c] ELSE taken[c]]
          /\ stream' = [c \in Connection |->
               IF c[1] = p THEN SubSeq(stream[c], 1, kept[c]) ELSE stream[c]]
    BY DEF Stop
  <1>2. up' = up \ {p}
    BY DEF Stop
  <1>3. ASSUME NEW c \in Connection
        PROVE  /\ stream[c] \in Seq(Piece) /\ Len(stream[c]) \in Nat
               /\ kept[c] \in Nat /\ taken[c] \in Nat
               /\ available[c] <= kept[c] /\ kept[c] <= Len(stream[c])
               /\ available[c] <= taken[c] /\ taken[c] <= Len(stream[c])
    BY DEF Types
  <1>4. ASSUME NEW c \in Connection
        PROVE  LET part == SubSeq(stream[c], 1, kept[c])
               IN /\ part \in Seq(Piece) /\ Len(part) = kept[c]
                  /\ \A i \in 1..Len(part) : part[i] = stream[c][i]
    <2>1. \A i \in 1..kept[c] : stream[c][i] \in Piece
      BY <1>3
    <2> QED BY <1>3, <2>1, SubSeqProperties
  <1>5. \A c \in Connection : stream'[c] \in Seq(Piece) /\ taken'[c] \in Nat
    BY <1>1, <1>3, <1>4
  <1>6. stream' \in [Connection -> Seq(Piece)] /\ taken' \in [Connection -> Nat]
    BY <1>1, <1>5
  <1>7. ASSUME NEW c \in Connection
        PROVE  /\ available[c] <= taken'[c] /\ taken'[c] <= Len(stream'[c])
               /\ \/ stream'[c] = stream[c]
                  \/ /\ c[1] \notin up'
                     /\ Len(stream'[c]) <= Len(stream[c])
                     /\ \A i \in 1..Len(stream'[c]) : stream'[c][i] = stream[c][i]
    <2>1. CASE c[1] = p
      <3>1. stream'[c] = SubSeq(stream[c], 1, kept[c]) /\ taken'[c] = kept[c]
        BY <1>1, <2>1
      <3> QED BY <1>2, <1>3, <1>4, <2>1, <3>1
    <2>2. CASE c[1] # p
      BY <1>1, <1>3, <2>2
    <2> QED BY <2>1, <2>2
  <1> QED BY <1>2, <1>6, <1>7

\* Reading takes pieces from the head of a stream.
LEMMA ConsumeTakes ==
  ASSUME Types, NEW c \in Connection, NEW count \in 0..available[c], Consume(c, count)
  PROVE  /\ stream' \in [Connection -> Seq(Piece)]
         /\ taken' \in [Connection -> Nat]
         /\ available' \in [Connection -> Nat]
         /\ \A d \in Connection : available'[d] <= taken'[d] /\ taken'[d] <= Len(stream'[d])
         /\ \A d \in Connection \ {c} : stream'[d] = stream[d]
         /\ Len(stream'[c]) = Len(stream[c]) - count
         /\ \A i \in 1..Len(stream'[c]) : stream'[c][i] = stream[c][i + count]
  <1> DEFINE rest == SubSeq(stream[c], count + 1, Len(stream[c]))
  <1>1. /\ stream[c] \in Seq(Piece) /\ Len(stream[c]) \in Nat
        /\ available[c] \in Nat /\ taken[c] \in Nat /\ count \in Nat
        /\ count <= available[c] /\ count <= taken[c] /\ count <= Len(stream[c])
    BY DEF Types
  <1>2. \A i \in (count + 1)..Len(stream[c]) : stream[c][i] \in Piece
    BY <1>1
  <1>3. /\ rest \in Seq(Piece)
        /\ Len(rest) = IF count + 1 <= Len(stream[c]) THEN Len(stream[c]) - (count + 1) + 1 ELSE 0
        /\ \A i \in 1..(Len(stream[c]) - (count + 1) + 1) :
             rest[i] = stream[c][count + 1 + i - 1]
    BY <1>1, <1>2, SubSeqProperties
  <1>4. /\ rest \in Seq(Piece) /\ Len(rest) = Len(stream[c]) - count
        /\ \A i \in 1..Len(rest) : rest[i] = stream[c][i + count]
    BY <1>1, <1>3
  <1>5. /\ stream' = [stream EXCEPT ![c] = rest]
        /\ taken' = [taken EXCEPT ![c] = taken[c] - count]
        /\ available' = [available EXCEPT ![c] = available[c] - count]
    BY DEF Consume
  <1> HIDE DEF rest
  <1>6. /\ stream' \in [Connection -> Seq(Piece)]
        /\ \A d \in Connection \ {c} : stream'[d] = stream[d]
        /\ stream'[c] = rest
    BY <1>4, <1>5 DEF Types
  <1>7. /\ taken' \in [Connection -> Nat] /\ available' \in [Connection -> Nat]
        /\ \A d \in Connection \ {c} : taken'[d] = taken[d] /\ available'[d] = available[d]
        /\ taken'[c] = taken[c] - count /\ available'[c] = available[c] - count
    BY <1>1, <1>5 DEF Types
  <1>8. ASSUME NEW d \in Connection
        PROVE  available'[d] <= taken'[d] /\ taken'[d] <= Len(stream'[d])
    <2>1. available[d] <= taken[d] /\ taken[d] <= Len(stream[d])
      BY DEF Types
    <2>2. CASE d = c
      BY <1>1, <1>4, <1>6, <1>7, <2>1, <2>2
    <2>3. CASE d # c
      BY <1>6, <1>7, <2>1, <2>3
    <2> QED BY <2>2, <2>3
  <1> QED BY <1>4, <1>6, <1>7, <1>8

\* Every step keeps the types.
LEMMA NextTypes == Types /\ [TcpNext]_tcp_vars => Types'
  <1> SUFFICES ASSUME Types, [TcpNext]_tcp_vars PROVE Types'
    OBVIOUS
  <1>1. ASSUME NEW p \in Process, NEW q \in Process, p # q, Send(p, q)
        PROVE  Types'
    <2> DEFINE c == <<p, q>>
    <2>1. c \in Connection
      BY <1>1 DEF Connection
    <2>2. /\ written' = [written EXCEPT ![c] = written[c] + 1]
          /\ stream' = [stream EXCEPT ![c] = stream[c] \o Pieces(written[c] + 1)]
          /\ UNCHANGED <<up, socket, taken, available, handled>>
      BY <1>1 DEF Send
    <2>3. stream[c] \in Seq(Piece) /\ written[c] + 1 \in Nat
      BY <2>1 DEF Types
    <2>4. Pieces(written[c] + 1) \in Seq(Piece) /\ Len(Pieces(written[c] + 1)) = Block
      BY <2>3, PiecesInOrder
    <2> DEFINE longer == stream[c] \o Pieces(written[c] + 1)
    <2>5. longer \in Seq(Piece) /\ Len(longer) = Len(stream[c]) + Block
      BY <2>3, <2>4, ConcatProperties
    <2>6. Len(stream[c]) \in Nat /\ Block \in Nat
      <3>1. Len(stream[c]) \in Nat
        BY <2>3
      <3> QED BY <3>1, BlockStarts
    <2>7. stream' = [stream EXCEPT ![c] = longer]
      BY <2>2
    <2> HIDE DEF longer
    <2>8. /\ stream' \in [Connection -> Seq(Piece)]
          /\ stream'[c] = longer
          /\ \A d \in Connection \ {c} : stream'[d] = stream[d]
      BY <2>1, <2>5, <2>7 DEF Types
    <2>9. /\ written' \in [Connection -> Nat]
          /\ UNCHANGED <<up, socket, taken, available, handled>>
      BY <2>1, <2>2, <2>3 DEF Types
    <2>10. ASSUME NEW d \in Connection
           PROVE  available[d] <= taken[d] /\ taken[d] <= Len(stream'[d])
      <3>1. taken[d] \in Nat /\ available[d] <= taken[d] /\ taken[d] <= Len(stream[d])
        BY DEF Types
      <3>2. CASE d = c
        BY <2>5, <2>6, <2>8, <3>1, <3>2
      <3>3. CASE d # c
        BY <2>8, <3>1, <3>3
      <3> QED BY <3>2, <3>3
    <2> QED BY <2>8, <2>9, <2>10 DEF Types
  <1>2. ASSUME NEW p \in Process, NEW q \in Process, p # q, Connect(p, q)
        PROVE  Types'
    BY <1>2 DEF Types, Connect
  <1>10. ASSUME NEW p \in Process, NEW q \in Process, p # q, Write(p, q)
         PROVE  Types'
    <2> DEFINE c == <<p, q>>
    <2>1. c \in Connection
      BY <1>10 DEF Connection
    <2>2. PICK total \in (taken[c] + 1)..Capacity :
            total <= Len(stream[c]) /\ taken' = [taken EXCEPT ![c] = total]
      BY <1>10 DEF Write
    <2>3. UNCHANGED <<up, written, socket, stream, available, handled>>
      BY <1>10 DEF Write
    <2>4. total \in Nat /\ taken[c] <= total
      BY <2>1, <2>2, TcpAssumption DEF Types
    <2>5. taken' \in [Connection -> Nat] /\ taken'[c] = total
      BY <2>1, <2>2, <2>4 DEF Types
    <2>6. ASSUME NEW d \in Connection
          PROVE  available[d] <= taken'[d] /\ taken'[d] <= Len(stream[d])
      <3>1. /\ available[d] \in Nat /\ taken[d] \in Nat
            /\ available[d] <= taken[d] /\ taken[d] <= Len(stream[d])
        BY DEF Types
      <3>2. CASE d = c
        BY <2>2, <2>4, <2>5, <3>1, <3>2
      <3>3. CASE d # c
        BY <2>2, <3>1, <3>3 DEF Types
      <3> QED BY <3>2, <3>3
    <2> QED BY <2>3, <2>5, <2>6 DEF Types
  <1>11. ASSUME NEW p \in Process, NEW q \in Process, p # q, WriteFails(p, q)
         PROVE  Types'
    <2>1. /\ UNCHANGED <<written, available, handled>>
          /\ socket' = [socket EXCEPT ![<<p, q>>] = "reset"]
          /\ UNCHANGED <<up, stream, taken>> \/ Stop(p)
      BY <1>11 DEF WriteFails
    <2>2. CASE UNCHANGED <<up, stream, taken>>
      BY <2>1, <2>2 DEF Types
    <2>3. CASE Stop(p)
      BY <2>1, <2>3, StopTruncates DEF Types
    <2> QED BY <2>1, <2>2, <2>3
  <1>3. ASSUME NEW q \in Process, AcceptAll(q)
        PROVE  Types'
    BY <1>3 DEF Types, AcceptAll
  <1>4. ASSUME NEW c \in Connection, Read(c[2], c)
        PROVE  Types'
    <2> DEFINE count == Take(SizeLength + message_size, c)
    <2>1. count \in 0..available[c] /\ count \in Nat
      BY TcpAssumption DEF Take, message_size, Types
    <2>2. Consume(c, count) /\ UNCHANGED <<up, written, socket>>
      BY <1>4 DEF Read
    <2>3. handled' \in [Connection -> Seq(Seq(Piece))]
      <3> DEFINE body == SubSeq(stream[c], SizeLength + 1, count)
      <3>1. /\ stream[c] \in Seq(Piece) /\ Len(stream[c]) \in Nat
            /\ count <= Len(stream[c]) /\ SizeLength \in Nat
        BY <2>1, TcpAssumption DEF Types
      <3>2. \A i \in (SizeLength + 1)..count : stream[c][i] \in Piece
        BY <3>1, <2>1
      <3>3. body \in Seq(Piece)
        BY <2>1, <3>1, <3>2, SubSeqProperties
      <3>4. handled[c] \in Seq(Seq(Piece))
        BY DEF Types
      <3>5. Append(handled[c], body) \in Seq(Seq(Piece))
        BY <3>3, <3>4, AppendProperties
      <3>6. handled' = handled \/ handled' = [handled EXCEPT ![c] = Append(handled[c], body)]
        BY <1>4 DEF Read
      <3> HIDE DEF body
      <3> QED BY <3>5, <3>6 DEF Types
    <2> QED BY <2>1, <2>2, <2>3, ConsumeTakes DEF Types
  <1>5. ASSUME NEW c \in Connection, ReadGarbled(c[2], c)
        PROVE  Types'
    <2>1. UNCHANGED <<written, socket, handled>>
      BY <1>5 DEF ReadGarbled
    <2>2. CASE Stop(c[2]) /\ UNCHANGED available
      BY <2>1, <2>2, StopTruncates DEF Types
    <2>3. ASSUME NEW count \in 1..available[c], Consume(c, count), UNCHANGED up
          PROVE  Types'
      <3>1. count \in 0..available[c]
        BY DEF Types
      <3> QED BY <2>1, <2>3, <3>1, ConsumeTakes DEF Types
    <2> QED BY <1>5, <2>2, <2>3 DEF ReadGarbled
  <1>6. ASSUME NEW c \in Connection, ReadEnd(c[2], c)
        PROVE  Types'
    BY <1>6 DEF Types, ReadEnd
  <1>7. ASSUME NEW c \in Connection, Arrive(c)
        PROVE  Types'
    <2>1. PICK count \in (available[c] + 1)..taken[c] :
            available' = [available EXCEPT ![c] = count]
      BY <1>7 DEF Arrive
    <2>2. count \in Nat
      BY <2>1 DEF Types
    <2> QED BY <1>7, <2>1, <2>2 DEF Types, Arrive
  <1>8. ASSUME NEW p \in Process, Crash(p)
        PROVE  Types'
    BY <1>8, StopTruncates DEF Types, Crash
  <1>9. CASE UNCHANGED tcp_vars
    BY <1>9 DEF Types, tcp_vars
  <1> QED
    BY <1>1, <1>2, <1>3, <1>4, <1>5, <1>6, <1>7, <1>8, <1>9, <1>10, <1>11 DEF TcpNext

----------------------------------------------------------------------------
(* The stream stays in step. *)

\* What is left of a stream that is cut off holds the same messages.
LEMMA PrefixHolds ==
  ASSUME NEW s \in Seq(Piece), NEW t \in Seq(Piece), NEW h \in Nat, Holds(s, h),
         Len(t) <= Len(s), \A i \in 1..Len(t) : t[i] = s[i]
  PROVE  Holds(t, h)
  <1>1. ASSUME NEW k \in Nat, NEW i \in 1..Block, Start(k) + i <= Len(t)
        PROVE  t[Start(k) + i] = Pieces(h + k + 1)[i]
    <2>1. Start(k) \in Nat /\ Block \in Nat
      BY BlockStarts
    <2>2. Start(k) + i \in 1..Len(t) /\ Start(k) + i <= Len(s)
      BY <1>1, <2>1
    <2>3. t[Start(k) + i] = s[Start(k) + i]
      BY <2>2
    <2> QED BY <2>2, <2>3 DEF Holds
  <1> QED BY <1>1 DEF Holds

\* The message after all that a stream holds becomes its last block.
LEMMA WriteHolds ==
  ASSUME NEW s \in Seq(Piece), NEW h \in Nat, NEW n \in Nat, Holds(s, h),
         Len(s) = Start(n),
         NEW t, t = s \o Pieces(h + n + 1)
  PROVE  Len(t) = Start(n + 1) /\ Holds(t, h)
  <1>1. Block \in Nat /\ 1 \in 1..Block
    BY TcpAssumption DEF Block
  <1>2. Start(n) \in Nat /\ Start(n + 1) = Start(n) + Block
    BY BlockStarts
  <1>3. PICK m : m = Pieces(h + n + 1)
    OBVIOUS
  <1>4. m \in Seq(Piece) /\ Len(m) = Block
    <2>1. h + n + 1 \in Nat
      OBVIOUS
    <2> QED BY <1>3, <2>1, PiecesInOrder
  <1>5. /\ Len(s \o m) = Len(s) + Len(m)
        /\ \A i \in 1..(Len(s) + Len(m)) :
             (s \o m)[i] = IF i <= Len(s) THEN s[i] ELSE m[i - Len(s)]
    BY <1>4, ConcatProperties
  <1>6. /\ Len(t) = Start(n) + Block
        /\ \A i \in 1..(Start(n) + Block) :
             t[i] = IF i <= Start(n) THEN s[i] ELSE m[i - Start(n)]
    BY <1>3, <1>4, <1>5
  <1>7. ASSUME NEW k \in Nat, NEW i \in 1..Block, Start(k) + i <= Len(t)
        PROVE  t[Start(k) + i] = Pieces(h + k + 1)[i]
    <2>1. Start(k) \in Nat
      BY BlockStarts
    <2>2. Start(k) + i \in 1..(Start(n) + Block)
      BY <1>1, <1>2, <1>6, <1>7, <2>1
    <2>3. k < n + 1
      <3>1. Start(k) + i <= Start(n + 1)
        BY <1>2, <2>2
      <3>2. n + 1 \in Nat
        OBVIOUS
      <3> QED BY <3>1, <3>2, BlocksInOrder
    <2>4. CASE k < n
      <3>1. Start(k) + i <= Start(n)
        BY <2>4, BlocksInOrder
      <3>2. t[Start(k) + i] = s[Start(k) + i]
        BY <1>6, <2>2, <3>1
      <3> QED BY <3>1, <3>2 DEF Holds
    <2>5. CASE k = n
      <3>1. ~(Start(n) + i <= Start(n)) /\ Start(n) + i - Start(n) = i
        BY <1>1, <1>2
      <3>2. t[Start(n) + i] = m[i]
        BY <1>6, <2>2, <2>5, <3>1
      <3> QED BY <1>3, <2>5, <3>2
    <2>6. k < n \/ k = n
      BY <2>3
    <2> QED BY <2>4, <2>5, <2>6
  <1> QED BY <1>2, <1>6, <1>7 DEF Holds

\* What follows the first block of a stream holds the messages after the first.
LEMMA RestHolds ==
  ASSUME NEW s \in Seq(Piece), NEW t \in Seq(Piece), NEW h \in Nat, Holds(s, h),
         Len(t) = Len(s) - Block, \A i \in 1..Len(t) : t[i] = s[i + Block]
  PROVE  Holds(t, h + 1)
  <1>1. ASSUME NEW k \in Nat, NEW i \in 1..Block, Start(k) + i <= Len(t)
        PROVE  t[Start(k) + i] = Pieces((h + 1) + k + 1)[i]
    <2>1. Start(k) \in Nat /\ Block \in Nat /\ Start(k + 1) = Start(k) + Block
      BY BlockStarts
    <2>2. Start(k) + i \in 1..Len(t) /\ (Start(k) + i) + Block = Start(k + 1) + i
      BY <1>1, <2>1
    <2>3. t[Start(k) + i] = s[Start(k + 1) + i]
      BY <2>2
    <2>4. Start(k + 1) + i <= Len(s) /\ k + 1 \in Nat
      BY <1>1, <2>1
    <2>5. s[Start(k + 1) + i] = Pieces(h + (k + 1) + 1)[i]
      BY <2>4 DEF Holds
    <2>6. h + (k + 1) + 1 = (h + 1) + k + 1
      OBVIOUS
    <2> QED BY <2>3, <2>5, <2>6
  <1> QED BY <1>1 DEF Holds

\* The first block of a stream, without the size, is the message it starts with.
LEMMA HeadHolds ==
  ASSUME NEW s \in Seq(Piece), NEW h \in Nat, Holds(s, h), Block <= Len(s)
  PROVE  SubSeq(s, SizeLength + 1, Block) = Body(h + 1)
  <1>1. /\ Block \in Nat /\ 1 \in 1..Block /\ SizeLength \in Nat /\ BodyLength \in Nat
        /\ Block = SizeLength + BodyLength /\ SizeLength + 1 <= Block /\ Len(s) \in Nat
    BY TcpAssumption DEF Block
  <1>2. PICK body : body = SubSeq(s, SizeLength + 1, Block)
    OBVIOUS
  <1>3. \A i \in (SizeLength + 1)..Block : s[i] \in Piece
    BY <1>1
  <1>4. /\ body \in Seq(Piece)
        /\ Len(body) = IF SizeLength + 1 <= Block THEN Block - (SizeLength + 1) + 1 ELSE 0
        /\ \A i \in 1..(Block - (SizeLength + 1) + 1) : body[i] = s[SizeLength + 1 + i - 1]
    BY <1>1, <1>2, <1>3, SubSeqProperties
  <1>5. Block - (SizeLength + 1) + 1 = BodyLength
    BY <1>1
  <1>6. Len(body) = BodyLength /\ \A i \in 1..BodyLength : body[i] = s[SizeLength + i]
    BY <1>1, <1>4, <1>5
  <1>7. h + 1 \in Nat /\ h + 0 + 1 = h + 1 /\ Start(0) = 0
    BY BlockStarts
  <1>8. ASSUME NEW i \in 1..BodyLength
        PROVE  body[i] = Body(h + 1)[i]
    <2>1. SizeLength + i \in 1..Block /\ Start(0) + (SizeLength + i) = SizeLength + i
      BY <1>1, <1>7
    <2>2. SizeLength + i <= Len(s)
      BY <1>1, <2>1
    <2>3. s[SizeLength + i] = Pieces(h + 1)[SizeLength + i]
      BY <1>7, <2>1, <2>2 DEF Holds
    <2>4. Pieces(h + 1)[SizeLength + i] = Body(h + 1)[i]
      BY <1>7, PiecesInOrder
    <2> QED BY <1>6, <2>3, <2>4
  <1>9. Body(h + 1) \in Seq(Piece) /\ Len(Body(h + 1)) = BodyLength
    BY <1>7, PiecesInOrder
  <1> QED BY <1>2, <1>4, <1>6, <1>8, <1>9, SeqEqual

\* What is left of a stream when its sender stops still carries what it did.
LEMMA CutCarries ==
  ASSUME NEW s \in Seq(Piece), NEW t \in Seq(Piece), NEW w \in Nat,
         NEW done \in Seq(Seq(Piece)), NEW alive, Carries(s, w, done, alive),
         Len(t) <= Len(s), \A i \in 1..Len(t) : t[i] = s[i]
  PROVE  Carries(t, w, done, FALSE)
  <1>1. PICK h \in Nat : h = Len(done)
    OBVIOUS
  <1>2. /\ h <= w /\ Holds(s, h) /\ Len(s) <= Start(w - h)
        /\ \A i \in 1..h : done[i] = Body(i)
    BY <1>1 DEF Carries
  <1>3. Start(w - h) \in Nat
    <2>1. w - h \in Nat
      BY <1>2
    <2> QED BY <2>1, BlockStarts
  <1>4. Len(t) <= Start(w - h)
    BY <1>2, <1>3
  <1>5. Holds(t, h)
    BY <1>2, PrefixHolds
  <1> QED BY <1>1, <1>2, <1>4, <1>5 DEF Carries

\* What a sender that is alive sends comes after all it has sent before.
LEMMA SendCarries ==
  ASSUME NEW s \in Seq(Piece), NEW w \in Nat,
         NEW done \in Seq(Seq(Piece)), Carries(s, w, done, TRUE),
         NEW t, t = s \o Pieces(w + 1)
  PROVE  Carries(t, w + 1, done, TRUE)
  <1>1. PICK h \in Nat : h = Len(done)
    OBVIOUS
  <1>2. /\ h <= w /\ Holds(s, h) /\ Len(s) = Start(w - h)
        /\ \A i \in 1..h : done[i] = Body(i)
    BY <1>1 DEF Carries
  <1>3. PICK n \in Nat : n = w - h
    <2>1. w - h \in Nat
      BY <1>2
    <2> QED BY <2>1
  <1>4. h + n + 1 = w + 1 /\ (w + 1) - h = n + 1 /\ h <= w + 1
    BY <1>2, <1>3
  <1>5. Len(t) = Start(n + 1) /\ Holds(t, h)
    <2>1. Len(s) = Start(n)
      BY <1>2, <1>3
    <2>2. t = s \o Pieces(h + n + 1)
      BY <1>4
    <2> QED BY <1>2, <2>1, <2>2, WriteHolds
  <1>6. Start(n + 1) <= Start(n + 1)
    BY BlockStarts
  <1> QED BY <1>1, <1>2, <1>4, <1>5, <1>6 DEF Carries

\* A read that is not short takes the first block, the message next to handle.
LEMMA ReadCarries ==
  ASSUME NEW s \in Seq(Piece), NEW t \in Seq(Piece), NEW w \in Nat,
         NEW done \in Seq(Seq(Piece)), NEW alive \in BOOLEAN, Carries(s, w, done, alive),
         Block <= Len(s),
         Len(t) = Len(s) - Block, \A i \in 1..Len(t) : t[i] = s[i + Block],
         NEW more, more = Append(done, SubSeq(s, SizeLength + 1, Block))
  PROVE  Carries(t, w, more, alive)
  <1>1. PICK h \in Nat : h = Len(done)
    <2>1. Len(done) \in Nat
      OBVIOUS
    <2> QED BY <2>1
  <1>2. /\ h <= w /\ Holds(s, h) /\ Len(s) <= Start(w - h)
        /\ alive => Len(s) = Start(w - h)
        /\ \A i \in 1..h : done[i] = Body(i)
    BY <1>1 DEF Carries
  <1>3. w - h # 0
    BY <1>2, BlockStarts
  <1>4. PICK n \in Nat : w - h = n + 1
    <2>1. w - h - 1 \in Nat
      BY <1>2, <1>3
    <2> QED BY <2>1
  <1>5. Start(n) \in Nat /\ Start(n + 1) = Start(n) + Block /\ Block \in Nat
    BY BlockStarts
  <1>6. w - (h + 1) = n /\ h + 1 <= w
    BY <1>4
  <1>7. Len(t) <= Start(n) /\ (alive => Len(t) = Start(n))
    BY <1>2, <1>4, <1>5
  <1>8. Holds(t, h + 1)
    BY <1>2, RestHolds
  <1>9. PICK body \in Seq(Piece) : body = Body(h + 1)
    BY PiecesInOrder
  <1>10. more = Append(done, body)
    BY <1>2, <1>9, HeadHolds
  <1>11. /\ Len(more) = h + 1
         /\ \A i \in 1..h : more[i] = done[i]
         /\ more[h + 1] = body
    BY <1>1, <1>10, AppendProperties
  <1>12. \A i \in 1..(h + 1) : more[i] = Body(i)
    <2>1. \A i \in 1..(h + 1) : i \in 1..h \/ i = h + 1
      OBVIOUS
    <2> QED BY <1>2, <1>9, <1>11, <2>1
  <1> QED BY <1>6, <1>7, <1>8, <1>11, <1>12 DEF Carries

----------------------------------------------------------------------------
(* Every step keeps the streams in step. *)

\* A stream that no step touches stays in step; its sender does not come back.
LEMMA UntouchedInStep ==
  ASSUME NEW c \in Connection, InStep(c), up' \subseteq up,
         stream'[c] = stream[c], written'[c] = written[c], handled'[c] = handled[c]
  PROVE  InStep(c)'
  <1>1. PICK alive : alive = (c[1] \in up)
    OBVIOUS
  <1>2. PICK still : still = (c[1] \in up')
    OBVIOUS
  <1>3. still => alive
    BY <1>1, <1>2
  <1>4. Carries(stream[c], written[c], handled[c], alive)
    BY <1>1 DEF InStep
  <1>5. Carries(stream[c], written[c], handled[c], still)
    BY <1>3, <1>4 DEF Carries
  <1> QED BY <1>2, <1>5 DEF InStep

\* When a process stops, the streams stay in step, those it has cut off too.
LEMMA StopInStep ==
  ASSUME Types, NEW p, Stop(p), UNCHANGED <<written, handled>>,
         NEW c \in Connection, InStep(c)
  PROVE  InStep(c)'
  <1>1. /\ up' \subseteq up
        /\ stream'[c] \in Seq(Piece)
        /\ \/ stream'[c] = stream[c]
           \/ /\ c[1] \notin up'
              /\ Len(stream'[c]) <= Len(stream[c])
              /\ \A i \in 1..Len(stream'[c]) : stream'[c][i] = stream[c][i]
    BY StopTruncates
  <1>2. CASE stream'[c] = stream[c]
    BY <1>1, <1>2, UntouchedInStep
  <1>3. CASE /\ c[1] \notin up'
             /\ Len(stream'[c]) <= Len(stream[c])
             /\ \A i \in 1..Len(stream'[c]) : stream'[c][i] = stream[c][i]
    <2>1. PICK alive : alive = (c[1] \in up)
      OBVIOUS
    <2>2. stream[c] \in Seq(Piece) /\ written[c] \in Nat /\ handled[c] \in Seq(Seq(Piece))
      BY DEF Types
    <2>3. Carries(stream[c], written[c], handled[c], alive)
      BY <2>1 DEF InStep
    <2>4. Carries(stream'[c], written[c], handled[c], FALSE)
      BY <1>1, <1>3, <2>2, <2>3, CutCarries
    <2>5. (c[1] \in up') = FALSE
      BY <1>3
    <2> QED BY <2>4, <2>5 DEF InStep
  <1> QED BY <1>1, <1>2, <1>3

\* A message that is sent on a stream in step comes next on it.
LEMMA SendInStep ==
  ASSUME Types, NEW c \in Connection, InStep(c), c[1] \in up,
         written' = [written EXCEPT ![c] = written[c] + 1],
         stream' = [stream EXCEPT ![c] = stream[c] \o Pieces(written[c] + 1)],
         UNCHANGED <<up, handled>>
  PROVE  InStep(c)'
  <1>1. stream[c] \in Seq(Piece) /\ written[c] \in Nat /\ handled[c] \in Seq(Seq(Piece))
    BY DEF Types
  <1>2. (c[1] \in up) = TRUE /\ (c[1] \in up') = TRUE
    OBVIOUS
  <1>3. Carries(stream[c], written[c], handled[c], TRUE)
    BY <1>2 DEF InStep
  <1>4. /\ stream'[c] = stream[c] \o Pieces(written[c] + 1)
        /\ written'[c] = written[c] + 1
        /\ handled'[c] = handled[c]
    BY DEF Types
  <1>5. Carries(stream[c] \o Pieces(written[c] + 1), written[c] + 1, handled[c], TRUE)
    BY <1>1, <1>3, SendCarries
  <1> QED BY <1>2, <1>4, <1>5 DEF InStep

\* A read that is not short leaves its stream in step.
LEMMA ReadInStep ==
  ASSUME Types, NEW c \in Connection, InStep(c), Block <= available[c], Consume(c, Block),
         handled' = [handled EXCEPT ![c] =
                       Append(handled[c], SubSeq(stream[c], SizeLength + 1, Block))],
         UNCHANGED <<up, written>>
  PROVE  InStep(c)'
  <1>1. /\ stream[c] \in Seq(Piece) /\ written[c] \in Nat /\ handled[c] \in Seq(Seq(Piece))
        /\ available[c] \in Nat /\ available[c] <= Len(stream[c]) /\ Len(stream[c]) \in Nat
    BY DEF Types
  <1>2. Block \in 0..available[c] /\ Block <= Len(stream[c])
    <2>1. Block \in Nat
      BY BlockStarts
    <2> QED BY <1>1, <2>1
  <1>3. /\ stream'[c] \in Seq(Piece)
        /\ Len(stream'[c]) = Len(stream[c]) - Block
        /\ \A i \in 1..Len(stream'[c]) : stream'[c][i] = stream[c][i + Block]
    BY <1>2, ConsumeTakes
  <1>4. handled'[c] = Append(handled[c], SubSeq(stream[c], SizeLength + 1, Block))
    BY DEF Types
  <1>5. PICK alive \in BOOLEAN : alive = (c[1] \in up)
    <2>1. (c[1] \in up) \in BOOLEAN
      OBVIOUS
    <2> QED BY <2>1, Zenon
  <1>6. Carries(stream[c], written[c], handled[c], alive)
    BY <1>5 DEF InStep
  <1>7. Carries(stream'[c], written[c], handled'[c], alive)
    BY <1>1, <1>2, <1>3, <1>4, <1>6, ReadCarries
  <1> QED BY <1>5, <1>7 DEF InStep

\* Nothing was written at the start, and every stream is empty.
LEMMA InitStreamInv == TcpInit => StreamInv
  <1> SUFFICES ASSUME TcpInit PROVE StreamInv
    OBVIOUS
  <1>1. Types
    <2>1. <<>> \in Seq(Piece) /\ Len(<<>>) = 0 /\ <<>> \in Seq(Seq(Piece))
      OBVIOUS
    <2> QED BY <2>1 DEF TcpInit, Types
  <1>2. ASSUME NEW c \in Connection
        PROVE  InStep(c)
    <2>1. stream[c] = <<>> /\ written[c] = 0 /\ handled[c] = <<>> /\ Len(<<>>) = 0
      BY DEF TcpInit
    <2>2. Start(0) = 0 /\ 0 - 0 = 0
      BY BlockStarts
    <2>3. Holds(<<>>, 0)
      <3>1. ASSUME NEW k \in Nat, NEW i \in 1..Block, Start(k) + i <= 0
            PROVE  FALSE
        <4>1. Start(k) \in Nat /\ Block \in Nat
          BY BlockStarts
        <4> QED BY <3>1, <4>1
      <3> QED BY <2>1, <3>1 DEF Holds
    <2> QED BY <2>1, <2>2, <2>3 DEF InStep, Carries
  <1>3. HandledWhole
    <2>1. ASSUME NEW c \in Connection
          PROVE  Len(handled[c]) = 0 /\ written[c] = 0
      BY DEF TcpInit
    <2> QED BY <2>1 DEF HandledWhole
  <1> QED BY <1>1, <1>2, <1>3 DEF StreamInv

\* Every step keeps the streams without a short read in step.
LEMMA NextInStep ==
  ASSUME StreamInv, [TcpNext]_tcp_vars, NEW d \in Connection, d \notin short'
  PROVE  InStep(d)'
  <1>1. Types
    BY DEF StreamInv
  <1>2. ASSUME NEW p \in Process, NEW q \in Process, p # q, Connect(p, q) \/ Write(p, q)
        PROVE  InStep(d)'
    BY <1>2, UntouchedInStep DEF StreamInv, Connect, Write
  <1>3. ASSUME NEW p \in Process, NEW q \in Process, p # q, Send(p, q)
        PROVE  InStep(d)'
    <2> DEFINE c == <<p, q>>
    <2>1. c \in Connection /\ c[1] = p /\ p \in up
      BY <1>3 DEF Connection, Send, Polling
    <2>2. /\ d \notin short /\ InStep(d)
          /\ written' = [written EXCEPT ![c] = written[c] + 1]
          /\ stream' = [stream EXCEPT ![c] = stream[c] \o Pieces(written[c] + 1)]
          /\ up' = up /\ handled' = handled
      BY <1>3 DEF Send, StreamInv
    <2>3. CASE d = c
      BY <1>1, <2>1, <2>2, <2>3, SendInStep
    <2>4. CASE d # c
      BY <1>1, <2>2, <2>4, UntouchedInStep DEF Types
    <2> QED BY <2>3, <2>4
  <1>10. ASSUME NEW p \in Process, NEW q \in Process, p # q, WriteFails(p, q)
         PROVE  InStep(d)'
    <2>1. /\ UNCHANGED <<written, handled, short>>
          /\ UNCHANGED <<up, stream, taken>> \/ Stop(p)
      BY <1>10 DEF WriteFails
    <2>2. InStep(d)
      BY <2>1 DEF StreamInv
    <2> QED BY <1>1, <2>1, <2>2, StopInStep, UntouchedInStep
  <1>4. ASSUME NEW q \in Process, AcceptAll(q)
        PROVE  InStep(d)'
    BY <1>4, UntouchedInStep DEF StreamInv, AcceptAll
  <1>5. ASSUME NEW c \in Connection, Read(c[2], c)
        PROVE  InStep(d)'
    <2> DEFINE count == Take(SizeLength + message_size, c)
    <2>1. SizeLength + message_size = Block
      BY DEF message_size, Block
    <2>2. UNCHANGED <<up, written>> /\ Consume(c, count)
      BY <1>5 DEF Read
    <2>3. Block \in Nat /\ available[c] \in Nat
      BY <1>1, BlockStarts DEF Types
    <2>4. count \in 0..available[c]
      BY <2>1, <2>3 DEF Take
    <2>5. CASE count = Block
      <3>1. /\ short' = short
            /\ handled' = [handled EXCEPT ![c] =
                 Append(handled[c], SubSeq(stream[c], SizeLength + 1, Block))]
        BY <1>5, <2>1, <2>5 DEF Read
      <3>2. InStep(d)
        BY <3>1 DEF StreamInv
      <3>3. CASE d = c
        <4>1. Block <= available[c] /\ Consume(c, Block)
          BY <2>2, <2>3, <2>4, <2>5
        <4> QED BY <1>1, <2>2, <3>1, <3>2, <3>3, <4>1, ReadInStep
      <3>4. CASE d # c
        BY <1>1, <2>2, <2>4, <3>1, <3>2, <3>4, ConsumeTakes, UntouchedInStep DEF Types
      <3> QED BY <3>3, <3>4
    <2>6. CASE count # Block
      <3>1. short' = short \cup {c} /\ handled' = handled
        BY <1>5, <2>1, <2>6 DEF Read
      <3>2. InStep(d) /\ d # c
        BY <3>1 DEF StreamInv
      <3> QED BY <1>1, <2>2, <2>4, <3>1, <3>2, ConsumeTakes, UntouchedInStep
    <2> QED BY <2>5, <2>6
  <1>6. ASSUME NEW c \in Connection, ReadGarbled(c[2], c)
        PROVE  InStep(d)'
    <2>1. UNCHANGED <<written, handled>> /\ c \in short /\ short' = short
      BY <1>6 DEF ReadGarbled
    <2>2. InStep(d) /\ d # c
      BY <2>1 DEF StreamInv
    <2>3. CASE Stop(c[2])
      BY <1>1, <2>1, <2>2, <2>3, StopInStep
    <2>4. ASSUME NEW count \in 1..available[c], Consume(c, count), UNCHANGED up
          PROVE  InStep(d)'
      <3>1. count \in 0..available[c]
        BY <1>1 DEF Types
      <3> QED BY <1>1, <2>1, <2>2, <2>4, <3>1, ConsumeTakes, UntouchedInStep
    <2> QED BY <1>6, <2>3, <2>4 DEF ReadGarbled
  <1>7. ASSUME NEW c \in Connection, ReadEnd(c[2], c) \/ Arrive(c)
        PROVE  InStep(d)'
    BY <1>7, UntouchedInStep DEF StreamInv, ReadEnd, Arrive
  <1>8. ASSUME NEW p \in Process, Crash(p)
        PROVE  InStep(d)'
    BY <1>1, <1>8, StopInStep DEF StreamInv, Crash
  <1>9. CASE UNCHANGED tcp_vars
    BY <1>9, UntouchedInStep DEF StreamInv, tcp_vars
  <1> QED
    BY <1>2, <1>3, <1>4, <1>5, <1>6, <1>7, <1>8, <1>9, <1>10 DEF TcpNext

\* What is sent is counted, and receive_message is called by a read that is not
\* short, of a connection that had no short read before.
LEMMA HandlingSteps ==
  ASSUME Types, [TcpNext]_tcp_vars, NEW c \in Connection
  PROVE  /\ written[c] <= written'[c]
         /\ handled'[c] = handled[c] \/ c \notin short'
  <1>1. written[c] \in Nat
    BY DEF Types
  <1>2. ASSUME NEW p \in Process, NEW q \in Process, Send(p, q)
        PROVE  written[c] <= written'[c] /\ handled' = handled
    <2>1. /\ handled' = handled
          /\ written' = [written EXCEPT ![<<p, q>>] = written[<<p, q>>] + 1]
      BY <1>2 DEF Send
    <2>2. written'[c] = IF c = <<p, q>> THEN written[c] + 1 ELSE written[c]
      BY <2>1 DEF Types
    <2> QED BY <1>1, <2>1, <2>2
  <1>3. ASSUME NEW d \in Connection, Read(d[2], d)
        PROVE  /\ written' = written
               /\ handled'[c] = handled[c] \/ c \notin short'
    <2>1. d \notin short /\ written' = written
      BY <1>3 DEF Read
    <2>2. CASE handled' = handled
      BY <2>1, <2>2
    <2>3. CASE handled' # handled
      <3>1. /\ short' = short
            /\ \E body : handled' = [handled EXCEPT ![d] = Append(handled[d], body)]
        BY <1>3, <2>3 DEF Read
      <3> QED BY <2>1, <3>1 DEF Types
    <2> QED BY <2>2, <2>3
  <1>4. CASE UNCHANGED <<written, handled>>
    BY <1>1, <1>4
  <1>5. ASSUME NEW p \in Process, NEW q \in Process,
               Connect(p, q) \/ Write(p, q) \/ WriteFails(p, q)
        PROVE  UNCHANGED <<written, handled>>
    BY <1>5 DEF Connect, Write, WriteFails
  <1>6. ASSUME NEW q \in Process, AcceptAll(q) \/ Crash(q)
        PROVE  UNCHANGED <<written, handled>>
    BY <1>6 DEF AcceptAll, Crash
  <1>7. ASSUME NEW d \in Connection, Arrive(d) \/ ReadGarbled(d[2], d) \/ ReadEnd(d[2], d)
        PROVE  UNCHANGED <<written, handled>>
    BY <1>7 DEF Arrive, ReadGarbled, ReadEnd
  <1>8. CASE UNCHANGED tcp_vars
    BY <1>1, <1>8 DEF tcp_vars
  <1>9. CASE TcpNext
    BY <1>1, <1>2, <1>3, <1>4, <1>5, <1>6, <1>7, <1>9 DEF TcpNext
  <1> QED BY <1>8, <1>9

\* Every step keeps the invariant.
LEMMA NextStreamInv == StreamInv /\ [TcpNext]_tcp_vars => StreamInv'
  <1> SUFFICES ASSUME StreamInv, [TcpNext]_tcp_vars PROVE StreamInv'
    OBVIOUS
  <1>1. Types /\ Types' /\ \A c \in Connection \ short' : InStep(c)'
    BY NextTypes, NextInStep DEF StreamInv
  <1>2. ASSUME NEW c \in Connection
        PROVE  /\ Len(handled'[c]) <= written'[c]
               /\ \A n \in 1..Len(handled'[c]) : handled'[c][n] = Body(n)
    <2>1. CASE c \notin short'
      BY <1>1, <2>1 DEF InStep, Carries
    <2>2. CASE handled'[c] = handled[c]
      <3>1. /\ written[c] \in Nat /\ written'[c] \in Nat /\ Len(handled[c]) \in Nat
            /\ Len(handled[c]) <= written[c] /\ written[c] <= written'[c]
            /\ \A n \in 1..Len(handled[c]) : handled[c][n] = Body(n)
        BY <1>1, HandlingSteps DEF StreamInv, HandledWhole, Types
      <3> QED BY <2>2, <3>1
    <2> QED BY <1>1, <2>1, <2>2, HandlingSteps
  <1> QED BY <1>1, <1>2 DEF StreamInv, HandledWhole

\* Up to the first short read of a connection, its messages are handled whole, in
\* the order they were sent, none of them missing or twice: whatever parts the
\* kernel takes and the network delivers, and whoever stops.
THEOREM MessagesHandledWhole == TcpSpec => []HandledWhole
  <1>1. StreamInv => HandledWhole
    BY DEF StreamInv
  <1> QED BY <1>1, InitStreamInv, NextStreamInv, PTL DEF TcpSpec

=============================================================================
