----------------------------- MODULE UtilityClient -----------------------------
(***************************************************************************)
(* The utility's side of a query (UtilityClient.cpp, crash-tolerant        *)
(* builds): starting queries alone or in batches, collecting one result    *)
(* from the root of each aggregation group, ending the query on enough     *)
(* results or on a timeout, and storing its result.                        *)
(*                                                                         *)
(* Messages travel as long as they like: the result of a query may arrive  *)
(* when a later one is running.  A registered timer fires once at most,    *)
(* and not after it was cancelled (TimerManager.h); whether it fires at    *)
(* all depends on its delay.  The simulator honours every delay, the Linux *)
(* build those of less than a second: the timer of a query, of its rounds  *)
(* times 100 ms, is longer than that, and that of a result, of the height  *)
(* of the tree times 100 ms, is shorter for up to some hundred meters.     *)
(*                                                                         *)
(* An operator marked "fault" is what a slip in the code would make of the *)
(* definition it precedes; no action uses it.                              *)
(***************************************************************************)
EXTENDS Integers, FiniteSets

CONSTANTS
  Groups,               \* the aggregation groups, each with one root
  FAILURES_TOLERATED,
  MaxQuery,             \* bound: queries are numbered 0..MaxQuery
  MaxBatch              \* bound: the longest batch given to start_queries

ASSUME UtilityAssumption ==
  /\ IsFiniteSet(Groups)
  /\ FAILURES_TOLERATED \in Nat
  /\ FAILURES_TOLERATED < Cardinality(Groups)
  /\ MaxQuery \in Nat
  /\ MaxBatch \in Nat

Query == 0..MaxQuery
Message == [query : Query, group : Groups]
NullResult == [query |-> -1]   \* nullptr: no result was received

\* The delays of timers: that of start_query, and that of handle_message, which
\* is one of its terms and so is honoured whenever it is.
Delay == {"query", "result"}
Honours == {{}, {"result"}, Delay}

VARIABLES
  query_num,
  query_finished,
  query_timeout_timer,
  curr_query_results,
  all_query_results,
  pending_batch_queries,
  timers,       \* registered timers that have neither fired nor been cancelled
  next_timer,   \* the handle of the next timer
  honoured,     \* the delays after which the timers of this build do fire
  silent,       \* timers registered with another one
  net,          \* results in flight to the utility
  reported,     \* results sent so far
  ended,        \* history: ended[q] counts the calls of end_query for q
  batched       \* history: start_queries has been called

vars == <<query_num, query_finished, query_timeout_timer, curr_query_results,
          all_query_results, pending_batch_queries, timers, next_timer, honoured, silent,
          net, reported, ended, batched>>

Init ==
  /\ query_num = -1
  /\ query_finished = FALSE
  /\ query_timeout_timer = 0
  /\ curr_query_results = {}
  /\ all_query_results = [q \in Query |-> NullResult]
  /\ pending_batch_queries = {}
  /\ timers = {}
  /\ next_timer = 1
  /\ honoured \in Honours
  /\ silent = {}
  /\ net = {}
  /\ reported = {}
  /\ ended = [q \in Query |-> 0]
  /\ batched = FALSE

----------------------------------------------------------------------------

\* A new timer with this delay may never fire.
Silence(timer, delay) == {t \in {timer} : delay \notin honoured}

\* register_timer, with live the timers that are registered so far.
RegisterTimer(live, delay) ==
  /\ query_timeout_timer' = next_timer
  /\ timers' = live \cup {next_timer}
  /\ next_timer' = next_timer + 1
  /\ silent' = silent \cup Silence(next_timer, delay)

\* start_query(q), but for its timer, which every caller sets up itself.
\* Nothing cancels the timer of the query before.
BeginQuery(q) ==
  /\ query_num' = q
  /\ query_finished' = FALSE
  /\ curr_query_results' = {}

\* The query end_query starts next: the top of the priority queue.
NextPending ==
  CHOOSE q \in pending_batch_queries : \A p \in pending_batch_queries : q <= p

\* end_query() up to its callbacks.  Every message counts more than
\* most_contributors = 0, which is never updated, so the last one that the
\* unordered container yields is the result.
StoreResult(results) ==
  /\ \E result \in IF results = {} THEN {NullResult} ELSE results :
       all_query_results' = [all_query_results EXCEPT ![query_num] = result]
  /\ ended' = [ended EXCEPT ![query_num] = ended[query_num] + 1]

\* The end of end_query() when no query is waiting in the batch.
FinishQuery ==
  /\ pending_batch_queries = {}
  /\ query_finished' = TRUE
  /\ curr_query_results' = {}
  /\ UNCHANGED <<query_num, pending_batch_queries>>

\* The end of end_query() when one is: it starts at once.
ContinueBatch ==
  /\ pending_batch_queries # {}
  /\ pending_batch_queries' = pending_batch_queries \ {NextPending}
  /\ BeginQuery(NextPending)

----------------------------------------------------------------------------
(* The operations. *)

\* A caller respects "Do not call this while an existing query is still in
\* progress" (UtilityClient.h:78).
Idle == query_num = -1 \/ query_finished

\* start_query(query)
StartQuery ==
  /\ Idle
  /\ query_num < MaxQuery
  /\ BeginQuery(query_num + 1)
  /\ RegisterTimer(timers, "query")
  /\ UNCHANGED <<all_query_results, pending_batch_queries, honoured, net, reported, ended,
                 batched>>

\* start_queries(queries)
StartQueries ==
  /\ Idle
  /\ \E last \in (query_num + 1)..MaxQuery :
       /\ last - query_num <= MaxBatch
       /\ pending_batch_queries' = (query_num + 2)..last
       /\ BeginQuery(query_num + 1)
       /\ RegisterTimer(timers, "query")
  /\ batched' = TRUE
  /\ UNCHANGED <<all_query_results, honoured, net, reported, ended>>

\* handle_message(AggregationMessage), by its cases.  The message is counted
\* for the query that is running, whichever query it belongs to; the timer is
\* cancelled first and, if a query is running in the end, a new one is set.
Enough(m) == Cardinality(curr_query_results \cup {m}) > FAILURES_TOLERATED

\* No query is running.
LateResult(m) ==
  /\ query_finished
  /\ curr_query_results' = curr_query_results \cup {m}
  /\ timers' = timers \ {query_timeout_timer}
  /\ UNCHANGED <<query_num, query_finished, query_timeout_timer, next_timer,
                 silent, all_query_results, pending_batch_queries, ended>>

PartialResultUnguarded(m) ==  \* fault: no new timer
  /\ ~query_finished
  /\ ~Enough(m)
  /\ curr_query_results' = curr_query_results \cup {m}
  /\ timers' = timers \ {query_timeout_timer}
  /\ UNCHANGED <<query_num, query_finished, query_timeout_timer, next_timer,
                 silent, all_query_results, pending_batch_queries, ended>>

\* The query needs more results.
PartialResult(m) ==
  /\ ~query_finished
  /\ ~Enough(m)
  /\ curr_query_results' = curr_query_results \cup {m}
  /\ RegisterTimer(timers \ {query_timeout_timer}, "result")
  /\ UNCHANGED <<query_num, query_finished, all_query_results,
                 pending_batch_queries, ended>>

LastResultUncancelled(m) ==  \* fault: the timer of the finished query stays
  /\ ~query_finished
  /\ Enough(m)
  /\ FinishQuery
  /\ StoreResult(curr_query_results \cup {m})
  /\ UNCHANGED <<query_timeout_timer, timers, next_timer, silent>>

\* The result was the last one the query needed ...
LastResult(m) ==
  /\ ~query_finished
  /\ Enough(m)
  /\ FinishQuery
  /\ StoreResult(curr_query_results \cup {m})
  /\ timers' = timers \ {query_timeout_timer}
  /\ UNCHANGED <<query_timeout_timer, next_timer, silent>>

\* ... and the batch goes on: end_query starts the next query, whose timer is
\* next_timer, and handle_message then finds query_finished false again and
\* registers another one in its place.
LastResultInBatch(m) ==
  /\ ~query_finished
  /\ Enough(m)
  /\ ContinueBatch
  /\ StoreResult(curr_query_results \cup {m})
  /\ query_timeout_timer' = next_timer + 1
  /\ timers' = (timers \ {query_timeout_timer}) \cup {next_timer, next_timer + 1}
  /\ next_timer' = next_timer + 2
  /\ silent' = silent \cup Silence(next_timer, "query") \cup Silence(next_timer + 1, "result")

HandleResult ==
  /\ \E m \in net :
       /\ net' = net \ {m}
       /\ LateResult(m) \/ PartialResult(m) \/ LastResult(m) \/ LastResultInBatch(m)
  /\ UNCHANGED <<honoured, reported, batched>>

\* The callback of a query timer: end_query().
TimerFires(t) ==
  /\ t \in timers /\ t \notin silent
  /\ StoreResult(curr_query_results)
  /\ \/ /\ FinishQuery
        /\ timers' = timers \ {t}
        /\ UNCHANGED <<query_timeout_timer, next_timer, silent>>
     \/ /\ ContinueBatch
        /\ RegisterTimer(timers \ {t}, "query")
  /\ UNCHANGED <<honoured, net, reported, batched>>

----------------------------------------------------------------------------
(* The meters: the root of a group reports once for a query it was sent. *)

RootReports ==
  /\ \E q \in 0..query_num, g \in Groups :
       LET m == [query |-> q, group |-> g]
       IN /\ m \notin reported
          /\ reported' = reported \cup {m}
          /\ net' = net \cup {m}
  /\ UNCHANGED <<query_num, query_finished, query_timeout_timer,
                 curr_query_results, all_query_results, pending_batch_queries,
                 timers, next_timer, honoured, silent, ended, batched>>

Next ==
  \/ StartQuery
  \/ StartQueries
  \/ HandleResult
  \/ \E t \in timers : TimerFires(t)
  \/ RootReports

Spec == Init /\ [][Next]_vars

\* Registered timers fire after the delays that the build honours; messages and
\* callers owe nothing.
FairSpec == Spec /\ WF_vars(\E t \in timers : TimerFires(t))

----------------------------------------------------------------------------
(* Properties. *)

Running == query_num >= 0 /\ ~query_finished

\* A query in progress can always be ended by its timeout: every path through
\* handle_message(AggregationMessage) that cancels the timer of a running
\* query registers another.
RunningQueryHasTimer == Running => query_timeout_timer \in timers

\* When queries are started one at a time, no timer outlives its query, so a
\* timeout always ends the query it was set for.
NoStrayTimer ==
  ~batched => timers \subseteq IF Running THEN {query_timeout_timer} ELSE {}

\* "A function that will be called every time a query completes"
\* (UtilityClient.cpp:141): a query that is not part of a batch completes at
\* most once.
CompletesOnce == ~batched => \A q \in Query : ended[q] <= 1

\* "All results of queries the utility has issued, indexed by query number"
\* (UtilityClient.h:47): the result stored for a query is one of its own.
\* Violated: handle_message does not look at the query of a result.
ResultsIndexed ==
  \A q \in Query : all_query_results[q] # NullResult => all_query_results[q].query = q

\* A query completes, even if no meter answers any more, once it has a timer that
\* will fire: every later result of its may replace it by another such timer only.
QueriesComplete ==
  \A q \in Query :
    query_num = q /\ Running /\ query_timeout_timer \notin silent ~> ended[q] > 0

=============================================================================
