# A TLA+ verification of pddm

`pddm` collects statistics of household electricity meters without letting the
utility see any single meter's data.  A *query* goes from the utility to all
meters; the meters mix and relay their contributions over a peer-to-peer
*overlay* in lock-step rounds, then add them up along a *tree* in each
aggregation group, and the root of each group reports to the utility.  Three
protocols (`Ct`, crash-tolerant; `Hft`, high-failure-tolerant; `Bft`,
Byzantine) share that frame.  The same classes run on a discrete-event
simulator and on real sockets and timers.

This directory holds TLA+ models of the parts of that system that are hard to
test, the configurations with which TLC checks them, and theorems that TLAPS
proves about them.  Source paths below are relative to the repository's `src/`.

Run a check with `tlc -config X.cfg M`, a proof with `tlapm MProofs.tla`.  The
runs, the mutations each property detects, the source lines behind every
definition, the hazards and the findings are listed in `PROJECT.json`.

## 1. Inventory

| Component | State | Operations | Hard behaviour |
|---|---|---|---|
| **Overlay rounds**: `ProtocolState(.h, _impl.h)`, dispatch in `MeterClient.cpp` | current query, phase, `overlay_round`, `round_timeout_timer`, `ping_response_from_predecessor`, `failed_meter_ids`, `future_overlay_messages`, `waiting_messages`, `outgoing_messages` | `start_query`, `handle_overlay_message`, `buffer_future_message`, `end_overlay_round`, `send_overlay_message_batch`, `handle_ping_message`, `handle_round_timeout` | batches early, late, out of order; timeouts against late pings; crashes that a send reports or does not; a query that overtakes the one before; recursion over several rounds |
| **Overlay graph**: `util/Overlay.*`, `util/PrimeModuli.h` | none (memo tables) | `gossip_target`, `gossip_predecessor`, groups, tree parent and children, `pick_proxies` | modular arithmetic with C's `%`, uneven last groups |
| **Tree aggregation**: `TreeAggregationState.*`, aggregation half of `ProtocolState` and `MeterClient.cpp`, `messaging/AggregationMessage.*` | children needed and received, intermediate message, `future_aggregation_messages`, phase | `initialize`, `handle_message`, `compute_and_send_aggregate`, `start_aggregate_phase`, `send_aggregate_if_done` | aggregates early or of another query; children that fail; no timeout |
| **UtilityClient** | `query_num`, `query_finished`, `query_timeout_timer`, current and stored results, pending batch | `start_query`, `start_queries`, `handle_message`, `end_query`, timeout | timer against result, batches started from inside handlers, late results, timers that a build never lets fire |
| **LinuxTimerManager** | `timer_handles`, `timer_callbacks`, `cancelled_timers`, queue of fired timers | `register_timer`, `cancel_timer`, signal handler, `callback_thread_main` | client threads, a signal handler and a callback thread; a registration without a lock that any of them can cut into; delays that do not fit |
| **CtProtocol** (`CtProtocolState.*`) | shuffle/echo phase, proxy values, echo sets | onions out, relay, echo, `send_aggregate_if_done` | last round of one phase starts the next |
| **HftProtocol** (`HftProtocolState.*`, `util/Random.h`) | scatter/gather phase, `current_flood_messages`, `relay_messages`, proxy values | scatter, gather, flood | choice of relays; a flood that has to reach a relay and come back; duplicates |
| **BftProtocol**, **CrusaderAgreement** | proxy values, `signed_proxy_values`, agreement phase | setup, shuffle, agreement phases 1 and 2 | faulty proxies, several signatures in a message, signatures passed on, lost messages |
| **PathFinder** (`util/PathFinder.*`) | none | `find_paths` over the gossip graph | bound on rounds, disjointness |
| **Simulation core** (`EventManager`, `Event`, `SimTimerManager`) | `event_queue`, `timeout_queue`, `last_gc_time` | submit, cancel, run | cancelled events that are still queued, garbage collection, ties in time |
| **Simulated network** (`Network`, `SimNetworkClient`, `SimCrypto`, `SimUtilityNetworkClient`, `Simulator`) | failed meters, busy flags, accumulated delay, `incoming_message_queue` | send, receive, `delay_client`, `resume_from_busy` | a delay that grows while it lasts; messages queued behind a busy client |
| **TCP networking** (`networking/*`) | `sockets_by_id`, epoll set, `sender_buffers` | connect, send, `monitor_incoming_messages` | segments, short reads, one thread that reads, connects and waits for room in buffers, connections that drop |
| **Messages and serialization** (`messaging/*`) | none | `to_bytes`, `from_bytes` | byte layouts only |
| **Onions and cryptography** | keys | build, peel, sign | external cryptography |
| **Meters and devices**, **utilities, configuration** | consumption data | - | opaque to the protocols |

How they interact.  `UtilityClient` sends `QueryRequest`s to every meter and
receives one `AggregationMessage` per group.  A `MeterClient` passes each
message to its `ProtocolState`, or buffers it, or rejects it, after comparing
query number and round.  `ProtocolState` calls the protocol's hooks
(`start_query_impl`, `handle_overlay_message_impl`, `end_overlay_round_impl`)
and through them itself again; it sends over a `NetworkClient` whose `send`
returns `false` when the other side is known to be down, and gets its timeouts
from a `TimerManager`.  In the simulator all of this happens on one thread; in
the Linux build timer callbacks run on a thread of their own.

What makes each component correct:

- *rounds*: nobody passes a round before its live predecessor has entered it;
  the batch a meter waits for is never lost; only dead meters are given up;
  every overlay phase ends; queries do not mix;
- *graph*: target and predecessor are inverse, every meter is reached, the
  parent and child functions describe one tree per group, proxies are others;
- *aggregation*: each member's value is summed once, in its own query; nobody
  waits except above a crash; an aggregate is sent once;
- *utility*: a query ends, by results or by its timeout, and one that is not part of
  a batch only once;
- *timers*: a cancelled timer does not run, every other one of less than a second
  does, no look-up of the callback thread fails;
- *Ct*: a value reaches its proxies in time and nobody else, and survives the
  crashes tolerated;
- *Hft*: the counted rounds are enough for both floods, and only a crash of
  owner, relay or proxy keeps a value from a proxy;
- *Bft*: nothing is accepted that no correct proxy was sent, what one proxy
  accepts in phase 1 the others accept, and without lost messages enough correct
  proxies accept all that the utility has signed;
- *simulation*: a busy client wakes once, handles its messages in the order they
  came and forgets none; timers keep their contract;
- *TCP*: messages are handled whole and in order, all that arrives is read, and
  nobody waits for ever to send to a process that reads.

The hazards of this code, each at its line, are in `PROJECT.json`.

## 2. Modules

| Module | Models | Composition |
|---|---|---|
| `Overlay` | `util/Overlay.cpp`, `util/PrimeModuli.h` as operators | used by `MCRoundOverlay`, `TreeAggregation`, `PathFinder` |
| `PathFinder` | `util/PathFinder.cpp`, and a message's journey along a path | `EXTENDS Overlay` |
| `MCOverlay` | a walk over all small overlays, proxies and paths | `EXTENDS PathFinder` |
| `RoundOverlay` | the round structure at all meters, network, crashes; refinement mapping | hops are a constant; `GossipRounds` |
| `GossipRounds` | abstract: the barrier of a round | implemented by `RoundOverlay` |
| `MCRoundOverlay` | real hops, and that they spread word to everyone | `RoundOverlay`, `Overlay` |
| `ProtocolRounds` | the rounds as protocols see them, with what they carry | `EXTENDS PathFinder`; rounds as in `GossipRounds` |
| `CtProtocol` | Shuffle and Echo of the crash-tolerant protocol | `EXTENDS ProtocolRounds` |
| `MCCtProtocol` | that `find_paths` finds what a value needs | `EXTENDS CtProtocol` |
| `HftProtocol` | Scatter and Gather of the flooding protocol | `EXTENDS ProtocolRounds` |
| `MCHftProtocol` | that floods get around the failures tolerated | `EXTENDS HftProtocol` |
| `BftProtocol` | Shuffle and Crusader agreement of the Byzantine protocol | stand-alone; phases in place of rounds |
| `MCBftProtocol` | symmetry of the proxies | `EXTENDS BftProtocol` |
| `TreeAggregation` | one aggregation group, up to the utility | `EXTENDS Overlay` |
| `UtilityClient` | the utility, in the crash-tolerant builds | stand-alone; meters as an environment |
| `TimerManager` | abstract: the contract of `util/TimerManager.h` | implemented by `LinuxTimerManager` and `SimNetwork` |
| `LinuxTimerManager` | the timers of the Linux build | `TimerManager`; clients as an environment |
| `EventManager` | the simulator's queues and their loop | used by `SimNetwork` |
| `SimNetwork` | the simulated network and timers | `EXTENDS EventManager`; `TimerManager`; meters as an environment |
| `TcpNetwork` | sockets, streams and the thread that monitors them | stand-alone; handlers as an environment |
| `OverlayProofs` | lemmas about the operators of `Overlay` and `PathFinder` | `EXTENDS PathFinder` |
| `RoundOverlayProofs`, `CtProtocolProofs`, `HftProtocolProofs`, `BftProtocolProofs`, `SimNetworkProofs` | theorems | extend their module; those of `CtProtocol` and `HftProtocol` also `OverlayProofs` |
| `TreeAggregationProofs` | theorems about the trees: `TreeAggregation` and `MCOverlay` | extends both, and `OverlayProofs` |
| `PlatformProofs` | theorems about `UtilityClient`, `LinuxTimerManager` and `TcpNetwork` | extends all three |

Operators commented "fault" are plausible slips in the code.  No action uses
them; each property is shown to fail when the definition after the fault is
replaced by it, so that no property holds by the shape of its model.

### RoundOverlay

One meter per ID.  State and code: `query` is `get_current_query_num()`,
`overlay` is `is_in_overlay_phase()`, `timer` says whether
`round_timeout_timer` is registered, `pinged` is
`ping_response_from_predecessor`, `failed` is `failed_meter_ids`, `future` is
`future_overlay_messages`, `waiting` is what earlier queries left in
`waiting_messages`.  `skipped` is a history of the rounds left without a
batch.  `net` and `pings` are the network, `crashed` and `issued` the
environment.

`EndOverlayRound` is the whole of `end_overlay_round` with everything it calls:
sending the batch, pinging the new predecessor, setting the timer, looking into
`future_overlay_messages`, and going on at once for as long as a batch is
there or the predecessor is known to be down.  All of the callers end in it:
`StartQuery` (`start_query`, which enters round 0), `HandleBatch`
(`handle_overlay_message`) and `GiveUp` (`handle_round_timeout`).
`BufferBatch`, `HandleBatch` and `DropBatch` are the three branches of
`MeterClient::handle_message(OverlayTransportMessage)`; `KeepWaiting` is the
other branch of `handle_round_timeout`; `ReceivePong` is
`handle_ping_message`.

Abstractions.
- A batch is its final message, the one that carries `is_final_message`; the
  others end no round.  Its query number is that of the query the meter is in,
  unless all it has for the target is left over from an earlier query
  (`FinalQueries`), as `send_overlay_message_batch` never looks at query
  numbers.  `HoldsMessages` says whether the protocol lets messages wait for a
  target (Ct, Bft) or floods them at once (Hft), so that none is left over.
- A ping and its answer are one exchange.  `Crash` chooses which of the
  exchanges with the meter that stops are answered already.
- A send to a crashed meter fails, and the sender notes it, or appears to
  succeed (`SilentLoss`), as `Socket::write` may.
- Query requests reach a meter in the order in which they were sent; they are
  the only messages with an order.  Batches are reordered at will.
- Handlers are atomic, as in the simulator.  The Linux build locks nothing
  between the thread of messages and the thread of timers; see section 7.
- With `Synchronous`, a ping is answered within `OVERLAY_ROUND_TIMEOUT`.
  Without it a live predecessor may be given up, as in the code; only the
  properties that say so assume it.

### ProtocolRounds, CtProtocol and HftProtocol

Messages with different values do not influence each other, so one value is
followed: that of `meter_id`, chosen in `Init` with its `proxies`.
`proxy_values` is the set of meters that have it in the member of that name.
A message is the path it has left: an onion of encrypted layers, a
`PathOverlayMessage` and a flooded message in its layer travel alike.
A handler (`handle_overlay_message`) is the whole of it: forwarding or keeping
the value, the end of the round, and that of a phase.

The round structure is what `GossipRounds` promises and `RoundOverlay`
implements: a meter ends a round with its predecessor's batch (`Arrives`), or
without it when the predecessor is down (`Skips`).  Timers, pings and
`failed_meter_ids` are not repeated.  A batch that a skip overtakes is lost.  A
batch that arrives early is in `net` until its round, whether it is under way or
in `future_overlay_messages`.  The wrong query number, which the phase handlers
reject, does not occur within one query.

In `CtProtocol`, `Routes` are the paths `find_paths` returns.  They are fixed in
`Init`, a pure function of meter, proxies and first round; Echo starts in the
same round everywhere.  `SendHeld` sends what is for the target of a round and
keeps the rest in `waiting_messages`.

In `HftProtocol`, `current_flood_messages` goes out in every round, whoever the
target is; the copies a flood makes, encrypted or not, are one message.  The
`relays` are chosen as `sample_range_excluding` chooses them (section 5).

### BftProtocol

The proxies of one set of values, one in each group.  A phase is the unit of
time: `PhaseOver` says that all that correct meters sent in it has arrived.  That
the counted rounds are enough for it is assumed here, and checked for the
shorter phases of the other two protocols.  A proxy's messages of one phase are
handled together, since the sets they are added to are read at its end only.  The
paths from one meter share no relay (`PathsDisjoint`), so that a `Multicast` of a
value loses at most one message for each failed meter that is no proxy
(`failed_relays`); but each multicast may lose as many, as nothing bounds the
losses of a run.

A signature is its signer, and `signed_proxy_values` the signers a proxy has for
a value.  A message carries a set of signatures, as `SignedValue` does in the
code, with the one that its iteration begins with (`first`):
`handle_phase_1_message` keeps all of them when the value has none yet, and adds
the first one otherwise.  `faulty` proxies do as they like within what they can
sign: `HandleFaulty` is a message of either phase with any signatures of their
own and of those they have been sent (`Known`), one or several, that comes before
the others of its phase or after.

The assumption is that signatures in messages are genuine.  The code verifies them
in part: `handle_phase_1_message` looks at the first entry of a message's
signatures (`CrusaderAgreementState.cpp:98-100`), and keeps them all (line 108).
What it makes of a message with other entries is outside the model, and none of
the properties or theorems says anything about it.

`EndShuffle`, `finish_phase_1` and `finish_phase_2` are the branches of
`end_overlay_round_impl` with what `CrusaderAgreementState` does in them.

### TreeAggregation

Every member of one group, with its query, `protocol_phase`,
`aggregation_phase_state` (children needed, messages received), and
`future_aggregation_messages`.  Sums are bags of values tagged with their query
and their holder, so that a value summed twice or in another query shows.
`StartAggregatePhase` is `start_aggregate_phase` with
`TreeAggregationState::initialize` and the loop over buffered messages;
`HandleAggregate` and `BufferAggregate` are the branches of
`MeterClient::handle_message(AggregationMessage)`.  `Aggregates` keeps what
the code does after the last child needed: each further message sends again,
with the own value added again to the same intermediate message.

`StartAggregatePhase` waits until every live member has started the query:
that is what the overlay phase before it ensures (`NobodyLeftBehind`, checked
in `RoundOverlay`).  The failed children a member knows of are any subset of
the crashed ones.  Messages are copied when sent, as over TCP.

### UtilityClient

`query_num` to `pending_batch_queries` are the members of the same names;
`timers` are the registered timers, numbered by `next_timer`; `ended` counts
calls of `end_query`.  `handle_message` is split by its outcomes into
`LateResult`, `PartialResult`, `LastResult` and `LastResultInBatch`; in the
last, `end_query` starts the next query with a timer and `handle_message`, which
then finds `query_finished` false again, sets another one over its handle.
`RootReports` lets a root report once for a query it was sent, at any later
time.  `honoured` says after which delays the timers of the build fire: after
all of them (the simulator), after those of `handle_message` only, or after none;
the Linux build fires those of less than a second (section 5), which that of
`start_query` is not.  A timer with another delay is `silent`: registered, and
never fires.  Which result is stored is a choice (`StoreResult`), since
`most_contributors` is never updated and the container is unordered.  Callers
respect the comment of `start_query` (`Idle`).  `batched` remembers whether
there ever was a batch: what a batch breaks (section 5) is claimed of queries
one by one only.

### LinuxTimerManager

`register_timer` is modelled line by line (`Create` to `IncrementId`), as it takes
no lock: `next_id` is read for the signal, for each map and for the return value,
and written last, and signals, cancellations and the callback thread can cut in
anywhere.  A kernel timer is a number, `timer_handles` and `timer_callbacks` say
for each ID whose entry it is.  `Threads` register timers; one of them is the
`callback_thread`, which does so within a callback.  `Overlap` says whether one
may be in `register_timer` while another is.  Nothing in the code prevents it, and
what comes of it is in section 5; the run and the theorems are about one at a time.

`wait` is `delay_ms * 1000000` as the build computes it, an `int` that wraps, in
units of 64 ns; `Arms` is what `timer_settime` accepts (external).
`StartCallback`, `FinishCallback` and `DiscardCancelled` are the loop of
`callback_thread_main`, each a section under its mutex.  The order of the queue of
fired timers is not kept, since expiry in any order gives every order of the queue.

`TimerManager` is the contract, with the timers that have neither run nor
been revoked as `pending`.

### EventManager and SimNetwork

Events are records with a `fire_time`; sets stand for the two priority queues,
as nothing is submitted twice and ties may go either way.  `TakeEvent` is a turn
of the loop of `run_simulation`, garbage collection included.  `running` is the
event the loop is in, and `working` the call of a `MeterClient` inside of it:
until it returns, the meter may `Compute` (a call of `SimCrypto`, which delays
the client), `Send`, and register and cancel timers, in any order.
`receive_message`, `resume_from_busy`, `delay_client` and `network_send` are the
functions of those names; `ReceiveQueued` is a turn of the loop in
`resume_from_busy`.  Meters fail before the query, which is when `Simulator`
fails them.  The utility's client has no state and is left out but for its query.
`KeepsContract` maps timers that are queued, cancelled or running to the same
abstract `pending` as `LinuxTimerManager` does.

### TcpNetwork

A connection is an ordered pair of processes, as each opens a socket of its own
to whom it sends to.  `stream` is what was sent and not read, `taken` how much of it
the kernel has taken from the sender, `Capacity` pieces at most at a time, and
`available` how much has arrived: `Arrive` is a segment.  `Write` is a turn of
the loop in `Socket::write`, which waits while there is no room; the call returns
when all is taken.  A process is `Polling` when it is in its loop over the epoll
set; one that sends is not, until it has connected and written: the thread that
waits for room in the buffers of another is the one that would make room in those
of its own connections.  `WriteFails` is a write to a process that has stopped: the
first may succeed, any other fails, or stops the writer, since nothing ignores
SIGPIPE.

`Read` is `recv` with `MSG_WAITALL` on a socket that does not block: it takes what
there is.  After a `short` read some of a message is taken for a size, and what
follows is any bytes (`ReadGarbled`), or an exception that stops the process.
`handled` is what was handled on a connection before that.

### Overlay and PathFinder

One operator per function, by the same name.  The table of prime moduli ends
at 37, beyond the overlays TLC can walk.

In `PathFinder` the search is a recursive function over rounds (`infected`), as
its loop is, with one turn of the loop in `infect`; an infected node is recorded
with its path, where the code follows `parent` pointers.  `find_path` is the
result, or `NoPath` where the code throws.  `find_paths` is a function that adds one
target after the other (`find_another`).  In one round no two nodes send to the
same one, so the order of the unordered set the code walks does not matter.
`MCOverlay` chooses a node, a phase and proxies one group at a time.

## 3. Runs

| Run | Instance | What it shows |
|---|---|---|
| `rounds_crash` | 3 meters, rounds 0-2, 1 query, 1 crash, silent or not | `RoundsInStep`: no batch of another round ends a round; `AwaitedBatchOnItsWay`: the batch a meter waits for is never lost, rejected or overlooked; `OnlyCrashedSkipped`: only dead meters are given up; `BarrierHolds`: refinement of `GossipRounds`; `OverlaysEnd`: every phase ends |
| `rounds_restart` | 3 meters, rounds 0-1, 2 queries, no crash | a second query may arrive anywhere in the first: `BufferedBatchesAhead`, `NobodyLeftBehind`, `OverlaysEnd` |
| `rounds_leftover` (violation) | as before, protocol that holds messages | `OverlaysEnd` fails, see section 5 |
| `overlay` | all homes 4-29, all numbers of groups, all nodes and rounds; up to 13 meters all proxies and paths | `GossipReachesEveryone`; `GroupsAgree`: groups, trees and proxy choice describe the same groups; `PathsDisjoint`: the paths of a value share no meter; `PathsFitPhase`: all are found, and their phase is long enough for them |
| `ct` | 5 meters, 1 failure tolerated, every meter's value and every choice of proxies, 1 crash | `OnlyProxiesHoldValue`: a value is held by its proxies only, which the copying at the end of Shuffle relies on; `PhasesLongEnough`: without a crash the counted rounds are enough, and no message is left over; `ValueSurvives`: a tolerated crash at any moment leaves the value with a live proxy; `CleanPathsDeliver`: only a crash on all paths to a proxy keeps the value from it; `OverlayEnds` |
| `hft` | the same, and every choice of relays | `FloodsArrive`: the counted rounds are enough for both floods, also when a relay has to get its own message back; `LiveRelayDelivers`: a tolerated crash keeps the value from a live proxy only by stopping its meter or its relay |
| `bft` | 3 proxies, 2 values that the utility has signed or not; 1 faulty proxy, or 1 failed meter that loses a message of every multicast | `AcceptedWasShuffled`: nothing is accepted that no correct proxy was sent; `AcceptanceSpreads`: what one accepts in phase 1 the others accept in phase 2, but for those whose message is lost; `EnoughCorrectAccept`: without lost messages, `log2n + 2` correct proxies accept all that the utility has signed |
| `tree` | 13 meters in 3 groups, the group of 4, 2 queries, 1 crash | without a crash `RootSumsAll`: the root reports each value of the first query once; with one `OnlySubtreeSummed`, `StuckOnlyBelowCrash`, `LastQueryAnswered` |
| `utility` | 2 groups, 1 failure tolerated, 3 queries, one by one or in batches of up to 3 | timers that fire after any delay, short ones or none: `RunningQueryHasTimer`; `CompletesOnce`, of single queries; `QueriesComplete`: a query ends once its timer is one that fires |
| `timers` | 3 timers of 900 or 1000 ms, a client thread and the callback thread | `EntriesOutliveTimers`: no look-up of the callback thread fails, or finds another timer; `BriefTimersFire`: timers of less than a second run or are cancelled; `KeepsContract`: refinement of `TimerManager` |
| `sim` | 2 meters, of which 1 may have failed; the query and 3 messages, 1 timer, 3 computations | `BusyClientWakes`: a busy client has one event that wakes it, what it sent has left by then; `HandledInOrder`; `NothingForgotten`: when no event is left nobody is busy, no message is queued, every timer ran or was cancelled; `KeepsContract`: refinement of `TimerManager` |
| `tcp` | 2 processes, 4 messages, 1 crash; a size in one piece, a message in two, buffers of four | `HandledWhole`: messages are handled whole and in order up to a short read; `EverythingRead`: all that arrives is read, after short reads too; `ReadersAreNotWaitedFor`: nobody waits for ever to send to a process that reads |

Bounds, and why they are enough.  Three is the least number of meters for which
target, predecessor and a third meter differ; with hops 1, 2, 1, ... two rounds
already reach everyone, and round 2 reuses the hop of round 0, so that a batch
of one can be mistaken for one of the other.  `NobodyLeftBehind` needs
`LastRound` to be at least log2 of the number of meters: with fewer rounds
word has not got around (five meters with rounds 0-1 violate it, as they
should), and every protocol's overlay phase is longer than that.  `MaxQuery` 1
is one query overtaken by the next.  One crash meets every combination of
noticed and unnoticed, before and after each send; two of three meters gone
leave nobody to wait for.  In the tree a group of four has a node with two
children, one of which has one of its own: every shape of node.  Paths are
looked for in overlays of 5, 11 and 13 meters with every number of groups, all
the choices that TLC can walk; in larger overlays a path may be longer than
its phase (section 5).  `CtProtocol` tolerates
`ceil(log2 n)` failures, which needs 11 meters at least for groups of two; its
run has 5 meters and 1 failure, so that all interleavings of 17 rounds can be
explored, with meters up to 2 rounds apart (`MaxLead`).  In
`HftProtocol` log2 of 5 and 1 failure give phases of 4 rounds, in which
every one of the 5 meters is still reached with one gone.  In `BftProtocol` 3 proxies are
the `2 * FAILURES_TOLERATED + 1` groups of `BftProtocolState` for one failure; with
two values a proxy can treat one of them differently, and the losses of one
multicast are not those of another.  Three
queries are the first of a batch, one in the middle and the last one.  Three
timers: one in its callback, one in the queue, one armed or being registered; 900 ms
fit into `tv_nsec` and 1000 ms do not.  In the simulator,
computations of 700 and 2300 us make a client busy at the first, at the second
or not yet, and leave a rest below a millisecond; latencies of 2 and 3 ms let
messages overtake; garbage is collected after 1 ms instead of 20, so that it
happens while cancelled events are queued.  Over TCP a message in three pieces
has a short read in its size's place, in its middle and none; four messages are
two in each direction, and a buffer of four pieces takes a message and a part of
the next, so that the sender of two waits for the reader.

Deadlock is checked in `bft` and `sim`, whose end is a stuttering step of its
own (`Over`).  In the other runs it is not: those models stop when the last query
or message of their bound is over.

## 4. Fairness

- `RoundOverlay`: the network delivers what it does not lose (one weak
  fairness for each meter's handlers of requests and batches together over all
  meters: steps there are finite, so each is delivered in the end), answers to
  pings arrive at each meter and registered timers fire (`TimerManager.h`
  promises as much).  Nothing makes the utility issue a query, nothing crashes
  for sure.
- `CtProtocol`: the same, with the rounds of a meter as one action.
- `TreeAggregation`: members process what has arrived, an overlay phase ends
  (`OverlaysEnd`), and the utility issues its queries.
- `UtilityClient`: registered timers with an `honoured` delay fire, whichever delays
  the build honours.  No result has to arrive.
- `LinuxTimerManager`: the kernel signals armed timers, and schedules the
  callback thread, which goes on in `register_timer` and whose callbacks return.
  Other threads may stop anywhere.
- `TcpNetwork`: the kernel connects and delivers to processes that live, and
  threads that are neither stopped nor waiting go on: a write does when there is
  room, or when it fails.  Nobody has to send.
- `HftProtocol`, `BftProtocol` and `SimNetwork` assume none: their properties are
  about what holds whenever a phase or the simulation is over.

## 5. Findings

*A leftover message wedges a round* (`rounds_leftover`,
`ProtocolState_impl.h:218`).  `start_query` does not clear
`waiting_messages`.  When a query overtakes the one before, a message of the
old query may be all a meter holds for its target; no dummy is sent, the old
message carries `is_final_message`, the receiver rejects it as old, and waits
for as long as its predecessor answers pings.

Seven more comments of the repository, each with what the code does in its place,
are stated as properties of the modules.  None has a run of its own: TLC refutes
each when it is added to the cfg named here.

| Property | Add to | What the comment says, and the code does |
|---|---|---|
| `SumsOfOneQuery` | `TreeAggregation.cfg` (invariant) | aggregates of another query are "rejected" (`MeterClient.cpp:43`, `:47`); but in the aggregation phase (line 41) the query number is not looked at, and a child's aggregate of the last query is summed |
| `RelaysAreNonProxies` | `MCHftProtocol.cfg` (invariant) | relays are picked "from non-proxy nodes" (`HftProtocolState.cpp:43`); `sample_range_excluding` intersects the range with the values to exclude (`util/Random.h:41`, against lines 30-31), so that every relay is a proxy.  A crash can cost a value a relay and a proxy at once, and `FAILURES_TOLERATED` crashes can lose it (`LiveRelayDelivers` is what holds) |
| `ResultsIndexed` | `UtilityClient.cfg` (invariant) | results are "indexed by query number" (`UtilityClient.h:47`); a late one is counted for, and may be stored as, the result of the query that is running (`UtilityClient.cpp:18`) |
| `TimersFire` | `LinuxTimerManager.cfg` (property) | a timer "will invoke the specified function after a delay" (`TimerManager.h:25-26`); one of a second or more never does, as the whole delay goes into `tv_nsec` (`util/LinuxTimerManager.cpp:74`) and nothing looks at what `timer_settime` returns.  Query timeouts are rounds times 100 ms (`UtilityClient.h:105`).  From 2148 ms on `delay_ms * 1000000` wraps, and 5000 ms becomes 705 ms |
| `IdentifiersUnique` | `LinuxTimerManager.cfg` (invariant), in the place of its other properties and with `Overlap = TRUE` | `register_timer` returns "a unique identifier" (`TimerManager.h:29-30`); a timer that expires before its registration is over runs a callback that registers another under the same ID (`next_id` is incremented at line 77).  `EntriesOutliveTimers` and `KeepsContract` fail with `Overlap = TRUE` too: `at()` throws in the callback thread |
| `NoShortRead` | `TcpNetwork.cfg` (invariant) | reads "block until the entire message has been read" (`BaseTcpClient_impl.h:163-164`); the socket does not block (line 132), and what is left of the message is taken for the next size |
| `SendReturns` | `TcpNetwork.cfg` (property) | `send` returns false "if a connection could not be made" (`NetworkClient.h:34`); a first send to a process that has stopped tries to connect for ever (`networking/Socket.cpp:38`).  It is refuted with `MaxCrashes = 0` too: two processes whose buffers are full, and whose only threads write to each other, wait in `::write` (line 93) |

Further disagreements, seen while modelling.

Queries and timers:
- a query can complete twice (`UtilityClient.cpp:28`).  In a batch the timer
  that `end_query` sets for the next query is overwritten, never cancelled, and
  fires into whatever query is running, or none;
- the count of contributors starts at one before anything is added
  (`AggregationMessage.h:112`, against lines 99-100), so each hop adds one;
- when a child is taken for failed but both children's aggregates are
  buffered, the aggregate is sent twice (`ProtocolState_impl.h:96-100`,
  against line 94), which `OnlySubtreeSummed` allows for;
- `find_paths` looks for paths within `log2n * targets + 3` rounds
  (`util/PathFinder.cpp:70`), Shuffle and Echo last `F + 2 * log2n + 1`
  (`CtProtocolState.cpp:101`).  With 29 meters and the 5 failures tolerated
  there, simulation finds paths longer than Shuffle;
- Echo does not make the live proxies agree: a crashed meter may be the relay
  both of the only path from the meter to a proxy and of that from the other
  proxies (`CleanPathsDeliver` is what holds);
- an Echo message is encrypted for the last meter of its path
  (`CtProtocolState.cpp:113-114`), but its relays read the rest of the path
  after `rsa_decrypt` (`ProtocolState_impl.h:256-268`), which works only
  because both libraries at hand encrypt nothing;
- an aggregate buffered in a query that is overtaken is summed, and may be sent,
  in the next one;
- a timer cancelled from its own callback leaves its ID in
  `cancelled_timers` (`LinuxTimerManager.cpp:87`, against
  `TimerManager.h:35-36`).

Flooding and agreement:
- `log2n + FAILURES_TOLERATED` rounds (`HftProtocolState.cpp:114`, `:128`) are not
  always enough to flood around `FAILURES_TOLERATED` crashes.  The
  hops `2^round mod n` of Gather depend on where Scatter ended: with 19 meters two
  failures are tolerated (`HftProtocolState.h:46`), and with meters 0 and 9
  crashed before it a Gather that starts at meter 10 never gets to meter 3 (nor
  any rotation of these four: computed from the hops, not by a run);
- `pick_without_replacement` draws from 0 to `max` inclusive and indexes `max`
  booleans (`util/Random.h:62`, against line 51);
- with as many failures as tolerated a value can be lost in `BftProtocol`: a proxy
  does not keep the signature it makes itself (`BftProtocolState.cpp:119-127`), and
  needs `log2n + 1` of others (`CrusaderAgreementState.cpp:35`), of whom there may
  be `log2n` (`EnoughCorrectAccept` is what holds);
- `BftProtocolState::start_query_impl` takes a reference where its caller passes a
  pointer (`BftProtocolState.cpp:28`, `ProtocolState_impl.h:61`), so that the
  Byzantine build does not compile.

Simulator and sockets:
- `accumulated_delay_micros` makes a client busy above 1 ms, not at it
  (`simulation/SimNetworkClient.cpp:139`, against `SimNetworkClient.h:42-43`);
- a result of an earlier query cuts off the round-trip times of later ones
  (`simulation/Simulator.cpp:187`, a `resize` called safer on line 186);
- a write to a connection that the other side has closed may stop the process by
  SIGPIPE (`networking/Socket.cpp:93`), which nothing ignores, where `send` is to
  return false.

## 6. Theorems

For every value of the constants that the named assumptions allow:
`ConstantsAssumption` (any number of meters, rounds, queries, crashes, any hops
between 1 and N-1), `RoundsAssumption` (two meters and more),
`BftAssumption` (finitely many proxies, no more failures than tolerated, any
values), `TreeAssumption` (any number of meters that makes groups of two and more,
two groups and more, which `aggregation_group_for` counts on at
`Overlay.cpp:114`; any crashes and queries), `UtilityAssumption`, `TimerAssumption` (any threads, delays
of a millisecond and more), `SimAssumption` (finitely many meters with IDs that are no negative
numbers, `UTILITY_NODE_ID` being -1 in `messaging/Message.h:13`; any latencies,
computations and bounds) and `TcpAssumption` (any processes and
messages, of any number of pieces, and buffers of any capacity).

`WalkAssumption` says that the table of moduli reaches as far as the walk of
`MCOverlay`.  TLC evaluates all of these assumptions in the runs.

| Theorem | States | Where |
|---|---|---|
| `OverlayProofs!EveryOffset` | powers of 2 in any `n - 1` rounds, for `n` of the table | always |
| `OverlayProofs!ModPow` | what the loop of `mod_pow` computes, for any numbers | always |
| `TreeAggregationProofs!Gossip` | `[]GossipReachesEveryone` | always |
| `TreeAggregationProofs!Groups` | `[]GroupsAgree` | always |
| `OverlayProofs!NodeDisjoint` | paths of one `find_paths` share no node, for any `n` and targets | always |
| `TreeAggregationProofs!Disjoint` | `[]PathsDisjoint` | always |
| `CtProtocolProofs!FoundDisjoint` | `RoutesDisjoint`: paths of one value share no meter | always |
| `RoundOverlayProofs!TypeCorrect` | `[]TypeOK` | always |
| `RoundOverlayProofs!RoundsStayInStep` | `[]RoundsInStep` | always |
| `RoundOverlayProofs!BuffersStayAhead` | `[]BufferedBatchesAhead` | always |
| `RoundOverlayProofs!SkipsOnlyCrashed` | `[]OnlyCrashedSkipped` | `Synchronous` |
| `RoundOverlayProofs!ImplementsBarrier` | `BarrierHolds`: refinement of `GossipRounds` | `Synchronous` |
| `RoundOverlayProofs!AwaitedNeverLost` | `[]AwaitedBatchOnItsWay` | `~ HoldsMessages` |
| `RoundOverlayProofs!RequestReachesAll` | `[]NobodyLeftBehind` | `Synchronous`, `SpreadsToAll` |
| `CtProtocolProofs!ValuesStayWithProxies` | `[]OnlyProxiesHoldValue` | `RoutesFit` |
| `CtProtocolProofs!CountedRoundsAreEnough` | `[]PhasesLongEnough` | `RoutesFit` |
| `CtProtocolProofs!CleanPathsSuffice` | `[]CleanPathsDeliver` | `RoutesFit` |
| `CtProtocolProofs!ValuesSurvive` | `[]ValueSurvives` | `RoutesFit` |
| `HftProtocolProofs!CountedRoundsAreEnough` | `[]FloodsArrive` | `FloodsReach` |
| `HftProtocolProofs!LiveRelaysDeliver` | `[]LiveRelayDelivers` | `FloodsReach` |
| `BftProtocolProofs!AcceptedShuffled` | `[]AcceptedWasShuffled` | always |
| `BftProtocolProofs!PhaseOneSpreads` | `[]AcceptanceSpreads` | always |
| `BftProtocolProofs!EnoughCorrect` | `[]EnoughCorrectAccept` | always |
| `TreeAggregationProofs!RootSums` | `[]RootSumsAll` | always |
| `TreeAggregationProofs!Sums` | `[]OnlySubtreeSummed` | always |
| `TreeAggregationProofs!Stuck` | `[]StuckOnlyBelowCrash` | always |
| `PlatformProofs!TimeoutCovered` | `[]RunningQueryHasTimer`, batches included | always |
| `PlatformProofs!SingleQueriesCompleteOnce` | `[]CompletesOnce` without batches | always |
| `PlatformProofs!SingleQueriesLeaveNoTimer` | `[]NoStrayTimer` without batches | always |
| `PlatformProofs!CancelledNeverRuns` | `[]RevokedNeverRuns` | `~ Overlap` |
| `PlatformProofs!LookupsSucceed` | `[]EntriesOutliveTimers` | `~ Overlap` |
| `PlatformProofs!ImplementsTimerManager` | `KeepsContract`: refinement of `TimerManager` | `~ Overlap` |
| `PlatformProofs!IdentifiersApart` | `[]IdentifiersUnique` | `~ Overlap` |
| `SimNetworkProofs!BusyClientsWake` | `[]BusyClientWakes` | always |
| `SimNetworkProofs!MessagesHandledInOrder` | `[]HandledInOrder` | always |
| `SimNetworkProofs!NothingIsForgotten` | `[]NothingForgotten` | always |
| `SimNetworkProofs!SimulatorKeepsContract` | `KeepsContract`: refinement of `TimerManager` | always |
| `PlatformProofs!MessagesHandledWhole` | `[]HandledWhole` | always |

The hypotheses in the last column.  `~ Overlap` says that no thread calls
`register_timer` while another is in it; without it the four are false (section
5).  `Synchronous` is the timing assumption of
section 2, without which the property is not claimed either; `~ HoldsMessages`
is the protocol that floods: in one that holds messages, a leftover one makes
the property false (section 5).  `SpreadsToAll` says that the hops of a phase
carry word from any meter to every other one, in the one set of hops an instance
has (`GossipSpread`): it is the property of the table of moduli that
`GossipReachesEveryone` walks, and `MCRoundOverlay` assumes it of its
own hops (`GossipReaches`), so that TLC evaluates it.  `RoutesFit` says that
`find_paths` has a path to every proxy, and none that takes longer than its
phase.  `MCOverlay` walks that in overlays of up to 13 meters (`PathsFitPhase`),
`MCCtProtocol` assumes it of its instance.  `FloodsReach` says that in each phase a flood
gets from any meter to any other, and in Gather back to the first one, around
any `FAILURES_TOLERATED` meters; `MCHftProtocol` assumes it of its instance.
These are hypotheses of theorems and not assumptions of the modules, as not
all overlays have them: with 29 meters and 5 failures there are paths longer than
Shuffle, with 19 meters and 2 failures a flood of Gather may miss a live meter
(section 5).  What the theorems say is that nothing else can go wrong: no interleaving, no crash, no
batch that comes early, late or never.

*The graph.*  `ModPow` says that square-and-multiply leaves in `result` what
repeated multiplication would (`Powers`).  Its loop invariant is that `result`
times the power of `square` that `left` asks for does not change (`Turn`,
`Squares`).  So the offset of `gossip_target` doubles from round to round
(`NextPower`); that it takes every value but 0 within the first `n - 1` rounds is
calculated for each `n` of the table (`PowersOfTwo3` and so on), and the
same holds from any round on, as the next window of rounds loses one power and
gains an equal one (`EveryOffset`).  With `gossip_predecessor` as the inverse of
`gossip_target` (`OffsetInverse`) this is `GossipReachesEveryone`, in rounds as
late as one likes.  `log2n` finds a number above zero (`Log2Positive`).

*The groups.*  `GroupBounds`: what `aggregation_group_for` puts into a group is an
interval, that of `group_begin` and `group_size_of`, also for the last two groups;
`GroupsInOrder`: the intervals follow one another.  For any numbers of meters and
groups, `random_int_exclude` then chooses from such an interval and leaves out
one ID (`AllButOne`), and the arithmetic of parents and children meets in one
place (`ClaimedBy`, `TreeFollows`).  The invariant of the walk (`WalkInv`) says no
more than that it stays within an overlay.

*Paths.*  Round after round, the path of each infected node leads, after its
first node, through nothing that is excluded (`Infections`, `InfectKeeps`), and so
does the one to which `find_path` adds its target (`PathIsFree`).  What `find_another` finds is therefore disjoint
from what was found before (`AnotherIsDisjoint`), whether or not all are found, which
is `NodeDisjoint`.  The proxies of a meter are distinct, as each is of the group it
was picked for (`ProxiesDiffer`, `ProxiesInOrder`).

These are inductions over data.  The library's theorems for them cannot be used,
but a set of numbers is as good as a formula about a number: `Induction` is
proved from the well-foundedness of the subsets of a finite set, and what
recursive functions are is proved with it (`Recursion`, `Iteration`).

*Rounds.*  `RoundsInStep` is not inductive: a batch in `net` or `future` must
prove that its sender has been there.  `StepInv` adds `BatchesSent` (whoever a
batch is from has reached its round and query) and `TimersInQuery` (a meter in
the overlay phase, or with a timer, has a query).  Query and round of a meter
never go back (`ReachedStays`), so what a batch proves stays true.  All
of the effect of `EndOverlayRound` that the invariant depends on is collected
in one lemma (`EndOverlayRoundEffect`); `EndOverlayRoundKeepsStepInv` then serves
the three actions that end rounds, `OtherStepsKeepStepInv` the rest.  Neither
needs `Synchronous`: the theorem covers pings as slow as one likes, any
number of crashes, and leftover messages, none of which the runs go through
together.

*The barrier.*  `EndOverlayRound` may pass several rounds in one step, as the
code does when later batches are buffered already.  `ImplementsBarrier` shows
that each of them is one that `GossipRounds` allows: the predecessor is in
that round or beyond (`RoundsInStep`), or has crashed (`OnlyCrashedSkipped`).  The
latter rests on `DetectInv`: whoever is in `failed` has crashed, and a live
predecessor has answered, or has a ping of it or its answer under way
(`PredecessorAsked`).  What the proofs
need of a call of `end_overlay_round`, over however many rounds, is one relation
(`Passes`), which one lemma establishes (`EndOverlayRoundPasses`) and the others use.

`AwaitedNeverLost` rests on `BatchesAccounted`: what a meter has sent in its
query to a live meter is in `net`, in that meter's `future`, or of a round that
meter has passed.  In `future` it is of a later round than the meter's
(`BuffersStayAhead`), so that `end_overlay_round` finds it in time.  For
`RequestReachesAll`, `RequestSpread` says of every batch, and of every meter in
its round, that all those have started its query of whom word can have spread
to it in as many rounds (`GossipSpread`).

*A value's journey.*  `CtProtocolProofs` looks at every hop of every path as a
*leg*, with the round in which `find_paths` means it to be made.  `JourneyInv`
has six parts.  `Phases`: round and phase of a meter agree.  `Batches`: a batch
is for the target of a meter that has reached its round, and no other one is
for the same meter and round.  `OnSchedule`: a message that waits, or is in a
batch, is the rest of a path, at the meter and no later than in the round of its
next leg.  `Delivers`: if no meter has crashed that the value needs for a
leg, then the message is waiting before it, in a batch during it, and with the
proxy after the last one.  `OnlyProxiesHoldValue`, and what `Init` chose
(`Contribution`).  The four
theorems read it at the end of a phase.  `ValuesSurvive` counts: as many
disjoint paths as `FAILURES_TOLERATED + 1` cannot all have a crashed meter, by an
injection from groups into crashes (`SomePathIsClean`).  That two meters never
send to the same one in a round, on which the schedule of all of them rests, is
the arithmetic of `mod_pow` and `mod_subtract` (`TargetInverse`, `OneSender`).

*Floods.*  `FloodsReach` speaks of *ways*: a meter for each round of a phase,
each the one before or its target.  `FloodInv` says for every way through live
meters, and every round of it, that the meter there has the message in
`current_flood_messages` from that round on and has sent it in that round,
unless the destination got it (`Carries`).  `Got` means that the
destination has the message or a batch with it from a live meter, which it
cannot give up waiting for (`Pending`).  With it go `Phases` and `Batches`, as above, and
that nobody leaves a round before its live predecessor has entered it
(`InOrder`).  The sets of meters that the ways may use do not depend on who
crashes later, so that a crash only removes some of what is promised.  When
Scatter is over at a relay, what it got is what it floods in Gather
(`GatherReady`), and the second flood repeats the argument of the first.

*The tree.*  Half of `TreeAggregationProofs` is about data.  As groups are
intervals, the arithmetic of parents and children makes a tree of a group
(`Tree`), a subtree is the least set with its
root and the children of its members (`SubtreeClosed`, `SubtreeLeast`), it is
its root and the disjoint subtrees of the root's children (`SubtreeSplit`,
`SubtreesApart`), and the first member is above all (`RootAboveAll`).  What
`aggregate()` makes of a sequence of messages is shown message by message
(`FoldStepByStep`).  Both rest on inductions like those above (`LevelsDefined`,
`MergeDefined`).

`StuckInv` says where messages are and that they are sound (`TypeInv`), that nobody
is past the overlay phase of a query that a live member has not started
(`Together`), that a member in the phase waits for a child it counts on
(`Waits`), and that a child that is done has told its parent, or the message
is in flight (`Reports`).  With nothing in flight, a member that waits and whose
children were all done would have heard from as many children as it counts on
(`Pigeons`), so one of them waits too, and the last one in the tree that does has
a crashed member below it (`WaitsForWaiting`).  `OnlySubtreeSummed` is a part of
the types.  For `RootSumsAll`, `WholeInv` adds, as long as nobody has crashed, that
every message of the first query carries the whole sum of its sender's subtree
(`Exact`), that its sender is done (`Sent`), and that a member hears from a child
once (`Once`).  Both actions of the phase are reduced to one relation (`Advance`),
which the invariants are checked against once.

*Timers.*  `TimerInv` follows a registration through its lines: at most one thread
is in `register_timer` (`OneRegisters`), the timer it creates has the number
`next_id`, and every timer carries, and is returned under, its own number
(`NumbersAgree`).  Before it is armed it is not on its way, and its entries are
those stored so far (`RegisteringInv`).  In `WayInv`, a timer that ran is no longer
on its way, one cancelled before its callback and still on its way is marked in
`cancelled_timers`, and the timer in its callback has run.  `ImplementsTimerManager`
rests on the same invariant: every step is a step of the contract or leaves the
number of timers, `ran` and the pending ones alone (`StepKeepsContract`).

*Utility.*  `RunningQueryHasTimer` is inductive.  For single queries,
`SingleInv` counts: a query has ended once if it is past or finished, and not
at all if it is running or to come (`Due`), and no other timer is
registered than that of the running query.  `batched` never goes back
(`BatchedStays`), so that this is about the time before any batch.

*Agreement.*  `AcceptedWasShuffled` rests on `SignaturesVouched`: whoever has
signed a value, as far as a correct proxy knows, is faulty or has the value
itself.  Messages must vouch for as much (`MessagesOK`), through the network's
losses (`MulticastKeepsMessages`) and when a faulty proxy makes them up
(`KnownVouched`).  `log2n + 1` signers are more than can be faulty, so one of them
is correct and was sent the value (`SomeCorrectSigner`).  Neither the number of
proxies nor that of lost messages matters to it, nor how many genuine signatures
faulty proxies put into a message.  `AcceptanceSpreads` needs a
count besides: in `SpreadInv`, what a proxy has accepted in phase 1 has convinced,
or is on its way to convince, all correct proxies but one for each failed relay at
most (`Spreads`).  Nobody ends phase 2 while another is in phase 1 (`Together`).  For
`EnoughCorrectAccept`, `DeliveryInv` says where no relay has failed that a value,
and then the signature of each correct proxy, is with the others or on its way to
them until their phase ends (`Shuffled`, `SignedForOthers`), so that each has those
of all the others when it counts (`OthersAreEnough`).  With lost messages there is no
such count: with 7 proxies, 3 failures tolerated and 2 failed relays, 5 proxies
that got a value send the others 30 signatures, of which 10 may be lost; the 20
that are left can be 3 for each of the 7 but one, and nobody has the 4 it takes.

*Simulator.*  In `WakeInv`, a busy client has one event that will wake it, at
`busy_until_time`, unless that was just taken (`OneAlarm`), and what it sent leaves by
then (`SendsInTime`); no event is in the past (`OnTime`).  `OrderInv` ties
`incoming_message_queue` to what has arrived and is not handled, in order, in each
place `run_simulation` can be in.  `TimerInv` says that every timer is in
one place: to be taken, taken, run, or cancelled before it ran.  The contract of
`TimerManager` follows as for the Linux build.

*TCP.*  `StreamInv` says of every connection whose reads were not short that its
stream starts at the first message not handled yet, and holds one message after
another as they were sent, the last one cut off only if the sender has stopped
(`Carries`); a `Write` moves nothing but `taken`, which no read goes beyond.  What
was handled before a short read stays as it was (`HandlingSteps`).

Checked by TLC only:
- liveness (`OverlaysEnd`, `LastQueryAnswered`, `QueriesComplete`,
  `BriefTimersFire`, `OverlayEnds`, `EverythingRead`, `ReadersAreNotWaitedFor`),
  which is out of the prover's reach;
- `PathsFitPhase`, which is not true of all overlays (see above).

`TypeOK` of `RoundOverlay`, `RevokedNeverRuns`, `IdentifiersUnique` and
`NoStrayTimer` are proved and no run repeats them.

## 7. Not modelled, and the plan

Not modelled, and why:
- the contents of overlay messages in `RoundOverlay`, and the second IDs of
  meters, which run a second copy of the same handlers;
- in `UtilityClient`, signing contributions and the Byzantine choice of a result;
- the destructor of `LinuxTimerManager`, and simultaneous accesses of its threads to
  one map: the outcome of such a race is not defined, and the model puts one of them
  first.  The same goes for `ProtocolState` under the two threads of the Linux build;
- in `BftProtocol`, messages with signatures that are not genuine (section 2);
- what a process makes of the bytes after a short read, but that it reads them, and
  `shut_down` of the TCP clients;
- byte layouts, cryptography, consumption data, parsing and main programs: pure
  data, external code, or I/O without state;
- the vendored libraries (`libraries/spdlog`, `libraries/moodycamel`), which are
  most of the repository's lines: logging, and queues that are used as queues.

The plan, in order:

1. The utility of the Byzantine build: signatures of late queries, and the choice
   among results.
2. Compositions: `UtilityClient` with `TreeAggregation`; a restart in the middle of
   Shuffle or Echo.

New properties join the runs above where they share an instance, so that each
run stays one question asked of one instance.  An invariant that is proved for
every instance may make room for one that is not.
