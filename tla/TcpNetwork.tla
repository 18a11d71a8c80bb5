------------------------------ MODULE TcpNetwork ------------------------------
(***************************************************************************)
(* Messages between processes over TCP (networking/): a client opens one   *)
(* socket for each recipient and keeps it, and its monitoring thread reads *)
(* what others send and sends what handlers answer.  A handler that waits  *)
(* for a connection, or for room in the kernel's buffers, keeps the thread *)
(* from reading.                                                           *)
(*                                                                         *)
(* A message is a size and then its body.  The kernel takes it in parts    *)
(* when its buffers are full, and it may arrive in segments in any case.   *)
(* The sockets of incoming connections do not block, so that MSG_WAITALL   *)
(* returns what there is.  After such a short read the reader takes any    *)
(* bytes for a size; whatever it handles then is not recorded.  Processes  *)
(* stop and do not come back, and shut_down is left out.                   *)
(***************************************************************************)
EXTENDS Integers, Sequences, FiniteSets

CONSTANTS
  Process,
  SizeLength, BodyLength,   \* the pieces that a size and a message may arrive in
  Capacity,                 \* the pieces that fit into a connection's buffers
  MaxMessages,              \* bound: messages sent by all
  MaxCrashes                \* bound: processes that stop by themselves

ASSUME TcpAssumption ==
  /\ SizeLength \in Nat \ {0}
  /\ BodyLength \in Nat \ {0}
  /\ Capacity \in Nat \ {0}

Connection == {c \in Process \X Process : c[1] # c[2]}

VARIABLES
  up,
  sending,       \* the recipient of the message a process is sending
  sent,          \* the number of messages sent by all
  written,       \* the number of messages sent on a connection
  socket,        \* a connection's state: none, connected, accepted, reset, closed
  stream,        \* the pieces of these messages that were not read yet
  taken,         \* how many of them the kernel has taken from the sender
  available,     \* how many of them have arrived
  finished,      \* the sender's end is closed: nothing will follow the stream
  handled,       \* what receive_message was called with, before any short read
  short          \* history: connections that had a short read

tcp_vars == <<up, sending, sent, written, socket, stream, taken, available, finished,
              handled, short>>

Nobody == "nobody"

TcpInit ==
  /\ up = Process
  /\ sending = [p \in Process |-> Nobody]
  /\ sent = 0
  /\ written = [c \in Connection |-> 0]
  /\ socket = [c \in Connection |-> "none"]
  /\ stream = [c \in Connection |-> <<>>]
  /\ taken = [c \in Connection |-> 0]
  /\ available = [c \in Connection |-> 0]
  /\ finished = {}
  /\ handled = [c \in Connection |-> <<>>]
  /\ short = {}

\* Message n, and its size before it, piece by piece.
Body(n) == [k \in 1..BodyLength |-> <<n, "body", k>>]
Pieces(n) == [k \in 1..SizeLength |-> <<n, "size", k>>] \o Body(n)

Polling(p) == p \in up /\ sending[p] = Nobody

----------------------------------------------------------------------------
(* Sending. *)

\* A handler, or the application, packs a message to send.
Send(p, q) ==
  /\ Polling(p)
  /\ sent < MaxMessages
  /\ sending' = [sending EXCEPT ![p] = q]
  /\ sent' = sent + 1
  /\ written' = [written EXCEPT ![<<p, q>>] = @ + 1]
  /\ stream' = [stream EXCEPT ![<<p, q>>] = @ \o Pieces(written[<<p, q>>] + 1)]
  /\ UNCHANGED <<up, socket, taken, available, finished, handled, short>>

\* Socket's constructor: while connect() fails it is tried again.
Connect(p, q) ==
  /\ p \in up /\ sending[p] = q
  /\ socket[<<p, q>>] = "none"
  /\ q \in up
  /\ socket' = [socket EXCEPT ![<<p, q>>] = "connected"]
  /\ UNCHANGED <<up, sending, sent, written, stream, taken, available, finished, handled,
                 short>>

\* p is no more, and what it had not written yet is lost; so may be what the
\* kernel had taken and was not on its way yet.
Stop(p) ==
  /\ up' = up \ {p}
  /\ finished' = finished \cup {c \in Connection : c[1] = p}
  /\ \E kept \in {taken, available} :
       /\ taken' = [c \in Connection |-> IF c[1] = p THEN kept[c] ELSE taken[c]]
       /\ stream' = [c \in Connection |->
            IF c[1] = p THEN SubSeq(stream[c], 1, kept[c]) ELSE stream[c]]

\* The kernel sets up connections that monitor_incoming_messages has yet to accept.
Established(c) == socket[c] \in {"connected", "accepted"}

\* The loop of Socket::write: ::write waits until the kernel can take some more,
\* and the call returns when it has taken the whole message.
Write(p, q) ==
  LET c == <<p, q>>
  IN /\ {p, q} \subseteq up /\ sending[p] = q
     /\ Established(c)
     /\ \E total \in (taken[c] + 1)..Capacity :
          /\ total <= Len(stream[c])
          /\ taken' = [taken EXCEPT ![c] = total]
          /\ sending' = [sending EXCEPT ![p] = IF total < Len(stream[c]) THEN q ELSE Nobody]
     /\ UNCHANGED <<up, sent, written, socket, stream, available, finished, handled, short>>

\* Socket::write when the recipient has stopped: the first ::write succeeds if the
\* recipient has left nothing unread.  Any other fails, and send returns false,
\* unless SIGPIPE stops the process: nothing ignores it.
WriteFails(p, q) ==
  LET c == <<p, q>>
  IN /\ p \in up /\ q \notin up /\ sending[p] = q
     /\ Established(c) \/ socket[c] = "reset"
     /\ socket' = [socket EXCEPT ![c] = "reset"]
     /\ sending' = [sending EXCEPT ![p] = Nobody]
     /\ \/ UNCHANGED <<up, stream, taken, finished>>
        \/ (socket[c] = "reset" \/ taken[c] > 0) /\ Stop(p)
     /\ UNCHANGED <<sent, written, available, handled, short>>

----------------------------------------------------------------------------
(* monitor_incoming_messages. *)

\* All that wait are accepted.
AcceptAll(q) ==
  /\ Polling(q)
  /\ \E p \in Process : <<p, q>> \in Connection /\ socket[<<p, q>>] = "connected"
  /\ socket' = [c \in Connection |->
       IF c[2] = q /\ socket[c] = "connected" THEN "accepted" ELSE socket[c]]
  /\ UNCHANGED <<up, sending, sent, written, stream, taken, available, finished, handled,
                 short>>

SizeAndBody == SizeLength + BodyLength  \* fault: the size counts itself

\* The message_size that a sender puts before a message.
message_size == BodyLength

\* recv with MSG_WAITALL takes what is there, and not more than was asked for.
Take(wanted, c) == IF wanted <= available[c] THEN wanted ELSE available[c]

\* `count` pieces leave the stream.
Consume(c, count) ==
  /\ stream' = [stream EXCEPT ![c] = SubSeq(@, count + 1, Len(@))]
  /\ taken' = [taken EXCEPT ![c] = @ - count]
  /\ available' = [available EXCEPT ![c] = @ - count]

ReadableWhole(c) ==  \* fault: a message is left alone until all of it is there
  available[c] >= SizeLength + BodyLength

\* epoll reports a socket as long as it has data.
Readable(c) == available[c] > 0

\* A size and the message after it.
Read(q, c) ==
  /\ Polling(q) /\ c[2] = q
  /\ socket[c] = "accepted"
  /\ c \notin short
  /\ Readable(c)
  /\ LET count == Take(SizeLength + message_size, c)
         whole == count = SizeLength + message_size
     IN /\ Consume(c, count)
        /\ handled' =
             IF whole
             THEN [handled EXCEPT ![c] = Append(@, SubSeq(stream[c], SizeLength + 1, count))]
             ELSE handled
        /\ short' = IF whole THEN short ELSE short \cup {c}
  /\ UNCHANGED <<up, sending, sent, written, socket, finished>>

ReadNoMore(q, c) ==  \* fault: a socket is left alone after a short read
  FALSE

\* After a short read some of a message is taken for a size.  When there is no
\* room for so much, or the bytes are no message, an exception stops the process.
ReadGarbled(q, c) ==
  /\ Polling(q) /\ c[2] = q
  /\ socket[c] = "accepted"
  /\ c \in short
  /\ Readable(c)
  /\ \/ /\ \E count \in 1..available[c] : Consume(c, count)
        /\ UNCHANGED <<up, finished>>
     \/ Stop(q) /\ UNCHANGED available
  /\ UNCHANGED <<sending, sent, written, socket, handled, short>>

\* A read of nothing: the sender has closed the connection.
ReadEnd(q, c) ==
  /\ Polling(q) /\ c[2] = q
  /\ socket[c] = "accepted"
  /\ c \in finished /\ stream[c] = <<>>
  /\ socket' = [socket EXCEPT ![c] = "closed"]
  /\ UNCHANGED <<up, sending, sent, written, stream, taken, available, finished, handled,
                 short>>

----------------------------------------------------------------------------
(* The network, and crashes. *)

\* A segment arrives.
Arrive(c) ==
  /\ c[2] \in up
  /\ \E count \in (available[c] + 1)..taken[c] :
       available' = [available EXCEPT ![c] = count]
  /\ UNCHANGED <<up, sending, sent, written, socket, stream, taken, finished, handled, short>>

Crash(p) ==
  /\ p \in up
  /\ Cardinality(Process \ up) < MaxCrashes
  /\ Stop(p)
  /\ UNCHANGED <<sending, sent, written, socket, available, handled, short>>

TcpNext ==
  \/ \E p, q \in Process :
       p # q /\ (Send(p, q) \/ Connect(p, q) \/ Write(p, q) \/ WriteFails(p, q))
  \/ \E q \in Process : AcceptAll(q)
  \/ \E c \in Connection :
       Arrive(c) \/ Read(c[2], c) \/ ReadGarbled(c[2], c) \/ ReadEnd(c[2], c)
  \/ \E p \in Process : Crash(p)

TcpSpec == TcpInit /\ [][TcpNext]_tcp_vars

\* The network delivers, and threads that can go on do: those that wait for a
\* connection or for the kernel, and those that wait in epoll_wait.
FairTcpSpec ==
  /\ TcpSpec
  /\ \A p, q \in Process : p # q =>
       /\ WF_tcp_vars(Connect(p, q))
       /\ WF_tcp_vars(Write(p, q) \/ WriteFails(p, q))
  /\ \A q \in Process : WF_tcp_vars(AcceptAll(q))
  /\ \A c \in Connection :
       /\ WF_tcp_vars(Arrive(c))
       /\ WF_tcp_vars(Read(c[2], c) \/ ReadGarbled(c[2], c) \/ ReadEnd(c[2], c))

----------------------------------------------------------------------------
(* Properties. *)

\* Up to the first short read of a connection, its messages are handled whole,
\* in the order they were sent, none of them missing or twice, whatever parts
\* the kernel takes and the network delivers, and whoever stops.
HandledWhole ==
  \A c \in Connection :
    /\ Len(handled[c]) <= written[c]
    /\ \A n \in 1..Len(handled[c]) : handled[c][n] = Body(n)

\* "Block until the entire message has been read" (BaseTcpClient_impl.h:163): no
\* read of monitor_incoming_messages is short.  Violated: the socket does not block.
NoShortRead == short = {}

\* A process that lives and does not wait for others reads all that it is sent,
\* after short reads and from those that have stopped too.
EverythingRead ==
  <>[](\A c \in Connection :
         Polling(c[2]) /\ socket[c] = "accepted" => Len(stream[c]) = 0)

\* Nobody waits for ever to send to a process that lives and does not wait for
\* others itself: it accepts, and it makes room in the kernel's buffers.
ReadersAreNotWaitedFor ==
  \A p, q \in Process : p # q =>
    ~<>[](sending[p] = q /\ p \in up /\ Polling(q))

\* "@return true if the send was successful, false if a connection could not be
\* made" (NetworkClient.h:34): send returns.  Violated when the recipient has
\* stopped before the first send, and by two that write to each other.
SendReturns ==
  \A p, q \in Process : p # q => (sending[p] = q ~> sending[p] # q \/ p \notin up)

=============================================================================
