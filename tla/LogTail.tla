------------------------------- MODULE LogTail -------------------------------
(***************************************************************************)
(* The event stream of a rollouts log: updateTail and rolloutTail.          *)
(*                                                                         *)
(* For every connection a reader goroutine goes through the file, numbers   *)
(* the lines, skips what the client has (Last-Event-ID) and offers the rest *)
(* on an unbuffered channel; the handler takes them from there, or a        *)
(* keepalive when nothing comes, and writes them to the client.  A client   *)
(* that loses its connection comes back with the id it saw last.            *)
(***************************************************************************)
EXTENDS StatusLog

CONSTANTS
  Slots,      \* bound: connections the server has at a time
  Effect,     \* the devices of the rollout
  Lines,      \* bound: the lines devices append, in this order: [uuid, form]
  MaxBreaks,  \* bound: connections that break
  MaxErrors,  \* bound: reads that fail
  Nothing     \* no message

ASSUME TailAssumption ==
  /\ {MaxBreaks, MaxErrors} \subseteq Nat
  /\ Slots \subseteq Nat /\ Nothing \notin Slots
  /\ Lines \in Seq(Range(Lines))
  /\ \A n \in 0..Len(Lines) : NoLog # SubSeq(Lines, 1, n)

VARIABLES
  kind,       \* the stream the client asks for: "update" or "rollout"
  log,        \* the rollouts log of the update, or NoLog
  committed,  \* whether the rollout is committed
  client,     \* [conn, lastId, got]: the client's connection and what it received
  srv,        \* [slot -> handler and reader goroutine of a connection]
  breaks, errors,
  back        \* history: an error event has sent the client back

tailVars == <<kind, log, committed, client, srv, breaks, errors, back>>

\* reader: its place; pos, index: lines read, lines counted; held: what it is about
\* to offer; handler: its place; out: what it is about to write; done: the channel is
\* closed; net: the connection is up.
Unused == [reader |-> "end", pos |-> 0, index |-> 0, lastId |-> 0, held |-> Nothing,
           handler |-> "gone", out |-> Nothing, done |-> TRUE, net |-> FALSE]

TailInit ==
  /\ kind \in {"update", "rollout"}
  /\ log \in {NoLog, <<>>}
  /\ committed \in BOOLEAN
  /\ client = [conn |-> Nothing, lastId |-> 0, got |-> <<>>]
  /\ srv = [k \in Slots |-> Unused]
  /\ breaks = 0 /\ errors = 0 /\ back = FALSE

-----------------------------------------------------------------------------
Upd(k, s) == srv' = [srv EXCEPT ![k] = s]
WorldUnchanged == UNCHANGED <<kind, log, committed, errors, back>>

LogEvent(id, line) == [event |-> "log", id |-> id, line |-> line]
ErrorEvent(id) == [event |-> "error", id |-> id]
Keepalive == [event |-> "idle"]

Free(k) == srv[k].reader = "end" /\ srv[k].handler = "gone"

\* The client connects, with the id of the last event it has.  A rollout that is not
\* committed has a stream of one error event, and one without a log as well.
Connect(k) ==
  /\ client.conn = Nothing
  /\ Free(k) /\ \A j \in Slots : Free(j) => k =< j
  /\ client' = [client EXCEPT !.conn = k]
  /\ LET start == [Unused EXCEPT !.lastId = client.lastId, !.handler = "select",
                                 !.done = FALSE, !.net = TRUE]
     IN  Upd(k, IF (kind = "rollout" /\ ~committed) \/ log = NoLog
                THEN [start EXCEPT !.reader = "check", !.held = ErrorEvent(0)]
                ELSE [start EXCEPT !.reader = "read"])
  /\ UNCHANGED breaks /\ WorldUnchanged

\* A line that ends every stream that comes to it: the scanner refuses a line of more
\* than 64 KB ("long"), filterUpdateLogs one that does not parse ("garbled").
Unreadable(line) == line.form = "long" \/ (kind = "rollout" /\ line.form = "garbled")

Wanted(line) == kind = "update" \/ line.uuid \in Effect

\* Mutant: a line the client has is not counted.
ReadUncounted(k) ==
  LET s == srv[k]
      line == log[s.pos + 1]
  IN  /\ s.reader = "read" /\ s.pos < Len(log) /\ ~Unreadable(line)
      /\ Upd(k, IF ~Wanted(line) \/ s.pos + 1 =< s.lastId
                THEN [s EXCEPT !.pos = @ + 1]
                ELSE [s EXCEPT !.pos = @ + 1, !.index = @ + 1, !.reader = "check",
                               !.held = LogEvent(s.index + 1, line)])
      /\ UNCHANGED <<client, breaks>> /\ WorldUnchanged

\* The next line of the file.  The id of an event is the number of its line among
\* those of the stream.
Read(k) ==
  LET s == srv[k]
      line == log[s.pos + 1]
  IN  /\ s.reader = "read" /\ s.pos < Len(log) /\ ~Unreadable(line)
      /\ Upd(k, IF ~Wanted(line) THEN [s EXCEPT !.pos = @ + 1]
                ELSE IF s.index + 1 =< s.lastId THEN [s EXCEPT !.pos = @ + 1, !.index = @ + 1]
                ELSE [s EXCEPT !.pos = @ + 1, !.index = @ + 1, !.reader = "check",
                               !.held = LogEvent(s.index + 1, line)])
      /\ UNCHANGED <<client, breaks>> /\ WorldUnchanged

\* The last event of a stream whose reader met an error carries the id of the last
\* line that was read, on a resumed stream one the client may have passed long ago.
Interrupt(k) ==
  /\ srv[k].reader = "read"
  /\ Upd(k, [srv[k] EXCEPT !.reader = "check", !.held = ErrorEvent(srv[k].index)])
  /\ back' = (back \/ srv[k].index < srv[k].lastId)
  /\ UNCHANGED <<kind, log, committed, client, breaks>>

\* The next line is one that no reader passes.
ReadStuck(k) ==
  /\ Interrupt(k)
  /\ srv[k].pos < Len(log) /\ Unreadable(log[srv[k].pos + 1])
  /\ UNCHANGED errors

\* The file cannot be read this time.
ReadFails(k) ==
  /\ Interrupt(k)
  /\ errors < MaxErrors
  /\ errors' = errors + 1

\* At the end of the file the reader sleeps and tries again, until the request's
\* context is done: the connection is down or the handler has returned.
AtEnd(k) ==
  /\ srv[k].reader = "read" /\ srv[k].pos = Len(log)
  /\ ~srv[k].net \/ srv[k].handler = "gone"
  /\ Upd(k, [srv[k] EXCEPT !.reader = "end"])
  /\ UNCHANGED <<client, breaks>> /\ WorldUnchanged

\* keepaliveReader: the reader looks whether the handler has stopped; if not it
\* offers the event, and waits until it is taken.
Check(k) ==
  /\ srv[k].reader = "check"
  /\ Upd(k, IF srv[k].done THEN [srv[k] EXCEPT !.reader = "end", !.held = Nothing]
            ELSE [srv[k] EXCEPT !.reader = "offer"])
  /\ UNCHANGED <<client, breaks>> /\ WorldUnchanged

Take(k) ==
  /\ srv[k].reader = "offer" /\ srv[k].handler = "select"
  /\ Upd(k, [srv[k] EXCEPT !.handler = "write", !.out = srv[k].held, !.held = Nothing,
                           !.reader = IF srv[k].held.event = "error" THEN "end" ELSE "read"])
  /\ UNCHANGED <<client, breaks>> /\ WorldUnchanged

\* Nothing came for a while.
Idle(k) ==
  /\ srv[k].handler = "select" /\ srv[k].reader \in {"read", "check"}
  /\ Upd(k, [srv[k] EXCEPT !.handler = "write", !.out = Keepalive])
  /\ UNCHANGED <<client, breaks>> /\ WorldUnchanged

\* Mutant: the handler does not notice that the channel is closed.
ChannelClosedUnseen(k) ==
  /\ srv[k].handler = "select" /\ srv[k].reader = "end"
  /\ UNCHANGED tailVars

\* The reader has closed its channel, and the handler has written everything.
ChannelClosed(k) ==
  /\ srv[k].handler = "select" /\ srv[k].reader = "end"
  /\ Upd(k, [srv[k] EXCEPT !.handler = "stop"])
  /\ UNCHANGED <<client, breaks>> /\ WorldUnchanged

\* What the client has after it received event e.
Received(e) ==
  CASE e.event = "log" -> [client EXCEPT !.lastId = e.id, !.got = Append(@, e.line)]
    [] e.event = "error" -> [client EXCEPT !.lastId = e.id]
    [] OTHER -> client

\* An event is written: the client receives it, or the connection is down and the
\* write is lost or fails.
Write(k) ==
  LET s == srv[k]
  IN  /\ s.handler = "write"
      /\ \/ /\ s.net
            /\ client' = Received(s.out)
            /\ Upd(k, [s EXCEPT !.handler = "select", !.out = Nothing])
         \/ /\ ~s.net
            /\ \E next \in {"select", "stop"} : Upd(k, [s EXCEPT !.handler = next, !.out = Nothing])
            /\ UNCHANGED client
      /\ UNCHANGED breaks /\ WorldUnchanged

\* The handler closes done and returns, which ends the response.
Stop(k) ==
  /\ srv[k].handler = "stop"
  /\ Upd(k, [srv[k] EXCEPT !.handler = "gone", !.done = TRUE, !.net = FALSE])
  /\ client' = [client EXCEPT !.conn = IF @ = k THEN Nothing ELSE @]
  /\ UNCHANGED breaks /\ WorldUnchanged

-----------------------------------------------------------------------------
\* The connection breaks, the client notices and may connect again before the
\* server does.
Break(k) ==
  /\ client.conn = k
  /\ breaks < MaxBreaks
  /\ breaks' = breaks + 1
  /\ Upd(k, [srv[k] EXCEPT !.net = FALSE])
  /\ client' = [client EXCEPT !.conn = Nothing]
  /\ WorldUnchanged

\* The server restarts.
Crash ==
  /\ breaks < MaxBreaks
  /\ breaks' = breaks + 1
  /\ srv' = [k \in Slots |-> Unused]
  /\ client' = [client EXCEPT !.conn = Nothing]
  /\ WorldUnchanged

\* The statuses of devices reach the log (DeviceEvents), the rollout is committed
\* (Rollouts).
AppendStatus ==
  LET n == IF log = NoLog THEN 0 ELSE Len(log)
  IN  /\ n < Len(Lines)
      /\ log' = IF log = NoLog THEN <<Lines[1]>> ELSE Append(log, Lines[n + 1])
      /\ UNCHANGED <<kind, committed, client, srv, breaks, errors, back>>

CommitRollout ==
  /\ ~committed
  /\ committed' = TRUE
  /\ UNCHANGED <<kind, log, client, srv, breaks, errors, back>>

ReaderStep(k) == Read(k) \/ ReadStuck(k) \/ AtEnd(k) \/ Check(k)
HandlerStep(k) == Take(k) \/ ChannelClosed(k) \/ Write(k) \/ Stop(k)

TailNext ==
  \/ \E k \in Slots :
       \/ Connect(k) \/ Break(k) \/ ReadFails(k) \/ Idle(k)
       \/ ReaderStep(k) \/ HandlerStep(k)
  \/ AppendStatus \/ CommitRollout \/ Crash

\* Goroutines are scheduled, and the client comes back.
TailSpec ==
  /\ TailInit /\ [][TailNext]_tailVars
  /\ \A k \in Slots : WF_tailVars(ReaderStep(k)) /\ WF_tailVars(HandlerStep(k))
  /\ WF_tailVars(\E k \in Slots : Connect(k))

-----------------------------------------------------------------------------
(* Properties *)

\* The lines the stream is about, in order: the k-th is the one that has k of them up
\* to it.
Rank(places, i) == Cardinality({j \in places : j =< i})

Numbered(lines, places) ==
  [k \in 1..Cardinality(places) |-> lines[CHOOSE i \in places : Rank(places, i) = k]]

\* The lines before the first that ends every stream.
Readable == {i \in DOMAIN log : \A j \in 1..i : ~Unreadable(log[j])}

Places == {i \in Readable : Wanted(log[i])}

Stream == IF log = NoLog THEN <<>> ELSE Numbered(log, Places)

\* However often the connection breaks, the server restarts or reading fails, no
\* line of the stream is left out before one the client has; it has none twice unless
\* reading failed before its place was reached again; and it has none from behind a
\* line that cannot be read (streamUpdateLogs, parseLastEventId, filterUpdateLogs).
TailExact ==
  /\ \E n \in 0..Len(Stream) :
       /\ Range(client.got) = Range(SubSeq(Stream, 1, n))
       /\ client.lastId =< n
  /\ ~back => IsPrefix(client.got, Stream) /\ client.lastId = Len(client.got)

\* Every line that reaches the log of a committed rollout reaches the client, though
\* it had first been told to come back later, up to the first line that cannot be
\* read: there every stream ends, however often the client comes back
\* (streamUpdateLogs, keepaliveReader, readFileLines, filterUpdateLogs).
TailCatchesUp ==
  \A n \in 1..Len(Lines) :
    committed /\ Len(Stream) >= n ~> Len(Stream) >= n /\ Stream[n] \in Range(client.got)

=============================================================================
