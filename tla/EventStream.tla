---------------------------- MODULE EventStream ----------------------------
(***************************************************************************)
(* ConversationClient::events of the Rust client: an endless stream of the *)
(* messages of a conversation, over server-sent events that are reconnected*)
(* from the last delivered sequence, with paged reads when the service asks*)
(* for a resync.  The caller takes messages from the stream, remembers the *)
(* highest one it has processed, and after a crash or an error opens a new *)
(* stream from there.                                                      *)
(*                                                                         *)
(* The service (external) numbers the messages of a conversation 1, 2, ... *)
(* A connection opened after n gets the messages behind n in order; it may *)
(* repeat old ones, and when it cannot follow it says resync_required, and *)
(* what it sends behind that on the same connection has gaps.              *)
(***************************************************************************)
EXTENDS Integers, Sequences, SequencesExt

CONSTANTS
    MaxLog,      \* how many messages the conversation gets
    MaxWire,     \* how many events are on their way at once
    PageSize,    \* 100 in the code: the limit of a paged read
    DelayCap     \* 30,000 ms in the code: the delay doubles up to here

ASSUME StreamAssumption ==
    /\ MaxLog \in Nat \ {0}
    /\ MaxWire \in Nat \ {0}
    /\ PageSize \in Nat \ {0}
    /\ DelayCap \in Nat

VARIABLES
    log,        \* the messages 1..log are durable at the service
    wire,       \* the events on their way over the open connection
    pos,        \* the last message the service sent over it
    lagged,     \* the service has said resync_required on it
    pc,         \* what the stream is doing
    cursor,     \* the stream's cursor
    delay,      \* how often the reconnect delay has been doubled
    base,       \* where the stream was opened: the argument after
    got,        \* the sequences the stream has yielded, in order
    processed   \* the highest sequence the caller has saved as processed

serverVars == <<log, pos, lagged>>
vars == <<log, wire, pos, lagged, pc, cursor, delay, base, got, processed>>

Kinds == {"message", "resync_required", "authorization_required"}
Event == [kind : Kinds, seq : 0..MaxLog]

MessageEvent(s) == [kind |-> "message", seq |-> s]
Control(kind) == [kind |-> kind, seq |-> 0]

-----------------------------------------------------------------------------
(* The service. *)

\* A participant's message becomes durable.
Post ==
    /\ log < MaxLog
    /\ log' = log + 1
    /\ UNCHANGED <<wire, pos, lagged, pc, cursor, delay, base, got, processed>>

\* The service sends an event over the open connection.
Send(e) ==
    /\ pc = "stream"
    /\ Len(wire) < MaxWire
    /\ wire' = Append(wire, e)
    /\ UNCHANGED <<log, pc, cursor, delay, base, got, processed>>

\* The next message.
ServerPush ==
    /\ pos < log
    /\ ~lagged
    /\ Send(MessageEvent(pos + 1))
    /\ pos' = pos + 1
    /\ UNCHANGED lagged

\* An old message again: the backlog and the live feed overlap.
ServerRepeat ==
    /\ \E s \in 1..pos : Send(MessageEvent(s))
    /\ UNCHANGED <<pos, lagged>>

\* The service cannot follow the feed.
ServerLag ==
    /\ ~lagged
    /\ Send(Control("resync_required"))
    /\ lagged' = TRUE
    /\ UNCHANGED pos

\* A live message behind the gap.
ServerSkip ==
    /\ lagged
    /\ \E s \in (pos + 1)..log : Send(MessageEvent(s)) /\ pos' = s
    /\ UNCHANGED lagged

\* The session has run out.
ServerExpire ==
    /\ Send(Control("authorization_required"))
    /\ UNCHANGED <<pos, lagged>>

-----------------------------------------------------------------------------
(* The stream. *)

\* sleep(delay), then the loop starts again; the delay doubles up to a cap.
Backoff ==
    /\ pc' = "sleep"
    /\ delay' = IF delay < DelayCap THEN delay + 1 ELSE delay

Wake ==
    /\ pc = "sleep"
    /\ pc' = "connect"
    /\ UNCHANGED <<serverVars, wire, cursor, delay, base, got, processed>>

\* The request is answered with success: the service starts behind the cursor.
ConnectOk ==
    /\ pc = "connect"
    /\ pc' = "stream"
    /\ wire' = <<>>
    /\ pos' = cursor
    /\ lagged' = FALSE
    /\ UNCHANGED <<log, cursor, delay, base, got, processed>>

\* The request fails, or is answered 408, 429 or 5xx.
ConnectRetry ==
    /\ pc = "connect"
    /\ Backoff
    /\ UNCHANGED <<serverVars, wire, cursor, base, got, processed>>

\* 401 or 403, or another status: the stream ends with an error.
ConnectRefused ==
    /\ pc = "connect"
    /\ pc' = "ended"
    /\ UNCHANGED <<serverVars, wire, cursor, delay, base, got, processed>>

\* Mutant of Deliver: a repeated message counts as a new one.
DeliverRepeated(s) ==
    IF s >= cursor
    THEN cursor' = s /\ got' = Append(got, s)
    ELSE UNCHANGED <<cursor, got>>

\* A message behind the cursor is yielded, any other is dropped.
Deliver(s) ==
    IF s > cursor
    THEN cursor' = s /\ got' = Append(got, s)
    ELSE UNCHANGED <<cursor, got>>

ReceiveMessage ==
    /\ pc = "stream"
    /\ wire # <<>>
    /\ Head(wire).kind = "message"
    /\ Deliver(Head(wire).seq)
    /\ wire' = Tail(wire)
    /\ UNCHANGED <<serverVars, pc, delay, base, processed>>

\* Mutant of ReceiveResync: the stream goes on reading the connection.
ReceiveResyncIgnored ==
    /\ pc = "stream"
    /\ wire # <<>>
    /\ Head(wire).kind = "resync_required"
    /\ wire' = Tail(wire)
    /\ UNCHANGED <<serverVars, pc, cursor, delay, base, got, processed>>

\* resync_required: the rest of the connection is dropped, pages are read.
ReceiveResync ==
    /\ pc = "stream"
    /\ wire # <<>>
    /\ Head(wire).kind = "resync_required"
    /\ pc' = "page"
    /\ wire' = <<>>
    /\ UNCHANGED <<serverVars, cursor, delay, base, got, processed>>

\* authorization_required ends the stream with an error.
ReceiveExpired ==
    /\ pc = "stream"
    /\ wire # <<>>
    /\ Head(wire).kind = "authorization_required"
    /\ pc' = "ended"
    /\ wire' = <<>>
    /\ UNCHANGED <<serverVars, cursor, delay, base, got, processed>>

\* So does an event over 256 KiB, or one that does not parse.
ReceiveBroken ==
    /\ pc = "stream"
    /\ wire # <<>>
    /\ pc' = "ended"
    /\ wire' = <<>>
    /\ UNCHANGED <<serverVars, cursor, delay, base, got, processed>>

\* The connection ends, or a chunk fails; events on their way are lost.
Disconnect ==
    /\ pc = "stream"
    /\ Backoff
    /\ wire' = <<>>
    /\ UNCHANGED <<serverVars, cursor, base, got, processed>>

\* The last sequence of the page behind the cursor.
PageEnd == IF log - cursor <= PageSize THEN log ELSE cursor + PageSize

\* Mutant of ReadPage: the stream reconnects after one page, from its end.
ReadOnePage ==
    /\ pc = "page"
    /\ got' = got \o [i \in 1..(PageEnd - cursor) |-> cursor + i]
    /\ cursor' = log
    /\ pc' = "connect"
    /\ delay' = 0
    /\ UNCHANGED <<serverVars, wire, base, processed>>

\* A page: its messages are yielded; next_cursor is null on the last page, and
\* then the stream reconnects at once with the shortest delay.
ReadPage ==
    /\ pc = "page"
    /\ got' = got \o [i \in 1..(PageEnd - cursor) |-> cursor + i]
    /\ cursor' = PageEnd
    /\ IF PageEnd = log
       THEN pc' = "connect" /\ delay' = 0
       ELSE UNCHANGED <<pc, delay>>
    /\ UNCHANGED <<serverVars, wire, base, processed>>

\* The read fails, or a page does not advance coherently: the stream ends.
PageFails ==
    /\ pc = "page"
    /\ pc' = "ended"
    /\ UNCHANGED <<serverVars, wire, cursor, delay, base, got, processed>>

-----------------------------------------------------------------------------
(* The caller. *)

\* The caller has processed the next message it got, and saved its sequence.
Process ==
    /\ processed < base + Len(got)
    /\ processed' = got[processed - base + 1]
    /\ UNCHANGED <<serverVars, wire, pc, cursor, delay, base, got>>

\* After an error, or a crash at any point, the caller opens a new stream from
\* the highest sequence it has processed.
Reopen ==
    /\ base' = processed
    /\ cursor' = processed
    /\ got' = <<>>
    /\ wire' = <<>>
    /\ pc' = "connect"
    /\ delay' = 0
    /\ UNCHANGED <<serverVars, processed>>

Init ==
    /\ log = 0 /\ wire = <<>> /\ pos = 0 /\ lagged = FALSE
    /\ pc = "connect" /\ cursor = 0 /\ delay = 0
    /\ base = 0 /\ got = <<>> /\ processed = 0

Next ==
    \/ Post \/ ServerPush \/ ServerRepeat \/ ServerLag \/ ServerSkip
    \/ ServerExpire
    \/ Wake \/ ConnectOk \/ ConnectRetry \/ ConnectRefused
    \/ ReceiveMessage \/ ReceiveResync \/ ReceiveExpired
    \/ ReceiveBroken \/ Disconnect
    \/ ReadPage \/ PageFails
    \/ Process \/ Reopen

Spec == Init /\ [][Next]_vars

-----------------------------------------------------------------------------
\* The state of the service, the connection, the stream and the caller has the
\* shape the code gives it.
TypeOK ==
    /\ log \in 0..MaxLog
    /\ wire \in Seq(Event)
    /\ pos \in 0..MaxLog
    /\ lagged \in BOOLEAN
    /\ pc \in {"connect", "sleep", "stream", "page", "ended"}
    /\ cursor \in 0..MaxLog
    /\ delay \in 0..DelayCap
    /\ base \in 0..MaxLog
    /\ got \in Seq(1..MaxLog)
    /\ processed \in 0..MaxLog

\* Whatever the service repeats or skips and wherever a connection breaks, a
\* stream yields every message behind its start, in order, once: no gap, no
\* repetition, up to its cursor.
Gapless ==
    /\ \A i \in DOMAIN got : got[i] = base + i
    /\ cursor = base + Len(got)

\* A caller that reopens from what it has processed misses nothing: the
\* messages it processed are exactly 1, 2, ..., without a jump.
ProcessedInOrder ==
    [][processed' # processed => processed' = processed + 1]_processed

\* Of what is tried infinitely often some succeeds: a connection, the sending of
\* the next message over one with nothing, or only messages, on its way (a
\* session lasts that long), its reception, the reading of a page, the
\* processing of a message before the caller crashes.  The caller reopens a
\* stream that ended.
Fairness ==
    /\ WF_vars(Wake) /\ WF_vars(ReceiveExpired)
    /\ SF_vars(ConnectOk)
    /\ SF_vars(ServerPush /\ wire = <<>>)
    /\ SF_vars(ServerPush /\ \A i \in DOMAIN wire : wire[i].kind = "message")
    /\ SF_vars(ReceiveMessage /\ cursor' # cursor)
    /\ WF_vars(ReceiveMessage)
    /\ SF_vars(ReceiveResync) /\ SF_vars(ReadPage)
    /\ SF_vars(Process)
    /\ WF_vars(pc = "ended" /\ Reopen)

FairSpec == Spec /\ Fairness

\* Every durable message is processed in the end, through disconnections,
\* resyncs, expired sessions and crashes of the caller.
EventuallyProcessed ==
    \A s \in 1..MaxLog : log >= s ~> processed >= s

=============================================================================
