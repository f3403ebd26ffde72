-------------------------- MODULE EventStreamProofs --------------------------
(***************************************************************************)
(* Proofs about EventStream, for any page size, any number of messages and *)
(* any number of events on their way.                                      *)
(***************************************************************************)
EXTENDS EventStream, SequenceTheorems, TLAPS

-----------------------------------------------------------------------------
(* The inductive invariant. *)

\* Only durable messages are sent, yielded and processed.
OnlyDurable ==
    /\ cursor <= log /\ pos <= log
    /\ \A i \in DOMAIN wire : wire[i].seq <= log
    /\ processed \in base..cursor

\* A service that can still follow has sent everything up to pos.
SentUpToPos ==
    pc = "stream" /\ ~lagged =>
        \A s \in (cursor + 1)..pos : \E i \in DOMAIN wire : wire[i] = MessageEvent(s)

\* One that cannot has said so, and the stream has not read it yet.
LagIsAnnounced ==
    pc = "stream" /\ lagged =>
        \E i \in DOMAIN wire : wire[i] = Control("resync_required")

\* A message in front of a resync has its predecessor in front of it.
Follows(i) ==
    \/ wire[i].seq <= cursor + 1
    \/ \E j \in 1..(i - 1) : wire[j] = MessageEvent(wire[i].seq - 1)

BeforeResync(i) == \A j \in 1..(i - 1) : wire[j] # Control("resync_required")

WireInOrder ==
    \A i \in DOMAIN wire :
        wire[i].kind = "message" /\ BeforeResync(i) => Follows(i)

StreamInv ==
    /\ TypeOK
    /\ OnlyDurable
    /\ SentUpToPos
    /\ LagIsAnnounced
    /\ WireInOrder
    /\ Gapless

-----------------------------------------------------------------------------
(* Type correctness. *)

\* What the service puts on the wire.
LEMMA EventTypes ==
    /\ \A s \in 0..MaxLog : MessageEvent(s) \in Event
    /\ Control("resync_required") \in Event
    /\ Control("authorization_required") \in Event
BY StreamAssumption DEF MessageEvent, Control, Event, Kinds

\* The page that ReadPage yields: the next sequences, up to PageEnd.
LEMMA PageProperties ==
    ASSUME TypeOK, cursor <= log
    PROVE  /\ PageEnd \in cursor..log
           /\ PageEnd - cursor \in Nat
           /\ [i \in 1..(PageEnd - cursor) |-> cursor + i] \in Seq(1..MaxLog)
           /\ Len([i \in 1..(PageEnd - cursor) |-> cursor + i])
                = PageEnd - cursor
<1>1. /\ log \in Nat /\ cursor \in Nat /\ MaxLog \in Nat /\ PageSize \in Nat \ {0}
      /\ log <= MaxLog
  BY StreamAssumption DEF TypeOK
<1>2. PageEnd \in cursor..log /\ PageEnd - cursor \in Nat
  BY <1>1 DEF PageEnd
<1> DEFINE n == PageEnd - cursor
           page == [i \in 1..n |-> cursor + i]
<1>3. \A i \in 1..n : cursor + i \in 1..MaxLog
  BY <1>1, <1>2
<1>4. n \in Nat
  BY <1>2
<1> HIDE DEF n
<1>5. page \in Seq(1..MaxLog) /\ Len(page) = n
  BY <1>3, <1>4
<1> QED
  BY <1>2, <1>5 DEF n

\* Every step of service, stream and caller keeps the types.
LEMMA TypeStep ==
    ASSUME TypeOK, OnlyDurable, Gapless, [Next]_vars
    PROVE  TypeOK'
<1> USE StreamAssumption DEF serverVars
<1>0. MaxLog \in Nat /\ DelayCap \in Nat
  BY StreamAssumption
<1>1. CASE Post
  BY <1>0, <1>1 DEF Post, TypeOK
<1>2. CASE ServerPush
  <2>1. pos + 1 \in 0..MaxLog
    BY <1>2 DEF ServerPush, TypeOK
  <2> QED
    BY <1>2, <2>1, EventTypes DEF ServerPush, Send, TypeOK
<1>3. CASE ServerRepeat
  <2>1. PICK s \in 1..pos : Send(MessageEvent(s))
    BY <1>3 DEF ServerRepeat
  <2>2. MessageEvent(s) \in Event
    BY <2>1, EventTypes DEF TypeOK
  <2> QED
    BY <1>3, <2>1, <2>2 DEF ServerRepeat, Send, TypeOK
<1>4. CASE ServerLag
  BY <1>4, EventTypes DEF ServerLag, Send, TypeOK
<1>5. CASE ServerSkip
  <2>1. PICK s \in (pos + 1)..log : Send(MessageEvent(s)) /\ pos' = s
    BY <1>5 DEF ServerSkip
  <2>2. s \in 0..MaxLog
    BY <2>1 DEF TypeOK
  <2> QED
    BY <1>5, <2>1, <2>2, EventTypes DEF ServerSkip, Send, TypeOK
<1>6. CASE ServerExpire
  BY <1>6, EventTypes DEF ServerExpire, Send, TypeOK
<1>7. CASE Wake \/ ConnectRefused
  BY <1>7 DEF Wake, ConnectRefused, TypeOK
<1>8. CASE ConnectOk
  <2>1. wire' \in Seq(Event)
    BY <1>8 DEF ConnectOk
  <2>2. lagged' \in BOOLEAN
    BY <1>8 DEF ConnectOk
  <2> QED
    BY <1>8, <2>1, <2>2 DEF ConnectOk, TypeOK
<1>88. CASE ConnectRetry \/ Disconnect
  <2>1. pc' = "sleep" /\ delay' \in 0..DelayCap
    BY <1>88 DEF ConnectRetry, Disconnect, Backoff, TypeOK
  <2>2. wire' \in Seq(Event)
    <3>1. wire' = <<>> \/ wire' = wire
      BY <1>88 DEF ConnectRetry, Disconnect
    <3> QED
      BY <3>1, EmptySeq DEF TypeOK
  <2> QED
    BY <1>88, <2>1, <2>2 DEF ConnectRetry, Disconnect, TypeOK
<1>9. CASE ReceiveMessage
  <2>1. Head(wire) \in Event /\ Tail(wire) \in Seq(Event)
    BY <1>9, HeadTailProperties DEF ReceiveMessage, TypeOK
  <2>2. Head(wire).seq \in 0..MaxLog
    BY <2>1 DEF Event
  <2>3. cursor' \in 0..MaxLog /\ got' \in Seq(1..MaxLog)
    <3>1. CASE Head(wire).seq > cursor
      <4>1. Head(wire).seq \in 1..MaxLog
        BY <2>2, <3>1 DEF TypeOK
      <4>2. cursor' = Head(wire).seq /\ got' = Append(got, Head(wire).seq)
        BY <1>9, <3>1 DEF ReceiveMessage, Deliver
      <4>3. got \in Seq(1..MaxLog)
        BY DEF TypeOK
      <4> QED
        BY <4>1, <4>2, <4>3, AppendProperties
    <3>2. CASE ~(Head(wire).seq > cursor)
      BY <1>9, <3>2 DEF ReceiveMessage, Deliver, TypeOK
    <3> QED
      BY <3>1, <3>2
  <2> QED
    BY <1>9, <2>1, <2>3 DEF ReceiveMessage, TypeOK
<1>10. CASE ReceiveResync \/ ReceiveExpired \/ ReceiveBroken
  <2>1. wire' = <<>> /\ pc' \in {"page", "ended"}
    BY <1>10 DEF ReceiveResync, ReceiveExpired, ReceiveBroken
  <2> QED
    BY <1>10, <2>1 DEF ReceiveResync, ReceiveExpired, ReceiveBroken, TypeOK
<1>11. CASE ReadPage
  <2>1. PageEnd \in 0..MaxLog
    BY PageProperties DEF TypeOK, OnlyDurable
  <2>2. got' \in Seq(1..MaxLog)
    BY <1>11, PageProperties, ConcatProperties DEF ReadPage, TypeOK, OnlyDurable
  <2>3. pc' \in {pc, "connect"} /\ delay' \in {delay, 0}
    BY <1>11 DEF ReadPage
  <2> QED
    BY <1>0, <1>11, <2>1, <2>2, <2>3 DEF ReadPage, TypeOK
<1>12. CASE PageFails
  BY <1>12 DEF PageFails, TypeOK
<1>13. CASE Process
  <2>1. /\ processed \in Nat /\ base \in Nat /\ Len(got) \in Nat
        /\ processed >= base /\ processed < base + Len(got)
    BY <1>13 DEF Process, TypeOK, OnlyDurable
  <2>12. processed - base + 1 \in 1..Len(got)
    BY <2>1
  <2>2. got[processed - base + 1] \in 1..MaxLog
    BY <2>12 DEF TypeOK
  <2> QED
    BY <1>0, <1>13, <2>2 DEF Process, TypeOK
<1>14. CASE Reopen
  BY <1>0, <1>14 DEF Reopen, TypeOK
<1>15. CASE UNCHANGED vars
  BY <1>15 DEF vars, TypeOK
<1> QED
  BY <1>1, <1>2, <1>3, <1>4, <1>5, <1>6, <1>7, <1>8, <1>88, <1>9, <1>10,
     <1>11, <1>12, <1>13, <1>14, <1>15 DEF Next

-----------------------------------------------------------------------------
(* The steps. *)

\* An event at the end of the wire: what was on it stays where it was.
LEMMA SendProperties ==
    ASSUME TypeOK, NEW e \in Event, Send(e)
    PROVE  /\ pc = "stream"
           /\ DOMAIN wire = 1..Len(wire) /\ Len(wire) \in Nat
           /\ DOMAIN wire' = 1..(Len(wire) + 1)
           /\ \A i \in 1..Len(wire) : wire'[i] = wire[i]
           /\ wire'[Len(wire) + 1] = e
<1>1. wire \in Seq(Event) /\ wire' = Append(wire, e) /\ pc = "stream"
  BY DEF TypeOK, Send
<1> QED
  BY <1>1, AppendProperties

\* The first event is taken off the wire.
LEMMA TakeProperties ==
    ASSUME TypeOK, wire # <<>>, wire' = Tail(wire)
    PROVE  /\ DOMAIN wire = 1..Len(wire) /\ Len(wire) \in Nat \ {0}
           /\ DOMAIN wire' = 1..(Len(wire) - 1)
           /\ \A i \in 1..(Len(wire) - 1) : wire'[i] = wire[i + 1]
           /\ Head(wire) = wire[1]
<1>1. wire \in Seq(Event)
  BY DEF TypeOK
<1> QED
  BY <1>1, HeadTailProperties

\* The first event on the wire, if it is a message, is at most the next one.
LEMMA HeadIsNext ==
    ASSUME StreamInv, ReceiveMessage
    PROVE  /\ Head(wire).seq \in 0..(cursor + 1)
           /\ Head(wire) = MessageEvent(Head(wire).seq)
<1>1. /\ wire # <<>> /\ wire' = Tail(wire) /\ Head(wire).kind = "message"
  BY DEF ReceiveMessage
<1>2. /\ 1 \in DOMAIN wire /\ Head(wire) = wire[1] /\ wire[1] \in Event
  BY <1>1, TakeProperties DEF StreamInv, TypeOK
<1>3. Follows(1)
  BY <1>1, <1>2 DEF StreamInv, WireInOrder, BeforeResync
<1>4. wire[1].seq <= cursor + 1
  BY <1>3 DEF Follows
<1> QED
  BY <1>1, <1>2, <1>4, StreamAssumption DEF StreamInv, TypeOK, Event, MessageEvent

\* No step makes a gap or repeats a message.
LEMMA GaplessStep ==
    ASSUME StreamInv, [Next]_vars
    PROVE  Gapless'
<1> USE StreamAssumption DEF serverVars
<1>0. /\ base \in Nat /\ cursor \in Nat /\ Len(got) \in Nat
      /\ got \in Seq(1..MaxLog) /\ DOMAIN got = 1..Len(got)
      /\ \A i \in 1..Len(got) : got[i] = base + i
      /\ cursor = base + Len(got)
  BY DEF StreamInv, TypeOK, Gapless
<1>1. CASE ReceiveMessage
  <2>1. CASE Head(wire).seq > cursor
    <3>1. Head(wire).seq = cursor + 1
      BY <1>0, <1>1, <2>1, HeadIsNext
    <3>2. /\ got' = Append(got, cursor + 1) /\ cursor' = cursor + 1 /\ base' = base
      BY <1>1, <2>1, <3>1 DEF ReceiveMessage, Deliver
    <3>3. /\ Len(got') = Len(got) + 1 /\ DOMAIN got' = 1..(Len(got) + 1)
          /\ \A i \in 1..Len(got) : got'[i] = got[i]
          /\ got'[Len(got) + 1] = cursor + 1
      <4>1. got \in Seq(Nat) /\ cursor + 1 \in Nat
        BY <1>0
      <4> QED
        BY <3>2, <4>1, AppendProperties
    <3>4. \A i \in 1..(Len(got) + 1) : got'[i] = base + i
      BY <1>0, <3>3
    <3> QED
      BY <1>0, <3>2, <3>3, <3>4 DEF Gapless
  <2>2. CASE ~(Head(wire).seq > cursor)
    BY <1>0, <1>1, <2>2 DEF ReceiveMessage, Deliver, Gapless
  <2> QED
    BY <2>1, <2>2
<1>2. CASE ReadPage
  <2> DEFINE n == PageEnd - cursor
             page == [i \in 1..n |-> cursor + i]
  <2>1. n \in Nat /\ PageEnd = cursor + n
    BY <1>0, PageProperties DEF StreamInv, OnlyDurable, TypeOK
  <2>2. page \in Seq(1..MaxLog) /\ Len(page) = n
    BY PageProperties DEF StreamInv, OnlyDurable
  <2>3. got' = got \o page /\ cursor' = PageEnd /\ base' = base
    BY <1>2 DEF ReadPage
  <2> HIDE DEF n
  <2>4. \A i \in 1..n : page[i] = cursor + i
    OBVIOUS
  <2> HIDE DEF page
  <2>5. /\ Len(got') = Len(got) + n /\ DOMAIN got' = 1..(Len(got) + n)
        /\ \A i \in 1..(Len(got) + n) :
             got'[i] = IF i <= Len(got) THEN got[i] ELSE page[i - Len(got)]
    <3>1. /\ got \o page \in Seq(1..MaxLog)
          /\ Len(got \o page) = Len(got) + Len(page)
          /\ \A i \in 1..(Len(got) + Len(page)) :
               (got \o page)[i] = IF i <= Len(got) THEN got[i]
                                  ELSE page[i - Len(got)]
      BY <1>0, <2>2, ConcatProperties, Zenon
    <3>2. DOMAIN (got \o page) = 1..Len(got \o page)
      BY <3>1, LenProperties, Zenon
    <3> QED
      BY <2>2, <2>3, <3>1, <3>2, Zenon
  <2>6. ASSUME NEW i \in 1..(Len(got) + n)
        PROVE  got'[i] = base + i
    <3>1. CASE i <= Len(got)
      BY <1>0, <2>1, <2>5, <3>1
    <3>2. CASE i > Len(got)
      <4>1. i - Len(got) \in 1..n
        BY <1>0, <2>1, <3>2
      <4> QED
        BY <1>0, <2>1, <2>4, <2>5, <3>2, <4>1
    <3> QED
      BY <1>0, <2>1, <3>1, <3>2
  <2> QED
    BY <1>0, <2>1, <2>3, <2>5, <2>6 DEF Gapless
<1>3. CASE Reopen
  <2>1. /\ got' = <<>> /\ cursor' = processed /\ base' = processed
        /\ processed \in Nat
    BY <1>3 DEF Reopen, StreamInv, TypeOK
  <2>2. Len(got') = 0 /\ DOMAIN got' = {}
    BY <2>1
  <2>3. \A i \in DOMAIN got' : got'[i] = base' + i
    BY <2>2, Zenon
  <2>4. processed = processed + 0
    BY <2>1
  <2>5. cursor' = base' + Len(got')
    BY <2>1, <2>2, <2>4, Zenon
  <2> QED
    BY <2>3, <2>5, Zenon DEF Gapless
<1>4. CASE UNCHANGED <<base, got, cursor>>
  BY <1>4 DEF StreamInv, Gapless
<1>5. CASE Next
  <2>1. ReceiveMessage \/ ReadPage \/ Reopen \/ UNCHANGED <<base, got, cursor>>
    <3>1. CASE \E e : Send(e)
      BY <3>1 DEF Send
    <3>2. ServerPush \/ ServerRepeat \/ ServerLag \/ ServerSkip \/ ServerExpire
            => \E e : Send(e)
      BY DEF ServerPush, ServerRepeat, ServerLag, ServerSkip, ServerExpire
    <3>3. CASE Post \/ Wake \/ ConnectOk \/ ConnectRetry \/ ConnectRefused
      BY <3>3 DEF Post, Wake, ConnectOk, ConnectRetry, ConnectRefused
    <3>4. CASE \/ ReceiveResync \/ ReceiveExpired \/ ReceiveBroken \/ Disconnect
               \/ PageFails \/ Process
      BY <3>4 DEF ReceiveResync, ReceiveExpired, ReceiveBroken, Disconnect,
         PageFails, Process
    <3> QED
      BY <1>5, <3>1, <3>2, <3>3, <3>4 DEF Next
  <2> QED
    BY <1>1, <1>2, <1>3, <1>4, <2>1
<1> QED
  BY <1>4, <1>5 DEF vars

\* Nothing is ahead of what is durable.
LEMMA DurableStep ==
    ASSUME StreamInv, [Next]_vars
    PROVE  OnlyDurable'
<1> USE StreamAssumption DEF serverVars
<1>0. /\ log \in Nat /\ cursor \in Nat /\ pos \in Nat /\ base \in Nat
      /\ processed \in Nat
      /\ cursor <= log /\ pos <= log /\ base <= processed /\ processed <= cursor
      /\ \A i \in DOMAIN wire : wire[i].seq \in Nat /\ wire[i].seq <= log
  <2>1. \A i \in DOMAIN wire : wire[i] \in Event
    BY DEF StreamInv, TypeOK
  <2>2. \A i \in DOMAIN wire : wire[i].seq \in Nat
    BY <2>1 DEF Event
  <2> QED
    BY <2>2 DEF StreamInv, TypeOK, OnlyDurable
<1>1. CASE Post
  <2>1. /\ log' = log + 1
        /\ UNCHANGED <<wire, pos, cursor, base, processed>>
    BY <1>1 DEF Post
  <2> QED
    BY <1>0, <2>1 DEF OnlyDurable
<1>2. ASSUME NEW e \in Event, Send(e), e.seq <= log, pos' \in Nat, pos' <= log
      PROVE  OnlyDurable'
  <2>1. /\ UNCHANGED <<log, cursor, base, processed>>
    BY <1>2 DEF Send
  <2>2. \A i \in DOMAIN wire' : wire'[i].seq <= log
    <3>1. ASSUME NEW i \in DOMAIN wire'
          PROVE  wire'[i] = e \/ (i \in DOMAIN wire /\ wire'[i] = wire[i])
      BY <1>2, SendProperties DEF StreamInv
    <3> QED
      BY <1>0, <1>2, <3>1
  <2> QED
    BY <1>0, <1>2, <2>1, <2>2 DEF OnlyDurable
<1>3. CASE ServerPush \/ ServerRepeat \/ ServerLag \/ ServerSkip \/ ServerExpire
  <2>1. CASE ServerPush
    <3>1. pos' = pos + 1 /\ pos + 1 <= log /\ Send(MessageEvent(pos + 1))
      BY <1>0, <2>1 DEF ServerPush
    <3>2. MessageEvent(pos + 1) \in Event /\ MessageEvent(pos + 1).seq <= log
      BY <1>0, <3>1, EventTypes DEF StreamInv, TypeOK, MessageEvent
    <3> QED
      BY <1>0, <1>2, <3>1, <3>2
  <2>2. CASE ServerRepeat
    <3>1. PICK s \in 1..pos : Send(MessageEvent(s))
      BY <2>2 DEF ServerRepeat
    <3>2. MessageEvent(s) \in Event /\ MessageEvent(s).seq <= log
      BY <1>0, <3>1, EventTypes DEF StreamInv, TypeOK, MessageEvent
    <3>3. pos' = pos
      BY <2>2 DEF ServerRepeat
    <3> QED
      BY <1>0, <1>2, <3>1, <3>2, <3>3
  <2>3. CASE ServerLag
    <3>1. Send(Control("resync_required")) /\ pos' = pos
      BY <2>3 DEF ServerLag
    <3>2. Control("resync_required").seq <= log
      BY <1>0 DEF Control
    <3> QED
      BY <1>0, <1>2, <3>1, <3>2, EventTypes
  <2>4. CASE ServerSkip
    <3>1. PICK s \in (pos + 1)..log : Send(MessageEvent(s)) /\ pos' = s
      BY <2>4 DEF ServerSkip
    <3>2. MessageEvent(s) \in Event /\ MessageEvent(s).seq <= log
      BY <1>0, <3>1, EventTypes DEF StreamInv, TypeOK, MessageEvent
    <3>3. pos' \in Nat /\ pos' <= log
      BY <1>0, <3>1
    <3> QED
      BY <1>2, <3>1, <3>2, <3>3
  <2>5. CASE ServerExpire
    <3>1. Send(Control("authorization_required")) /\ pos' = pos
      BY <2>5 DEF ServerExpire
    <3>2. Control("authorization_required").seq <= log
      BY <1>0 DEF Control
    <3> QED
      BY <1>0, <1>2, <3>1, <3>2, EventTypes
  <2> QED
    BY <1>3, <2>1, <2>2, <2>3, <2>4, <2>5
<1>4. CASE Wake \/ ConnectRefused \/ ConnectRetry \/ PageFails
  <2>1. UNCHANGED <<log, wire, pos, cursor, base, processed>>
    BY <1>4 DEF Wake, ConnectRefused, ConnectRetry, PageFails
  <2> QED
    BY <2>1 DEF StreamInv, OnlyDurable
<1>5. CASE \/ ConnectOk \/ ReceiveResync \/ ReceiveExpired \/ ReceiveBroken
           \/ Disconnect
  <2>1. /\ UNCHANGED <<log, cursor, base, processed>> /\ wire' = <<>>
        /\ pos' \in {pos, cursor}
    BY <1>5 DEF ConnectOk, ReceiveResync, ReceiveExpired, ReceiveBroken, Disconnect
  <2>2. DOMAIN wire' = {}
    BY <2>1
  <2> QED
    BY <1>0, <2>1, <2>2 DEF OnlyDurable
<1>6. CASE ReceiveMessage
  <2>1. /\ UNCHANGED <<log, pos, base, processed>> /\ wire # <<>>
        /\ wire' = Tail(wire)
        /\ cursor' = IF Head(wire).seq > cursor THEN Head(wire).seq ELSE cursor
    BY <1>6 DEF ReceiveMessage, Deliver
  <2>2. \A i \in DOMAIN wire' : wire'[i].seq <= log
    <3>1. \A i \in DOMAIN wire' : i + 1 \in DOMAIN wire /\ wire'[i] = wire[i + 1]
      BY <2>1, TakeProperties DEF StreamInv
    <3> QED
      BY <1>0, <3>1
  <2>3. Head(wire).seq \in Nat /\ Head(wire).seq <= log
    <3>1. 1 \in DOMAIN wire /\ Head(wire) = wire[1]
      BY <2>1, TakeProperties DEF StreamInv
    <3> QED
      BY <1>0, <3>1
  <2> QED
    BY <1>0, <2>1, <2>2, <2>3 DEF OnlyDurable
<1>7. CASE ReadPage
  <2>1. UNCHANGED <<log, wire, pos, base, processed>> /\ cursor' = PageEnd
    BY <1>7 DEF ReadPage
  <2>2. PageEnd \in cursor..log
    BY PageProperties DEF StreamInv, OnlyDurable
  <2> QED
    BY <1>0, <2>1, <2>2 DEF OnlyDurable
<1>8. CASE Process
  <2>1. processed - base + 1 \in 1..Len(got)
    BY <1>0, <1>8 DEF Process, StreamInv, Gapless, TypeOK
  <2>2. processed' = processed + 1 /\ processed + 1 <= cursor
    BY <1>0, <1>8, <2>1 DEF Process, StreamInv, Gapless, TypeOK
  <2>3. UNCHANGED <<log, wire, pos, cursor, base>>
    BY <1>8 DEF Process
  <2> QED
    BY <1>0, <2>2, <2>3 DEF OnlyDurable
<1>9. CASE Reopen
  <2>1. /\ UNCHANGED <<log, pos, processed>> /\ wire' = <<>>
        /\ base' = processed /\ cursor' = processed
    BY <1>9 DEF Reopen
  <2>2. DOMAIN wire' = {}
    BY <2>1
  <2> QED
    BY <1>0, <2>1, <2>2 DEF OnlyDurable
<1>10. CASE UNCHANGED vars
  BY <1>10 DEF vars, StreamInv, OnlyDurable
<1> QED
  BY <1>1, <1>3, <1>4, <1>5, <1>6, <1>7, <1>8, <1>9, <1>10 DEF Next

-----------------------------------------------------------------------------
(* The wire. *)

\* What a step does to the wire, in the four ways there are besides sending
\* and receiving: nothing; a new connection; the connection is given up; the
\* stream is not reading one.
QuietStep == UNCHANGED <<wire, pos, lagged, pc, cursor>>
NewConnection == wire' = <<>> /\ pos' = cursor /\ lagged' = FALSE /\ UNCHANGED cursor
GivenUp == wire' = <<>> /\ pc' # "stream"
NotReading == UNCHANGED wire /\ cursor' \in Nat /\ cursor <= cursor' /\ pc' # "stream"

\* The sending and receiving steps, and the others by what they do to the wire.
LEMMA StepKinds ==
    ASSUME StreamInv, [Next]_vars
    PROVE  \/ ServerPush \/ ServerRepeat \/ ServerLag \/ ServerSkip
           \/ ServerExpire \/ ReceiveMessage
           \/ QuietStep \/ NewConnection \/ GivenUp \/ NotReading
<1> USE DEF serverVars
<1>0. cursor \in Nat
  BY StreamAssumption DEF StreamInv, TypeOK
<1>1. CASE Post \/ Process \/ UNCHANGED vars
  BY <1>1 DEF Post, Process, vars, QuietStep
<1>2. CASE ConnectOk
  BY <1>2 DEF ConnectOk, NewConnection
<1>3. CASE ReceiveResync \/ ReceiveExpired \/ ReceiveBroken \/ Disconnect \/ Reopen
  BY <1>3 DEF ReceiveResync, ReceiveExpired, ReceiveBroken, Disconnect, Backoff,
     Reopen, GivenUp
<1>4. CASE Wake \/ ConnectRetry \/ ConnectRefused \/ PageFails
  BY <1>0, <1>4 DEF Wake, ConnectRetry, ConnectRefused, PageFails, Backoff, NotReading
<1>5. CASE ReadPage
  <2>1. PageEnd \in Nat /\ cursor <= PageEnd
    BY <1>0, PageProperties, StreamAssumption DEF StreamInv, OnlyDurable, TypeOK
  <2>2. pc' # "stream"
    BY <1>5 DEF ReadPage
  <2> QED
    BY <1>5, <2>1, <2>2 DEF ReadPage, NotReading
<1> QED
  BY <1>1, <1>2, <1>3, <1>4, <1>5 DEF Next

\* Until the service says that it cannot follow, everything up to pos is on
\* the wire or behind the cursor.
LEMMA SentStep ==
    ASSUME StreamInv, [Next]_vars
    PROVE  SentUpToPos'
<1> USE StreamAssumption
<1>0. cursor \in Nat /\ pos \in Nat /\ TypeOK
  BY DEF StreamInv, TypeOK
<1> SUFFICES ASSUME pc' = "stream", ~lagged', NEW s \in (cursor' + 1)..pos'
             PROVE  \E i \in DOMAIN wire' : wire'[i] = MessageEvent(s)
  BY DEF SentUpToPos
<1>1. ASSUME NEW e \in Event, Send(e), ~lagged, s \in (cursor + 1)..pos
      PROVE  \E i \in DOMAIN wire' : wire'[i] = MessageEvent(s)
  <2>1. PICK i \in DOMAIN wire : wire[i] = MessageEvent(s)
    BY <1>1 DEF Send, StreamInv, SentUpToPos
  <2> QED
    BY <1>0, <1>1, <2>1, SendProperties
<1>2. CASE ServerPush
  <2>1. /\ pos' = pos + 1 /\ ~lagged /\ cursor' = cursor
        /\ Send(MessageEvent(pos + 1)) /\ pos + 1 \in 0..MaxLog
    BY <1>2 DEF ServerPush, Send, StreamInv, TypeOK
  <2>2. MessageEvent(pos + 1) \in Event
    BY <2>1, EventTypes
  <2>3. CASE s = pos + 1
    BY <1>0, <2>1, <2>2, <2>3, SendProperties
  <2>4. CASE s # pos + 1
    BY <1>0, <1>1, <2>1, <2>2, <2>4
  <2> QED
    BY <2>3, <2>4
<1>3. CASE ServerRepeat
  <2>1. PICK r \in 1..pos : Send(MessageEvent(r))
    BY <1>3 DEF ServerRepeat
  <2>2. MessageEvent(r) \in Event
    BY <2>1, EventTypes DEF StreamInv, TypeOK
  <2>3. UNCHANGED <<pos, lagged, cursor>>
    BY <1>3, <2>1 DEF ServerRepeat, Send
  <2> QED
    BY <1>1, <2>1, <2>2, <2>3
<1>4. CASE ServerLag
  BY <1>4 DEF ServerLag
<1>5. CASE ServerSkip
  BY <1>5 DEF ServerSkip
<1>6. CASE ServerExpire
  <2>1. UNCHANGED <<pos, lagged, cursor>> /\ Send(Control("authorization_required"))
    BY <1>6 DEF ServerExpire, Send
  <2> QED
    BY <1>1, <2>1, EventTypes
<1>7. CASE ReceiveMessage
  <2>1. /\ pc = "stream" /\ wire # <<>> /\ wire' = Tail(wire)
        /\ UNCHANGED <<pos, lagged>>
        /\ cursor' = IF Head(wire).seq > cursor THEN Head(wire).seq ELSE cursor
    BY <1>7 DEF ReceiveMessage, Deliver, serverVars
  <2>2. Head(wire).seq \in Nat
    BY <1>0, <1>7, HeadIsNext
  <2>3. cursor' \in Nat /\ cursor <= cursor' /\ Head(wire).seq <= cursor'
    BY <1>0, <2>1, <2>2
  <2>4. s \in (cursor + 1)..pos /\ s > Head(wire).seq
    BY <1>0, <2>1, <2>2, <2>3
  <2>5. PICK i \in DOMAIN wire : wire[i] = MessageEvent(s)
    BY <2>1, <2>4 DEF StreamInv, SentUpToPos
  <2>6. i # 1
    BY <1>0, <2>1, <2>2, <2>4, <2>5, TakeProperties DEF MessageEvent
  <2>7. i - 1 \in DOMAIN wire' /\ wire'[i - 1] = wire[i]
    BY <1>0, <2>1, <2>5, <2>6, TakeProperties
  <2> QED
    BY <2>5, <2>7
<1>8. CASE QuietStep
  BY <1>8 DEF QuietStep, StreamInv, SentUpToPos
<1>9. CASE NewConnection
  BY <1>0, <1>9 DEF NewConnection
<1>10. CASE GivenUp \/ NotReading
  BY <1>10 DEF GivenUp, NotReading
<1> QED
  BY <1>2, <1>3, <1>4, <1>5, <1>6, <1>7, <1>8, <1>9, <1>10, StepKinds

\* What the service skips is behind a resync that the stream has yet to read.
LEMMA LagStep ==
    ASSUME StreamInv, [Next]_vars
    PROVE  LagIsAnnounced'
<1> USE StreamAssumption
<1>0. TypeOK /\ pos \in Nat
  BY DEF StreamInv, TypeOK
<1> DEFINE Resync == Control("resync_required")
<1> SUFFICES ASSUME pc' = "stream", lagged'
             PROVE  \E i \in DOMAIN wire' : wire'[i] = Resync
  BY DEF LagIsAnnounced
<1> HIDE DEF Resync
<1>1. ASSUME NEW e \in Event, Send(e), lagged
      PROVE  \E i \in DOMAIN wire' : wire'[i] = Resync
  <2>1. PICK i \in DOMAIN wire : wire[i] = Resync
    BY <1>1 DEF Send, StreamInv, LagIsAnnounced, Resync
  <2> QED
    BY <1>0, <1>1, <2>1, SendProperties
<1>2. CASE ServerPush
  BY <1>2 DEF ServerPush
<1>3. CASE ServerRepeat
  <2>1. PICK r \in 1..pos : Send(MessageEvent(r))
    BY <1>3 DEF ServerRepeat
  <2>2. MessageEvent(r) \in Event /\ lagged
    BY <1>3, <2>1, EventTypes DEF StreamInv, TypeOK, ServerRepeat
  <2> QED
    BY <1>1, <2>1, <2>2
<1>4. CASE ServerLag
  <2>1. Send(Resync) /\ Resync \in Event
    BY <1>4, EventTypes DEF ServerLag, Resync
  <2> QED
    BY <1>0, <2>1, SendProperties
<1>5. CASE ServerSkip
  <2>1. PICK r \in (pos + 1)..log : Send(MessageEvent(r))
    BY <1>5 DEF ServerSkip
  <2>2. MessageEvent(r) \in Event /\ lagged
    BY <1>5, <2>1, EventTypes DEF StreamInv, TypeOK, ServerSkip
  <2> QED
    BY <1>1, <2>1, <2>2
<1>6. CASE ServerExpire
  <2>1. lagged /\ Send(Control("authorization_required"))
    BY <1>6 DEF ServerExpire
  <2> QED
    BY <1>1, <2>1, EventTypes
<1>7. CASE ReceiveMessage
  <2>1. /\ pc = "stream" /\ wire # <<>> /\ wire' = Tail(wire) /\ lagged
        /\ Head(wire).kind = "message"
    BY <1>7 DEF ReceiveMessage, serverVars
  <2>2. PICK i \in DOMAIN wire : wire[i] = Resync
    BY <2>1 DEF StreamInv, LagIsAnnounced, Resync
  <2>3. i # 1
    BY <1>0, <2>1, <2>2, TakeProperties DEF Control, Resync
  <2>4. i - 1 \in DOMAIN wire' /\ wire'[i - 1] = wire[i]
    BY <1>0, <2>1, <2>2, <2>3, TakeProperties
  <2> QED
    BY <2>2, <2>4
<1>8. CASE QuietStep
  BY <1>8 DEF QuietStep, StreamInv, LagIsAnnounced, Resync
<1>9. CASE NewConnection
  BY <1>9 DEF NewConnection
<1>10. CASE GivenUp \/ NotReading
  BY <1>10 DEF GivenUp, NotReading
<1> QED
  BY <1>2, <1>3, <1>4, <1>5, <1>6, <1>7, <1>8, <1>9, <1>10, StepKinds

\* In front of a resync the messages come without a jump.
LEMMA WireStep ==
    ASSUME StreamInv, [Next]_vars
    PROVE  WireInOrder'
<1> USE StreamAssumption
<1>0. /\ TypeOK /\ pos \in Nat /\ cursor \in Nat
      /\ \A i \in DOMAIN wire : wire[i] \in Event /\ wire[i].seq \in Nat
  <2>1. TypeOK /\ pos \in Nat /\ cursor \in Nat
    BY DEF StreamInv, TypeOK
  <2>2. \A i \in DOMAIN wire : wire[i] \in Event
    BY DEF StreamInv, TypeOK
  <2>3. \A i \in DOMAIN wire : wire[i].seq \in Nat
    BY <2>2 DEF Event
  <2> QED
    BY <2>1, <2>2, <2>3
<1> DEFINE Resync == Control("resync_required")
<1> SUFFICES ASSUME NEW i \in DOMAIN wire', wire'[i].kind = "message",
                    \A j \in 1..(i - 1) : wire'[j] # Resync
             PROVE  \/ wire'[i].seq <= cursor' + 1
                    \/ \E j \in 1..(i - 1) : wire'[j] = MessageEvent(wire'[i].seq - 1)
  BY DEF WireInOrder, BeforeResync, Follows
<1> DEFINE Goal == \/ wire'[i].seq <= cursor' + 1
                   \/ \E j \in 1..(i - 1) : wire'[j] = MessageEvent(wire'[i].seq - 1)
<1> HIDE DEF Resync
<1>1. ASSUME NEW e \in Event, Send(e),
             \/ e.kind # "message"
             \/ lagged
             \/ ~lagged /\ e.seq \in Nat /\ e.seq <= pos + 1
      PROVE  Goal
  <2>1. /\ pc = "stream" /\ UNCHANGED cursor
        /\ DOMAIN wire = 1..Len(wire) /\ Len(wire) \in Nat
        /\ DOMAIN wire' = 1..(Len(wire) + 1)
        /\ \A j \in 1..Len(wire) : wire'[j] = wire[j]
        /\ wire'[Len(wire) + 1] = e
    BY <1>0, <1>1, SendProperties DEF Send
  <2>2. CASE i \in DOMAIN wire
    <3>1. \A j \in 1..(i - 1) : j \in 1..Len(wire)
      BY <2>1, <2>2
    <3>2. wire[i].kind = "message" /\ BeforeResync(i)
      BY <2>1, <2>2, <3>1 DEF BeforeResync, Resync
    <3>3. Follows(i)
      BY <2>2, <3>2 DEF StreamInv, WireInOrder
    <3> QED
      BY <2>1, <2>2, <3>1, <3>3 DEF Follows
  <2>3. CASE i = Len(wire) + 1
    <3>1. wire'[i] = e /\ e.kind = "message" /\ i - 1 = Len(wire)
      BY <2>1, <2>3
    <3>2. ~lagged
      <4>1. SUFFICES ASSUME lagged PROVE FALSE
        OBVIOUS
      <4>2. PICK j \in DOMAIN wire : wire[j] = Resync
        BY <2>1, <4>1 DEF StreamInv, LagIsAnnounced, Resync
      <4> QED
        BY <2>1, <3>1, <4>2
    <3>3. e.seq \in Nat /\ e.seq <= pos + 1
      BY <1>1, <3>1, <3>2
    <3>4. CASE e.seq <= cursor + 1
      BY <2>1, <3>1, <3>4
    <3>5. CASE e.seq > cursor + 1
      <4>1. e.seq - 1 \in (cursor + 1)..pos
        BY <1>0, <3>3, <3>5
      <4>2. PICK j \in DOMAIN wire : wire[j] = MessageEvent(e.seq - 1)
        BY <2>1, <3>2, <4>1 DEF StreamInv, SentUpToPos
      <4> QED
        BY <2>1, <3>1, <4>2
    <3> QED
      BY <1>0, <3>3, <3>4, <3>5
  <2> QED
    BY <2>1, <2>2, <2>3
<1>2. CASE ServerPush
  <2>1. /\ ~lagged /\ Send(MessageEvent(pos + 1)) /\ pos + 1 \in 0..MaxLog
    BY <1>2 DEF ServerPush, StreamInv, TypeOK
  <2>2. MessageEvent(pos + 1) \in Event /\ MessageEvent(pos + 1).seq = pos + 1
    BY <2>1, EventTypes DEF MessageEvent
  <2> QED
    BY <1>0, <1>1, <2>1, <2>2
<1>3. CASE ServerRepeat
  <2>1. PICK r \in 1..pos : Send(MessageEvent(r))
    BY <1>3 DEF ServerRepeat
  <2>2. MessageEvent(r) \in Event /\ MessageEvent(r).seq = r
    BY <2>1, EventTypes DEF StreamInv, TypeOK, MessageEvent
  <2>3. r \in Nat /\ r <= pos + 1
    BY <1>0, <2>1
  <2> QED
    BY <1>1, <2>1, <2>2, <2>3
<1>4. CASE ServerLag
  <2>1. Send(Control("resync_required"))
    BY <1>4 DEF ServerLag
  <2>2. Control("resync_required").kind # "message"
    BY DEF Control
  <2> QED
    BY <1>1, <2>1, <2>2, EventTypes
<1>5. CASE ServerSkip
  <2>1. PICK r \in (pos + 1)..log : Send(MessageEvent(r))
    BY <1>5 DEF ServerSkip
  <2>2. MessageEvent(r) \in Event /\ lagged
    BY <1>5, <2>1, EventTypes DEF StreamInv, TypeOK, ServerSkip
  <2> QED
    BY <1>1, <2>1, <2>2
<1>6. CASE ServerExpire
  <2>1. Send(Control("authorization_required"))
    BY <1>6 DEF ServerExpire
  <2>2. Control("authorization_required").kind # "message"
    BY DEF Control
  <2> QED
    BY <1>1, <2>1, <2>2, EventTypes
<1>7. CASE ReceiveMessage
  <2>1. /\ wire # <<>> /\ wire' = Tail(wire)
        /\ cursor' = IF Head(wire).seq > cursor THEN Head(wire).seq ELSE cursor
    BY <1>7 DEF ReceiveMessage, Deliver
  <2>2. Head(wire).seq \in Nat /\ Head(wire) = MessageEvent(Head(wire).seq)
    BY <1>0, <1>7, HeadIsNext
  <2>3. cursor' \in Nat /\ cursor <= cursor' /\ Head(wire).seq <= cursor'
    BY <1>0, <2>1, <2>2
  <2>4. /\ DOMAIN wire = 1..Len(wire) /\ Len(wire) \in Nat \ {0}
        /\ DOMAIN wire' = 1..(Len(wire) - 1)
        /\ \A j \in 1..(Len(wire) - 1) : wire'[j] = wire[j + 1]
        /\ Head(wire) = wire[1]
    BY <1>0, <2>1, TakeProperties
  <2>5. i + 1 \in DOMAIN wire /\ wire'[i] = wire[i + 1] /\ wire[i + 1].seq \in Nat
    BY <1>0, <2>4
  <2>6. BeforeResync(i + 1)
    <3>1. SUFFICES ASSUME NEW j \in 1..i
                   PROVE  wire[j] # Resync
      BY <2>4 DEF BeforeResync, Resync
    <3>2. CASE j = 1
      BY <2>2, <2>4, <3>2 DEF MessageEvent, Control, Resync
    <3>3. CASE j # 1
      <4>1. j - 1 \in 1..(i - 1) /\ j - 1 \in 1..(Len(wire) - 1)
        BY <2>4, <3>3
      <4> QED
        BY <2>4, <4>1
    <3> QED
      BY <3>2, <3>3
  <2>7. Follows(i + 1)
    BY <2>5, <2>6 DEF StreamInv, WireInOrder
  <2>8. CASE wire[i + 1].seq <= cursor + 1
    BY <1>0, <2>3, <2>5, <2>8
  <2>9. CASE ~(wire[i + 1].seq <= cursor + 1)
    <3>1. PICK j \in 1..i : wire[j] = MessageEvent(wire[i + 1].seq - 1)
      BY <2>4, <2>7, <2>9 DEF Follows
    <3>2. CASE j = 1
      <4>1. Head(wire).seq = wire[i + 1].seq - 1
        BY <2>4, <3>1, <3>2 DEF MessageEvent
      <4> QED
        BY <2>2, <2>3, <2>5, <4>1
    <3>3. CASE j # 1
      <4>1. j - 1 \in 1..(i - 1) /\ j - 1 \in 1..(Len(wire) - 1)
        BY <2>4, <3>3
      <4>2. wire'[j - 1] = wire[j]
        BY <2>4, <4>1
      <4> QED
        BY <2>5, <3>1, <4>1, <4>2
    <3> QED
      BY <3>2, <3>3
  <2> QED
    BY <2>8, <2>9
<1>8. CASE QuietStep \/ NotReading
  <2>1. wire' = wire /\ cursor' \in Nat /\ cursor <= cursor'
    BY <1>0, <1>8 DEF QuietStep, NotReading
  <2>2. Follows(i)
    BY <2>1 DEF StreamInv, WireInOrder, BeforeResync, Resync
  <2> QED
    BY <1>0, <2>1, <2>2 DEF Follows
<1>9. CASE NewConnection \/ GivenUp
  <2>1. wire' = <<>>
    BY <1>9 DEF NewConnection, GivenUp
  <2> QED
    BY <2>1
<1> QED
  BY <1>2, <1>3, <1>4, <1>5, <1>6, <1>7, <1>8, <1>9, StepKinds

-----------------------------------------------------------------------------
(* The theorems. *)

\* The invariant holds at the start and every step of Next keeps it.
LEMMA StreamInvInit == Init => StreamInv
<1> SUFFICES ASSUME Init PROVE StreamInv
  OBVIOUS
<1>1. TypeOK
  <2>1. wire = <<>> /\ got = <<>> /\ lagged = FALSE /\ pc = "connect"
    BY DEF Init
  <2>2. log = 0 /\ pos = 0 /\ cursor = 0 /\ delay = 0 /\ base = 0 /\ processed = 0
    BY DEF Init
  <2>3. 0 \in 0..MaxLog /\ 0 \in 0..DelayCap
    BY StreamAssumption
  <2> QED
    BY <2>1, <2>2, <2>3, EmptySeq DEF TypeOK
<1>2. /\ DOMAIN wire = {} /\ DOMAIN got = {} /\ Len(got) = 0
      /\ log = 0 /\ pos = 0 /\ cursor = 0 /\ base = 0 /\ processed = 0
      /\ pc = "connect"
  BY DEF Init
<1>3. OnlyDurable /\ SentUpToPos /\ LagIsAnnounced /\ WireInOrder
  BY <1>2 DEF OnlyDurable, SentUpToPos, LagIsAnnounced, WireInOrder
<1>4. Gapless
  BY <1>2 DEF Gapless
<1> QED
  BY <1>1, <1>3, <1>4 DEF StreamInv

\* StreamInv is an invariant of the specification.
THEOREM StreamInvHolds == Spec => []StreamInv
<1>1. Init => StreamInv
  BY StreamInvInit
<1>2. StreamInv /\ [Next]_vars => StreamInv'
  <2> SUFFICES ASSUME StreamInv, [Next]_vars PROVE StreamInv'
    OBVIOUS
  <2>1. TypeOK'
    BY TypeStep DEF StreamInv
  <2> QED
    BY <2>1, DurableStep, SentStep, LagStep, WireStep, GaplessStep DEF StreamInv
<1> QED
  BY <1>1, <1>2, PTL DEF Spec

\* Every reachable state of service, connection, stream and caller has the
\* shape the code gives it.
THEOREM StreamTypeCorrect == Spec => []TypeOK
<1>1. StreamInv => TypeOK
  BY DEF StreamInv
<1> QED
  BY <1>1, StreamInvHolds, PTL

\* The stream never yields a message out of order, twice, or behind one that
\* it has left out, for every page size and every schedule of the service.
THEOREM StreamIsGapless == Spec => []Gapless
<1>1. StreamInv => Gapless
  BY DEF StreamInv
<1> QED
  BY <1>1, StreamInvHolds, PTL

\* What the caller saves as processed grows by exactly one message at a time,
\* over any number of reopened streams.
THEOREM CallerMissesNothing == Spec => ProcessedInOrder
<1>1. StreamInv /\ [Next]_vars
        => [processed' # processed => processed' = processed + 1]_processed
  <2> SUFFICES ASSUME StreamInv, [Next]_vars, processed' # processed
               PROVE  processed' = processed + 1
    OBVIOUS
  <2>1. Process
    <3>1. ServerPush \/ ServerRepeat \/ ServerLag \/ ServerSkip \/ ServerExpire
            => \E e : Send(e)
      BY DEF ServerPush, ServerRepeat, ServerLag, ServerSkip, ServerExpire
    <3>2. (\E e : Send(e)) => UNCHANGED processed
      BY DEF Send
    <3> QED
      BY <3>1, <3>2 DEF Next, vars, Post, Wake, ConnectOk, ConnectRetry,
         ConnectRefused, ReceiveMessage, ReceiveResync, ReceiveExpired,
         ReceiveBroken, Disconnect, ReadPage, PageFails, Reopen
  <2>2. /\ processed \in Nat /\ base \in Nat /\ Len(got) \in Nat
        /\ base <= processed /\ processed < base + Len(got)
    BY <2>1, StreamAssumption DEF StreamInv, TypeOK, OnlyDurable, Process
  <2>3. processed - base + 1 \in 1..Len(got) /\ DOMAIN got = 1..Len(got)
    BY <2>2 DEF StreamInv, TypeOK
  <2>4. processed' = base + (processed - base + 1)
    BY <2>1, <2>3 DEF Process, StreamInv, Gapless
  <2> QED
    BY <2>2, <2>4
<1> QED
  BY <1>1, StreamInvHolds, PTL DEF Spec, ProcessedInOrder

=============================================================================
