---------------------------- MODULE OutboxProofs ----------------------------
(***************************************************************************)
(* Proofs about the three outboxes, for any number of messages, contents   *)
(* and flushes and any limits.                                             *)
(*                                                                         *)
(* The file outbox comes first.  The SQLite table and the injected store   *)
(* are instances whose queue is the same variable, so that what is proved  *)
(* once about a queue of entries (one more, one fewer, the same messages)  *)
(* and about the durable queue serves all three.                           *)
(***************************************************************************)
EXTENDS FileOutbox, SequenceTheorems, FiniteSetTheorems, TLAPS

CONSTANT Nobody    \* no flush of the store outbox is past the promise chain

VARIABLES
    turn,   \* the flush of the store outbox that is past the promise chain
    copy    \* its copy of the items

Table == INSTANCE SqliteOutbox
Store == INSTANCE StoreOutbox WITH holder <- turn, items <- copy

-----------------------------------------------------------------------------
(* The operators of OutboxBase. *)

\* The backoff of mark_failed stays within its cap, however often it failed.
LEMMA BackoffType ==
    ASSUME NEW n \in 0..ShiftCap
    PROVE  Backoff(n) \in 0..MaxDelay
BY OutboxAssumption DEF Backoff

\* An entry on which an attempt failed is an entry for the same message.
LEMMA FailedEntryType ==
    ASSUME NEW e \in QueuedMessage, NEW a \in 0..MaxDelay
    PROVE  /\ FailedEntry(e, a) \in QueuedMessage
           /\ FailedEntry(e, a).id = e.id
           /\ FailedEntry(e, a).content = e.content
<1>1. MaxDelay \in Nat \ {0} /\ ShiftCap \in Nat \ {0}
  BY OutboxAssumption
<1>2. Bump(e.attempts) \in 0..ShiftCap
  BY <1>1 DEF Bump, QueuedMessage
<1>3. Backoff(Bump(e.attempts)) \in 0..MaxDelay
  BY <1>2, BackoffType
<1>4. LeftOf(Backoff(Bump(e.attempts)), a) \in 0..MaxDelay
  BY <1>1, <1>3 DEF LeftOf
<1> QED
  BY <1>2, <1>4 DEF FailedEntry, QueuedMessage

\* RemoveAt closes the gap it makes.
LEMMA RemoveAtProperties ==
    ASSUME NEW S, NEW s \in Seq(S), NEW p \in 1..Len(s)
    PROVE  /\ RemoveAt(s, p) \in Seq(S)
           /\ Len(RemoveAt(s, p)) = Len(s) - 1
           /\ \A j \in 1..(Len(s) - 1) :
                RemoveAt(s, p)[j] = IF j < p THEN s[j] ELSE s[j + 1]
<1> DEFINE l == SubSeq(s, 1, p - 1)
           r == SubSeq(s, p + 1, Len(s))
<1>1. l \in Seq(S) /\ Len(l) = p - 1 /\ \A j \in 1..(p - 1) : l[j] = s[j]
  OBVIOUS
<1>2. /\ r \in Seq(S) /\ Len(r) = Len(s) - p
      /\ \A j \in 1..(Len(s) - p) : r[j] = s[p + j]
  OBVIOUS
<1> HIDE DEF l, r
<1>3. /\ l \o r \in Seq(S)
      /\ Len(l \o r) = (p - 1) + (Len(s) - p)
      /\ \A j \in 1..((p - 1) + (Len(s) - p)) :
           (l \o r)[j] = IF j <= p - 1 THEN l[j] ELSE r[j - (p - 1)]
  <2>1. /\ l \o r \in Seq(S)
        /\ Len(l \o r) = Len(l) + Len(r)
        /\ \A j \in 1..(Len(l) + Len(r)) :
             (l \o r)[j] = IF j <= Len(l) THEN l[j] ELSE r[j - Len(l)]
    BY <1>1, <1>2, ConcatProperties, Zenon
  <2> QED
    BY <1>1, <1>2, <2>1, Zenon
<1>4. RemoveAt(s, p) = l \o r
  BY DEF RemoveAt, l, r
<1>5. Len(s) \in Nat /\ (p - 1) + (Len(s) - p) = Len(s) - 1
  OBVIOUS
<1>6. ASSUME NEW j \in 1..(Len(s) - 1)
      PROVE  (l \o r)[j] = IF j < p THEN s[j] ELSE s[j + 1]
  <2>1. CASE j < p
    BY <1>1, <1>3, <1>5, <2>1
  <2>2. CASE ~(j < p)
    <3>1. j - (p - 1) \in 1..(Len(s) - p) /\ p + (j - (p - 1)) = j + 1
      BY <1>5, <2>2
    <3>2. ~(j <= p - 1) /\ j \in 1..((p - 1) + (Len(s) - p))
      BY <1>5, <2>2
    <3>3. (l \o r)[j] = r[j - (p - 1)]
      BY <1>3, <3>2, Zenon
    <3> QED
      BY <1>2, <2>2, <3>1, <3>3
  <2> QED
    BY <2>1, <2>2
<1> QED
  BY <1>3, <1>4, <1>5, <1>6

\* mark_sent: the queue without an id holds the other entries and no others.
LEMMA WithoutProperties ==
    ASSUME NEW S, NEW s \in Seq(S), NEW id
    PROVE  /\ Without(s, id) \in Seq(S)
           /\ \A i \in DOMAIN s : s[i].id # id =>
                \E j \in DOMAIN Without(s, id) : Without(s, id)[j] = s[i]
           /\ \A j \in DOMAIN Without(s, id) :
                \E i \in DOMAIN s : Without(s, id)[j] = s[i]
           /\ (\A i, j \in DOMAIN s : s[i].id = s[j].id => i = j)
                => \A i, j \in DOMAIN Without(s, id) :
                     Without(s, id)[i].id = Without(s, id)[j].id => i = j
           /\ (\A i, j \in DOMAIN s : s[i].id = s[j].id => i = j)
                => ~HasId(Without(s, id), id)
<1>1. CASE ~HasId(s, id)
  BY <1>1 DEF Without, HasId
<1>2. CASE HasId(s, id)
  <2> DEFINE p == PositionOf(s, id)
             t == RemoveAt(s, p)
  <2>1. p \in DOMAIN s /\ s[p].id = id
    BY <1>2 DEF HasId, PositionOf
  <2>2. Without(s, id) = t
    BY <1>2 DEF Without
  <2> HIDE DEF p
  <2>3. Len(s) \in Nat /\ DOMAIN s = 1..Len(s) /\ p \in 1..Len(s)
    BY <2>1
  <2>4. /\ t \in Seq(S)
        /\ Len(t) = Len(s) - 1
        /\ \A j \in 1..(Len(s) - 1) : t[j] = IF j < p THEN s[j] ELSE s[j + 1]
    BY <2>3, RemoveAtProperties
  <2> HIDE DEF t
  <2>5. DOMAIN t = 1..(Len(s) - 1)
    BY <2>4
  <2>6. ASSUME NEW i \in DOMAIN s, s[i].id # id
        PROVE  \E j \in DOMAIN t : t[j] = s[i]
    <3>1. i # p
      BY <2>1, <2>6
    <3>2. CASE i < p
      <4>1. i \in DOMAIN t /\ t[i] = s[i]
        BY <2>3, <2>4, <2>5, <3>2
      <4> QED
        BY <4>1
    <3>3. CASE i > p
      <4>1. i - 1 \in 1..(Len(s) - 1) /\ ~(i - 1 < p) /\ (i - 1) + 1 = i
        BY <2>3, <3>3
      <4>2. t[i - 1] = s[i]
        BY <2>4, <4>1
      <4> QED
        BY <2>5, <4>1, <4>2
    <3> QED
      BY <2>3, <3>1, <3>2, <3>3
  <2>7. ASSUME NEW j \in DOMAIN t
        PROVE  \E i \in DOMAIN s : t[j] = s[i]
    <3>1. j \in DOMAIN s /\ j + 1 \in DOMAIN s
      BY <2>3, <2>5
    <3> QED
      BY <2>4, <2>5, <3>1
  <2>8. ASSUME \A i, j \in DOMAIN s : s[i].id = s[j].id => i = j,
               NEW i \in DOMAIN t, NEW j \in DOMAIN t, t[i].id = t[j].id
        PROVE  i = j
    <3>1. /\ i \in DOMAIN s /\ i + 1 \in DOMAIN s
          /\ j \in DOMAIN s /\ j + 1 \in DOMAIN s
      BY <2>3, <2>5
    <3>2. (IF i < p THEN i ELSE i + 1) = (IF j < p THEN j ELSE j + 1)
      BY <2>4, <2>5, <2>8, <3>1
    <3> QED
      BY <2>3, <2>5, <3>2
  <2>9. ASSUME \A i, j \in DOMAIN s : s[i].id = s[j].id => i = j,
               NEW j \in DOMAIN t
        PROVE  t[j].id # id
    <3>1. PICK i \in DOMAIN s : t[j] = s[i] /\ i # p
      <4>1. j \in DOMAIN s /\ j + 1 \in DOMAIN s /\ j \in 1..(Len(s) - 1)
        BY <2>3, <2>5
      <4>2. CASE j < p
        BY <2>3, <2>4, <4>1, <4>2
      <4>3. CASE ~(j < p)
        <5>1. j + 1 # p /\ t[j] = s[j + 1]
          BY <2>3, <2>4, <4>1, <4>3
        <5> QED
          BY <4>1, <5>1
      <4> QED
        BY <4>2, <4>3
    <3> QED
      BY <2>1, <2>9, <3>1
  <2>10. (\A i, j \in DOMAIN s : s[i].id = s[j].id => i = j) => ~HasId(t, id)
    BY <2>9 DEF HasId
  <2> QED
    BY <2>2, <2>4, <2>6, <2>7, <2>8, <2>10
<1> QED
  BY <1>1, <1>2

-----------------------------------------------------------------------------
(* Type correctness. *)

\* A new entry, and the message of an entry, have their types.
LEMMA EntryTypes ==
    /\ \A m \in Message : /\ NewEntry(m) \in QueuedMessage
                          /\ MsgOf(NewEntry(m)) = m
    /\ \A e \in QueuedMessage : MsgOf(e) \in Message
<1>1. MaxDelay \in Nat /\ ShiftCap \in Nat
  BY OutboxAssumption
<1> QED
  BY <1>1 DEF NewEntry, QueuedMessage, Message, MsgOf

\* mark_failed changes one entry of the queue, and not its message.
LEMMA WithFailureProperties ==
    ASSUME TypeOK, NEW f \in Flushers, HasId(queue, Current(f).id)
    PROVE  /\ WithFailure(f) \in Seq(QueuedMessage)
           /\ DOMAIN WithFailure(f) = DOMAIN queue
           /\ \A i \in DOMAIN queue : /\ WithFailure(f)[i].id = queue[i].id
                                      /\ WithFailure(f)[i].content = queue[i].content
<1> DEFINE p == PositionOf(queue, Current(f).id)
<1>1. p \in DOMAIN queue
  BY DEF HasId, PositionOf
<1>2. queue \in Seq(QueuedMessage) /\ age[f] \in 0..MaxDelay
  BY DEF TypeOK
<1>3. queue[p] \in QueuedMessage
  BY <1>1, <1>2
<1> DEFINE e == FailedEntry(queue[p], age[f])
<1>4. e \in QueuedMessage /\ e.id = queue[p].id /\ e.content = queue[p].content
  BY <1>2, <1>3, FailedEntryType
<1>5. WithFailure(f) = [queue EXCEPT ![p] = e]
  BY DEF WithFailure
<1> HIDE DEF p, e
<1> QED
  BY <1>1, <1>2, <1>4, <1>5

\* The end of a flush's turn, whether it goes on or stops, keeps its shape.
LEMMA TurnEnds ==
    ASSUME TypeOK, NEW f \in Flushers, pc[f] # "idle", Advance(f) \/ Abort(f)
    PROVE  /\ pc' \in [Flushers -> {"idle", "submit", "wait", "sent", "failed"}]
           /\ batch' \in [Flushers -> Seq(Message)]
           /\ age' \in [Flushers -> 0..MaxDelay]
           /\ \A g \in Flushers : pc'[g] # "idle" => batch'[g] # <<>>
           /\ \A g \in Flushers : pc'[g] = "sent" =>
                g # f /\ pc[g] = "sent" /\ batch'[g] = batch[g]
           /\ \A g \in Flushers : \A k \in DOMAIN batch'[g] :
                \E j \in DOMAIN batch[g] : batch'[g][k] = batch[g][j]
<1>1. MaxDelay \in Nat
  BY OutboxAssumption
<1>2. batch[f] \in Seq(Message) /\ batch[f] # <<>>
  BY DEF TypeOK
<1>3. /\ Tail(batch[f]) \in Seq(Message)
      /\ Len(batch[f]) # 1 => Tail(batch[f]) # <<>>
      /\ \A k \in DOMAIN Tail(batch[f]) :
           k + 1 \in DOMAIN batch[f] /\ Tail(batch[f])[k] = batch[f][k + 1]
  <2>1. /\ Tail(batch[f]) \in Seq(Message)
        /\ Len(Tail(batch[f])) = Len(batch[f]) - 1
        /\ \A k \in 1..Len(Tail(batch[f])) : Tail(batch[f])[k] = batch[f][k + 1]
    BY <1>2, HeadTailProperties
  <2>2. Len(batch[f]) \in Nat \ {0} /\ DOMAIN batch[f] = 1..Len(batch[f])
    BY <1>2
  <2>3. DOMAIN Tail(batch[f]) = 1..(Len(batch[f]) - 1)
    BY <2>1
  <2>4. Len(batch[f]) # 1 => Tail(batch[f]) # <<>>
    <3>1. Len(batch[f]) # 1 => Len(Tail(batch[f])) # 0
      BY <2>1, <2>2
    <3>2. Len(<<>>) = 0
      BY EmptySeq
    <3> QED
      BY <3>1, <3>2, Zenon
  <2> QED
    BY <2>1, <2>2, <2>3, <2>4
<1>4. CASE Advance(f)
  BY <1>1, <1>3, <1>4 DEF Advance, TypeOK
<1>5. CASE Abort(f)
  BY <1>1, <1>5 DEF Abort, TypeOK
<1> QED
  BY <1>4, <1>5

\* Every step of the outbox keeps the types.
LEMMA TypeStep ==
    ASSUME TypeOK, [Next]_vars
    PROVE  TypeOK'
<1> USE DEF serviceVars, historyVars, flushVars, ServiceTypeOK
<1>1. ASSUME NEW m \in Message, EnqueueAgain(m)
      PROVE  TypeOK'
  BY <1>1 DEF EnqueueAgain, TypeOK
<1>2. ASSUME NEW m \in Message, EnqueueNew(m)
      PROVE  TypeOK'
  <2>1. Append(queue, NewEntry(m)) \in Seq(QueuedMessage)
    BY EntryTypes DEF TypeOK
  <2> QED
    BY <1>2, <2>1 DEF EnqueueNew, StoreOk, TypeOK
<1>3. ASSUME NEW m \in Message, EnqueueFails(m)
      PROVE  TypeOK'
  <2>1. Append(queue, NewEntry(m)) \in Seq(QueuedMessage)
    BY EntryTypes DEF TypeOK
  <2>2. queue' \in Seq(QueuedMessage)
    BY <1>3, <2>1 DEF EnqueueFails, StoreErr, TypeOK
  <2>3. stored' \subseteq Message
    BY <1>3 DEF EnqueueFails, TypeOK
  <2> QED
    BY <1>3, <2>2, <2>3 DEF EnqueueFails, TypeOK
<1>4. ASSUME NEW m \in Message, Accepts(m) \/ Loses(m)
      PROVE  TypeOK'
  BY <1>4 DEF Accepts, Loses, ServiceAccept, LoseRequest, TypeOK, Message
<1>5. ASSUME NEW f \in Flushers, FlushBegin(f)
      PROVE  TypeOK'
  <2>0. PICK n \in 1..Limit : \E ix \in [1..n -> DOMAIN queue] :
          batch' = [batch EXCEPT ![f] = [k \in 1..n |-> MsgOf(queue[ix[k]])]]
    BY <1>5 DEF FlushBegin
  <2>1. PICK ix \in [1..n -> DOMAIN queue] :
          batch' = [batch EXCEPT ![f] = [k \in 1..n |-> MsgOf(queue[ix[k]])]]
    BY <2>0
  <2>2. n \in Nat \ {0}
    BY OutboxAssumption
  <2>3. \A k \in 1..n : MsgOf(queue[ix[k]]) \in Message
    BY EntryTypes DEF TypeOK
  <2> DEFINE b == [k \in 1..n |-> MsgOf(queue[ix[k]])]
  <2>4. b \in Seq(Message) /\ Len(b) = n
    BY <2>2, <2>3, IsASeq
  <2>5. b # <<>>
    BY <2>2, <2>4
  <2> HIDE DEF b
  <2>6. batch' = [batch EXCEPT ![f] = b]
    BY <2>1 DEF b
  <2> QED
    BY <1>5, <2>4, <2>5, <2>6 DEF FlushBegin, TypeOK
<1>6. ASSUME NEW f \in Flushers, FlushSubmit(f)
      PROVE  TypeOK'
  <2>1. Current(f) \in Message
    BY <1>6 DEF FlushSubmit, TypeOK, Current
  <2> QED
    BY <1>6, <2>1 DEF FlushSubmit, TypeOK
<1>7. ASSUME NEW f \in Flushers, FlushReply(f) \/ FlushError(f)
      PROVE  TypeOK'
  BY <1>7 DEF FlushReply, FlushError, TypeOK
<1>8. ASSUME NEW f \in Flushers, MarkSent(f) \/ MarkSentFails(f)
      PROVE  TypeOK'
  <2>1. queue \in Seq(QueuedMessage)
    BY DEF TypeOK
  <2>2. Without(queue, Current(f).id) \in Seq(QueuedMessage)
    BY <2>1, WithoutProperties
  <2>3. queue' \in Seq(QueuedMessage)
    BY <1>8, <2>1, <2>2 DEF MarkSent, MarkSentFails, StoreOk, StoreErr
  <2>4. pc[f] # "idle" /\ (Advance(f) \/ Abort(f))
    BY <1>8 DEF MarkSent, MarkSentFails
  <2> QED
    BY <1>8, <2>3, <2>4, TurnEnds DEF MarkSent, MarkSentFails, TypeOK
<1>9. ASSUME NEW f \in Flushers, MarkFailed(f) \/ MarkFailedFails(f)
      PROVE  TypeOK'
  <2>1. queue' \in Seq(QueuedMessage)
    BY <1>9, WithFailureProperties
    DEF MarkFailed, MarkFailedFails, StoreOk, StoreErr, TypeOK
  <2>2. pc[f] # "idle" /\ (Advance(f) \/ Abort(f))
    BY <1>9 DEF MarkFailed, MarkFailedFails
  <2> QED
    BY <1>9, <2>1, <2>2, TurnEnds DEF MarkFailed, MarkFailedFails, TypeOK
<1>10. CASE Tick
  <2>1. MaxDelay \in Nat
    BY OutboxAssumption
  <2>2. \A i \in DOMAIN queue :
          [queue[i] EXCEPT !.wait = LeftOf(queue[i].wait, 1)] \in QueuedMessage
    <3>1. ASSUME NEW w \in 0..MaxDelay
          PROVE  LeftOf(w, 1) \in 0..MaxDelay
      BY <2>1 DEF LeftOf
    <3>2. \A i \in DOMAIN queue : queue[i] \in QueuedMessage
      BY DEF TypeOK
    <3> QED
      BY <3>1, <3>2 DEF QueuedMessage
  <2>3. queue' \in Seq(QueuedMessage)
    BY <1>10, <2>2 DEF Tick, TypeOK
  <2>4. age' \in [Flushers -> 0..MaxDelay]
    BY <1>10, <2>1 DEF Tick, TypeOK
  <2> QED
    BY <1>10, <2>3, <2>4 DEF Tick, TypeOK
<1>11. CASE Crash
  <2>1. MaxDelay \in Nat
    BY OutboxAssumption
  <2> QED
    BY <1>11, <2>1 DEF Crash, TypeOK
<1>12. CASE UNCHANGED vars
  BY <1>12 DEF vars, TypeOK
<1> QED
  BY <1>1, <1>2, <1>3, <1>4, <1>5, <1>6, <1>7, <1>8, <1>9, <1>10, <1>11, <1>12
  DEF Next, FlushStep

\* The outbox, its flushes and the service keep their types in every behaviour.
THEOREM TypeCorrect == Spec => []TypeOK
<1>1. Init => TypeOK
  <2>1. MaxDelay \in Nat
    BY OutboxAssumption
  <2> QED
    BY <2>1 DEF Init, ServiceInit, HistoryInit, TypeOK, ServiceTypeOK
<1>2. TypeOK /\ [Next]_vars => TypeOK'
  BY TypeStep
<1> QED
  BY <1>1, <1>2, PTL DEF Spec

-----------------------------------------------------------------------------
(* Safety.  NoLoss is not inductive: mark_sent drops an entry for no other
   reason than that its flush is at "sent", and drops it by its id.  So the
   invariant says what that state of a flush means (SentHeld), and that the
   queue has no second entry under the id. *)

\* A flush is about to drop an entry only if the service holds its id.
SentHeld ==
    \A f \in Flushers : pc[f] = "sent" => accepted[Current(f).id] # NoContent

\* Whatever is queued, in the hands of a flush or on its way was stored before.
Staged ==
    /\ Queued \subseteq stored
    /\ \A f \in Flushers : \A k \in DOMAIN batch[f] : batch[f][k] \in stored
    /\ net \subseteq stored

SafeInv == TypeOK /\ UniqueIds /\ SentHeld /\ Staged /\ NoLoss

\* The message at the head of a busy flush is one of its batch.
LEMMA CurrentInBatch ==
    ASSUME TypeOK, NEW f \in Flushers, pc[f] # "idle"
    PROVE  /\ Current(f) \in Message
           /\ \E k \in DOMAIN batch[f] : Current(f) = batch[f][k]
<1>1. batch[f] \in Seq(Message) /\ batch[f] # <<>>
  BY DEF TypeOK
<1> QED
  BY <1>1 DEF Current

\* A store that puts one entry at the end of a queue without its id.
LEMMA AppendedQueue ==
    ASSUME queue \in Seq(QueuedMessage), UniqueIds,
           NEW m \in Message, ~HasId(queue, m.id),
           queue' = Append(queue, NewEntry(m))
    PROVE  Queued' = Queued \cup {m} /\ UniqueIds'
<1> DEFINE e == NewEntry(m)
<1>1. MsgOf(e) = m /\ e.id = m.id
  BY EntryTypes DEF NewEntry
<1>2. queue \in Seq(QueuedMessage) /\ e \in QueuedMessage
  BY EntryTypes
<1> HIDE DEF e
<1>3. /\ Len(queue) \in Nat /\ DOMAIN queue = 1..Len(queue)
      /\ DOMAIN queue' = 1..(Len(queue) + 1)
      /\ \A i \in DOMAIN queue : queue'[i] = queue[i]
      /\ queue'[Len(queue) + 1] = e
  BY <1>2 DEF e
<1>4. DOMAIN queue' = DOMAIN queue \cup {Len(queue) + 1}
  BY <1>3
<1>5. Queued' = Queued \cup {m}
  BY <1>1, <1>3, <1>4 DEF Queued
<1>6. UniqueIds'
  BY <1>1, <1>3, <1>4 DEF UniqueIds, HasId
<1> QED
  BY <1>5, <1>6

\* A store that drops the entry of an id.
LEMMA ShortenedQueue ==
    ASSUME queue \in Seq(QueuedMessage), UniqueIds,
           NEW id, queue' = Without(queue, id)
    PROVE  /\ Queued' \subseteq Queued
           /\ \A m \in Queued : m.id # id => m \in Queued'
           /\ UniqueIds'
<1>1. queue \in Seq(QueuedMessage)
  OBVIOUS
<1>2. /\ \A i \in DOMAIN queue : queue[i].id # id =>
           \E j \in DOMAIN queue' : queue'[j] = queue[i]
      /\ \A j \in DOMAIN queue' : \E i \in DOMAIN queue : queue'[j] = queue[i]
      /\ (\A i, j \in DOMAIN queue : queue[i].id = queue[j].id => i = j)
           => \A i, j \in DOMAIN queue' : queue'[i].id = queue'[j].id => i = j
  BY <1>1, WithoutProperties
<1>3. Queued' \subseteq Queued
  BY <1>2 DEF Queued
<1>4. \A m \in Queued : m.id # id => m \in Queued'
  BY <1>2 DEF Queued, MsgOf
<1>5. UniqueIds'
  BY <1>2 DEF UniqueIds
<1> QED
  BY <1>3, <1>4, <1>5

\* A store that changes counts and times only.
LEMMA SameQueue ==
    ASSUME UniqueIds, DOMAIN queue' = DOMAIN queue,
           \A i \in DOMAIN queue : /\ queue'[i].id = queue[i].id
                                   /\ queue'[i].content = queue[i].content
    PROVE  Queued' = Queued /\ UniqueIds'
BY DEF Queued, MsgOf, UniqueIds

-----------------------------------------------------------------------------
(* Every step is a step of the durable queue, or leaves it alone. *)

\* What a step does to the queued messages: nothing, one more, or fewer, and
\* ids stay unique.
LEMMA QueueStep ==
    ASSUME TypeOK, UniqueIds, SentHeld, Staged, [Next]_vars
    PROVE  /\ UniqueIds'
           /\ [Abstract!DQNext]_(Abstract!dqVars)
<1> USE DEF serviceVars, historyVars, flushVars
<1> DEFINE Stays == /\ Queued' = Queued
                    /\ UNCHANGED <<stored, confirmed, accepted>>
<1>0. Stays => [Abstract!DQNext]_(Abstract!dqVars)
  BY DEF Abstract!dqVars
<1>1. ASSUME NEW m \in Message, EnqueueAgain(m)
      PROVE  UniqueIds' /\ Abstract!DQNext
  <2>1. Queued' = Queued /\ UniqueIds'
    BY <1>1 DEF EnqueueAgain, Queued, UniqueIds
  <2>2. Abstract!Confirm(m)
    BY <1>1, <2>1 DEF EnqueueAgain, Abstract!Confirm
  <2> QED
    BY <2>1, <2>2 DEF Abstract!DQNext, Abstract!Messages, Message
<1>2. ASSUME NEW m \in Message, CanEnqueue(m),
             queue' = Append(queue, NewEntry(m)),
             stored' = stored \cup {m},
             confirmed' \in {confirmed, confirmed \cup {m}},
             UNCHANGED accepted
      PROVE  UniqueIds' /\ Abstract!DQNext
  <2>1. Queued' = Queued \cup {m} /\ UniqueIds'
    BY <1>2, AppendedQueue DEF CanEnqueue, TypeOK
  <2>2. \A q \in Queued : q.id # m.id
    BY <1>2 DEF CanEnqueue, HasId, Queued, MsgOf
  <2>3. Abstract!Put(m)
    BY <1>2, <2>1, <2>2 DEF Abstract!Put
  <2> QED
    BY <2>1, <2>3 DEF Abstract!DQNext, Abstract!Messages, Message
<1>3. ASSUME NEW m \in Message, EnqueueNew(m)
      PROVE  UniqueIds' /\ Abstract!DQNext
  BY <1>2, <1>3 DEF EnqueueNew, StoreOk
<1>4. ASSUME NEW m \in Message, EnqueueFails(m)
      PROVE  UniqueIds' /\ [Abstract!DQNext]_(Abstract!dqVars)
  <2>1. CASE queue' = queue
    <3>1. Stays /\ UniqueIds'
      BY <1>4, <2>1 DEF EnqueueFails, Queued, UniqueIds
    <3> QED
      BY <1>0, <3>1
  <2>2. CASE queue' # queue
    BY <1>2, <1>4, <2>2 DEF EnqueueFails, StoreErr
  <2> QED
    BY <2>1, <2>2
<1>5. ASSUME NEW m \in Message, Accepts(m)
      PROVE  UniqueIds' /\ Abstract!DQNext
  <2>1. Queued' = Queued /\ UniqueIds'
    BY <1>5 DEF Accepts, Queued, UniqueIds
  <2>2. m \in stored
    BY <1>5 DEF Accepts, ServiceAccept, Staged
  <2>3. Abstract!Deliver(m)
    BY <1>5, <2>1, <2>2 DEF Accepts, ServiceAccept, Abstract!Deliver
  <2> QED
    BY <2>1, <2>3 DEF Abstract!DQNext, Abstract!Messages, Message
<1>6. ASSUME UNCHANGED <<queue, stored, confirmed, accepted>>
      PROVE  UniqueIds' /\ [Abstract!DQNext]_(Abstract!dqVars)
  <2>1. Stays /\ UniqueIds'
    BY <1>6 DEF Queued, UniqueIds
  <2> QED
    BY <1>0, <2>1
<1>7. ASSUME NEW f \in Flushers, MarkSent(f) \/ MarkSentFails(f)
      PROVE  UniqueIds' /\ [Abstract!DQNext]_(Abstract!dqVars)
  <2>1. CASE queue' = queue
    BY <1>6, <1>7, <2>1 DEF MarkSent, MarkSentFails
  <2>2. CASE queue' = Without(queue, Current(f).id)
    <3>1. /\ Queued' \subseteq Queued
          /\ \A m \in Queued : m.id # Current(f).id => m \in Queued'
          /\ UniqueIds'
      BY <2>2, ShortenedQueue DEF TypeOK
    <3>2. accepted[Current(f).id] # NoContent
      BY <1>7 DEF MarkSent, MarkSentFails, SentHeld
    <3>3. UNCHANGED <<stored, confirmed, accepted>>
      BY <1>7 DEF MarkSent, MarkSentFails
    <3> DEFINE gone == Queued \ Queued'
    <3>4. Abstract!RetireAll(gone)
      BY <3>1, <3>2, <3>3 DEF Abstract!RetireAll
    <3>5. gone \in SUBSET Queued
      OBVIOUS
    <3>6. Abstract!DQNext
      BY <3>4, <3>5 DEF Abstract!DQNext
    <3> QED
      BY <3>1, <3>6
  <2> QED
    BY <1>7, <2>1, <2>2 DEF MarkSent, MarkSentFails, StoreOk, StoreErr
<1>8. ASSUME NEW f \in Flushers, MarkFailed(f) \/ MarkFailedFails(f)
      PROVE  UniqueIds' /\ [Abstract!DQNext]_(Abstract!dqVars)
  <2>1. CASE queue' = queue
    BY <1>6, <1>8, <2>1 DEF MarkFailed, MarkFailedFails
  <2>2. CASE HasId(queue, Current(f).id) /\ queue' = WithFailure(f)
    <3>1. Queued' = Queued /\ UniqueIds'
      BY <2>2, WithFailureProperties, SameQueue
    <3>2. Stays
      BY <1>8, <3>1 DEF MarkFailed, MarkFailedFails
    <3> QED
      BY <1>0, <3>1, <3>2
  <2> QED
    BY <1>8, <2>1, <2>2 DEF MarkFailed, MarkFailedFails, StoreOk, StoreErr
<1>9. CASE Tick
  <2>1. \A i \in DOMAIN queue : queue[i] \in QueuedMessage
    BY DEF TypeOK
  <2>2. /\ DOMAIN queue' = DOMAIN queue
        /\ \A i \in DOMAIN queue : /\ queue'[i].id = queue[i].id
                                   /\ queue'[i].content = queue[i].content
    BY <1>9, <2>1 DEF Tick, QueuedMessage
  <2>3. Queued' = Queued /\ UniqueIds'
    BY <2>2, SameQueue
  <2>4. Stays
    BY <1>9, <2>3 DEF Tick
  <2> QED
    BY <1>0, <2>3, <2>4
<1>10. ASSUME NEW f \in Flushers,
              FlushBegin(f) \/ FlushSubmit(f) \/ FlushReply(f) \/ FlushError(f)
       PROVE  UniqueIds' /\ [Abstract!DQNext]_(Abstract!dqVars)
  BY <1>6, <1>10 DEF FlushBegin, FlushSubmit, FlushReply, FlushError
<1>11. ASSUME NEW m \in Message, Loses(m)
       PROVE  UniqueIds' /\ [Abstract!DQNext]_(Abstract!dqVars)
  BY <1>6, <1>11 DEF Loses, LoseRequest
<1>12. CASE Crash \/ UNCHANGED vars
  BY <1>6, <1>12 DEF Crash, vars
<1> HIDE DEF Stays
<1> QED
  BY <1>1, <1>3, <1>4, <1>5, <1>7, <1>8, <1>9, <1>10, <1>11, <1>12
  DEF Next, FlushStep

\* A step of the durable queue keeps what was stored and what the service
\* holds, and keeps every confirmed message queued or held.
LEMMA AbstractStep ==
    ASSUME ServiceTypeOK, NoLoss, Queued \subseteq stored,
           [Abstract!DQNext]_(Abstract!dqVars)
    PROVE  /\ stored \subseteq stored'
           /\ Queued' \subseteq stored'
           /\ \A id \in MessageIds :
                accepted[id] # NoContent => accepted'[id] # NoContent
           /\ NoLoss'
<1> DEFINE Goal == /\ stored \subseteq stored'
                   /\ Queued' \subseteq stored'
                   /\ \A id \in MessageIds :
                        accepted[id] # NoContent => accepted'[id] # NoContent
                   /\ NoLoss'
<1>0. confirmed \subseteq Message /\ accepted \in [MessageIds -> Contents \cup {NoContent}]
  BY DEF ServiceTypeOK
<1>1. ASSUME NEW m \in Abstract!Messages, Abstract!Put(m) \/ Abstract!Confirm(m)
      PROVE  Goal
  BY <1>1 DEF Abstract!Put, Abstract!Confirm, NoLoss
<1>2. ASSUME NEW m \in Abstract!Messages, Abstract!Deliver(m)
      PROVE  Goal
  <2>1. m.id \in MessageIds /\ m.content # NoContent
    BY OutboxAssumption DEF Abstract!Messages
  <2>2. \A id \in MessageIds : accepted[id] # NoContent => accepted'[id] # NoContent
    BY <1>0, <1>2, <2>1 DEF Abstract!Deliver
  <2>3. Queued' = Queued /\ stored' = stored /\ confirmed' = confirmed
    BY <1>2 DEF Abstract!Deliver
  <2>4. \A c \in confirmed : c.id \in MessageIds
    BY <1>0 DEF Message
  <2>5. NoLoss'
    BY <2>2, <2>3, <2>4 DEF NoLoss
  <2> QED
    BY <2>2, <2>3, <2>5
<1>3. ASSUME NEW gone \in SUBSET Queued, Abstract!RetireAll(gone)
      PROVE  Goal
  <2>1. /\ Queued' = Queued \ gone
        /\ stored' = stored /\ confirmed' = confirmed /\ accepted' = accepted
        /\ \A m \in gone : accepted[m.id] # NoContent
    BY <1>3 DEF Abstract!RetireAll
  <2>2. NoLoss'
    BY <2>1 DEF NoLoss
  <2> QED
    BY <2>1, <2>2
<1>4. CASE UNCHANGED Abstract!dqVars
  <2>1. /\ Queued' = Queued
        /\ stored' = stored /\ confirmed' = confirmed /\ accepted' = accepted
    BY <1>4 DEF Abstract!dqVars
  <2>2. NoLoss'
    BY <2>1 DEF NoLoss
  <2> QED
    BY <2>1, <2>2
<1>5. CASE Abstract!DQNext
  <2>1. CASE \E m \in Abstract!Messages :
               Abstract!Put(m) \/ Abstract!Confirm(m) \/ Abstract!Deliver(m)
    BY <1>1, <1>2, <2>1
  <2>2. CASE \E gone \in SUBSET Queued : Abstract!RetireAll(gone)
    BY <1>3, <2>2
  <2> QED
    BY <1>5, <2>1, <2>2 DEF Abstract!DQNext
<1> QED
  BY <1>4, <1>5

\* What the flushes have in hand, and what is on its way, stays stored.
LEMMA StagedStep ==
    ASSUME TypeOK, Staged, [Next]_vars,
           stored \subseteq stored', Queued' \subseteq stored'
    PROVE  Staged'
<1> USE DEF serviceVars, historyVars, flushVars
<1>1. ASSUME UNCHANGED <<batch, net>>
      PROVE  Staged'
  BY <1>1 DEF Staged
<1>2. ASSUME NEW m \in Message, Accepts(m) \/ Loses(m)
      PROVE  Staged'
  BY <1>2 DEF Accepts, Loses, ServiceAccept, LoseRequest, Staged
<1>3. ASSUME NEW f \in Flushers, FlushBegin(f)
      PROVE  Staged'
  <2>1. PICK n \in 1..Limit : \E ix \in [1..n -> DOMAIN queue] :
          batch' = [batch EXCEPT ![f] = [k \in 1..n |-> MsgOf(queue[ix[k]])]]
    BY <1>3 DEF FlushBegin
  <2>2. PICK ix \in [1..n -> DOMAIN queue] :
          batch' = [batch EXCEPT ![f] = [k \in 1..n |-> MsgOf(queue[ix[k]])]]
    BY <2>1
  <2>3. \A k \in 1..n : MsgOf(queue[ix[k]]) \in stored
    BY DEF Staged, Queued
  <2>4. batch \in [Flushers -> Seq(Message)]
    BY DEF TypeOK
  <2>5. \A g \in Flushers : \A k \in DOMAIN batch'[g] : batch'[g][k] \in stored
    BY <2>2, <2>3, <2>4 DEF Staged
  <2> QED
    BY <1>3, <2>5 DEF FlushBegin, Staged
<1>4. ASSUME NEW f \in Flushers, FlushSubmit(f)
      PROVE  Staged'
  <2>1. Current(f) \in stored
    BY <1>4, CurrentInBatch DEF FlushSubmit, Staged
  <2> QED
    BY <1>4, <2>1 DEF FlushSubmit, Staged
<1>5. ASSUME NEW f \in Flushers,
             MarkSent(f) \/ MarkSentFails(f) \/ MarkFailed(f) \/ MarkFailedFails(f)
      PROVE  Staged'
  <2>1. pc[f] # "idle" /\ (Advance(f) \/ Abort(f)) /\ UNCHANGED net
    BY <1>5 DEF MarkSent, MarkSentFails, MarkFailed, MarkFailedFails
  <2>2. \A g \in Flushers : \A k \in DOMAIN batch'[g] :
          \E j \in DOMAIN batch[g] : batch'[g][k] = batch[g][j]
    BY <2>1, TurnEnds
  <2> QED
    BY <2>1, <2>2 DEF Staged
<1>6. CASE Crash
  BY <1>6 DEF Crash, Staged
<1>7. ASSUME NEW m \in Message, EnqueueAgain(m) \/ EnqueueNew(m) \/ EnqueueFails(m)
      PROVE  Staged'
  BY <1>1, <1>7 DEF EnqueueAgain, EnqueueNew, EnqueueFails
<1>8. ASSUME NEW f \in Flushers, FlushReply(f) \/ FlushError(f)
      PROVE  Staged'
  BY <1>1, <1>8 DEF FlushReply, FlushError
<1>9. CASE Tick \/ UNCHANGED vars
  BY <1>1, <1>9 DEF Tick, vars
<1> QED
  BY <1>2, <1>3, <1>4, <1>5, <1>6, <1>7, <1>8, <1>9 DEF Next, FlushStep

\* A flush reaches "sent" only by an answer of the service, and the service
\* forgets nothing.
LEMMA SentHeldStep ==
    ASSUME TypeOK, SentHeld, [Next]_vars,
           \A id \in MessageIds : accepted[id] # NoContent => accepted'[id] # NoContent
    PROVE  SentHeld'
<1> USE DEF serviceVars, historyVars, flushVars
<1> SUFFICES ASSUME NEW g \in Flushers, pc'[g] = "sent"
             PROVE  accepted'[Head(batch'[g]).id] # NoContent
  BY DEF SentHeld, Current
<1>1. ASSUME pc[g] = "sent", batch'[g] = batch[g]
      PROVE  accepted'[Head(batch'[g]).id] # NoContent
  <2>1. Current(g) \in Message /\ accepted[Current(g).id] # NoContent
    BY <1>1, CurrentInBatch DEF SentHeld
  <2> QED
    BY <1>1, <2>1 DEF Current, Message
<1>2. ASSUME NEW f \in Flushers, FlushReply(f)
      PROVE  accepted'[Head(batch'[g]).id] # NoContent
  <2>1. CASE f = g
    <3>1. Current(g) \in Message
      BY <1>2, <2>1, CurrentInBatch DEF FlushReply
    <3>2. accepted[Current(g).id] # NoContent
      BY <1>2, <2>1, <3>1, OutboxAssumption DEF FlushReply, Message
    <3> QED
      BY <1>2, <3>2 DEF FlushReply, Current
  <2>2. CASE f # g
    BY <1>1, <1>2, <2>2 DEF FlushReply, TypeOK
  <2> QED
    BY <2>1, <2>2
<1>3. ASSUME NEW f \in Flushers,
             MarkSent(f) \/ MarkSentFails(f) \/ MarkFailed(f) \/ MarkFailedFails(f)
      PROVE  accepted'[Head(batch'[g]).id] # NoContent
  <2>1. pc[f] # "idle" /\ (Advance(f) \/ Abort(f))
    BY <1>3 DEF MarkSent, MarkSentFails, MarkFailed, MarkFailedFails
  <2>2. pc[g] = "sent" /\ batch'[g] = batch[g]
    BY <2>1, TurnEnds
  <2> QED
    BY <1>1, <2>2
<1>4. ASSUME NEW f \in Flushers, FlushBegin(f) \/ FlushSubmit(f) \/ FlushError(f)
      PROVE  accepted'[Head(batch'[g]).id] # NoContent
  <2>1. f # g /\ pc[g] = "sent"
    BY <1>4 DEF FlushBegin, FlushSubmit, FlushError, TypeOK
  <2>2. batch'[g] = batch[g]
    BY <1>4, <2>1 DEF FlushBegin, FlushSubmit, FlushError, TypeOK
  <2> QED
    BY <1>1, <2>1, <2>2
<1>5. ASSUME NEW m \in Message,
             \/ EnqueueAgain(m) \/ EnqueueNew(m) \/ EnqueueFails(m)
             \/ Accepts(m) \/ Loses(m)
      PROVE  accepted'[Head(batch'[g]).id] # NoContent
  BY <1>1, <1>5 DEF EnqueueAgain, EnqueueNew, EnqueueFails, Accepts, Loses
<1>6. CASE Tick \/ UNCHANGED vars
  BY <1>1, <1>6 DEF Tick, vars
<1>7. CASE Crash
  BY <1>7 DEF Crash
<1> QED
  BY <1>2, <1>3, <1>4, <1>5, <1>6, <1>7 DEF Next, FlushStep

\* The invariant holds at the start and no step breaks it.
LEMMA SafeInvInductive ==
    /\ Init => SafeInv
    /\ SafeInv /\ [Next]_vars =>
         SafeInv' /\ [Abstract!DQNext]_(Abstract!dqVars)
<1>1. ASSUME Init PROVE SafeInv
  <2>1. TypeOK
    <3>1. MaxDelay \in Nat
      BY OutboxAssumption
    <3> QED
      BY <1>1, <3>1 DEF Init, ServiceInit, HistoryInit, TypeOK, ServiceTypeOK
  <2>2. DOMAIN queue = {} /\ Queued = {}
    BY <1>1 DEF Init, Queued
  <2> QED
    BY <1>1, <2>1, <2>2
    DEF Init, ServiceInit, HistoryInit, SafeInv, UniqueIds, SentHeld, Staged, NoLoss
<1>2. ASSUME SafeInv, [Next]_vars
      PROVE  SafeInv' /\ [Abstract!DQNext]_(Abstract!dqVars)
  <2>1. TypeOK /\ UniqueIds /\ SentHeld /\ Staged /\ NoLoss
    BY <1>2 DEF SafeInv
  <2>2. TypeOK'
    BY <1>2, <2>1, TypeStep
  <2>3. UniqueIds' /\ [Abstract!DQNext]_(Abstract!dqVars)
    BY <1>2, <2>1, QueueStep
  <2>4. /\ stored \subseteq stored' /\ Queued' \subseteq stored' /\ NoLoss'
        /\ \A id \in MessageIds : accepted[id] # NoContent => accepted'[id] # NoContent
    BY <2>1, <2>3, AbstractStep DEF Staged, TypeOK
  <2>5. Staged' /\ SentHeld'
    BY <1>2, <2>1, <2>4, StagedStep, SentHeldStep
  <2> QED
    BY <2>2, <2>3, <2>4, <2>5 DEF SafeInv
<1> QED
  BY <1>1, <1>2

\* The invariant holds in every behaviour of the outbox.
THEOREM SafetyInvariant == Spec => []SafeInv
BY SafeInvInductive, PTL DEF Spec

\* A message for which enqueue returned Ok is in the file, or the service holds
\* a message under its id: for any number of concurrent flushes and messages,
\* and whichever stores fail and whenever the process dies.
THEOREM NoMessageIsLost == Spec => []NoLoss
<1>1. SafeInv => NoLoss
  BY DEF SafeInv
<1> QED
  BY <1>1, SafetyInvariant, PTL

\* No interleaving of enqueue, mark_sent and mark_failed stores one id twice.
THEOREM IdsStayUnique == Spec => []UniqueIds
<1>1. SafeInv => UniqueIds
  BY DEF SafeInv
<1> QED
  BY <1>1, SafetyInvariant, PTL

\* The file outbox implements the durable queue.
THEOREM RefinesDurableQueue == Spec => ImplementsDurableQueue
<1>1. Init => Abstract!DQInit
  <2>1. ASSUME Init PROVE Queued = {}
    BY <2>1 DEF Init, Queued
  <2> QED
    BY <2>1 DEF Init, ServiceInit, HistoryInit, Abstract!DQInit
<1>2. SafeInv /\ [Next]_vars => [Abstract!DQNext]_(Abstract!dqVars)
  BY SafeInvInductive
<1> QED
  BY <1>1, <1>2, SafetyInvariant, PTL DEF Spec, ImplementsDurableQueue, Abstract!DQSpec

-----------------------------------------------------------------------------
(* The limits. *)

\* A queue in which the same entries have failed has the same size.
LEMMA SameBytes ==
    ASSUME NEW s, NEW t, Len(s) = Len(t), DOMAIN s = DOMAIN t,
           \A i \in DOMAIN s : s[i].attempts = t[i].attempts
    PROVE  Bytes(s) = Bytes(t)
<1>1. {i \in DOMAIN s : s[i].attempts > 0} = {i \in DOMAIN t : t[i].attempts > 0}
  OBVIOUS
<1> QED
  BY <1>1 DEF Bytes

\* No store takes the file over a limit, so that load_unlocked never refuses it:
\* mark_failed, too, stops at the limit instead of writing its error text.
THEOREM FileIsAlwaysLoadable == Spec => []StaysLoadable
<1>1. Init => Loadable
  <2>1. ASSUME Init PROVE Loadable
    <3>1. Len(queue) = 0 /\ DOMAIN queue = {}
      BY <2>1 DEF Init
    <3>2. {i \in DOMAIN queue : queue[i].attempts > 0} = {}
      BY <3>1
    <3>3. Cardinality({}) = 0
      BY FS_EmptySet
    <3>4. Bytes(queue) = EntryBytes * 0 + ErrorBytes * 0
      BY <3>1, <3>2, <3>3 DEF Bytes
    <3> QED
      BY <3>1, <3>4, OutboxAssumption DEF Loadable
  <2> QED
    BY <2>1
<1>2. TypeOK /\ Loadable /\ [Next]_vars => Loadable'
  <2> SUFFICES ASSUME TypeOK, Loadable, [Next]_vars
               PROVE  Loadable'
    OBVIOUS
  <2> USE DEF serviceVars, historyVars, flushVars
  <2>1. ASSUME queue' = queue PROVE Loadable'
    BY <2>1 DEF Loadable
  <2>2. ASSUME NEW list, StoreOk(list) \/ StoreErr(list) PROVE Loadable'
    BY <2>1, <2>2 DEF StoreOk, StoreErr, Fits, Loadable
  <2>3. ASSUME NEW m \in Message, EnqueueNew(m) \/ EnqueueFails(m) PROVE Loadable'
    BY <2>2, <2>3 DEF EnqueueNew, EnqueueFails
  <2>4. ASSUME NEW m \in Message, EnqueueAgain(m) \/ Accepts(m) \/ Loses(m)
        PROVE  Loadable'
    BY <2>1, <2>4 DEF EnqueueAgain, Accepts, Loses
  <2>5. ASSUME NEW f \in Flushers,
               FlushBegin(f) \/ FlushSubmit(f) \/ FlushReply(f) \/ FlushError(f)
        PROVE  Loadable'
    BY <2>1, <2>5 DEF FlushBegin, FlushSubmit, FlushReply, FlushError
  <2>6. ASSUME NEW f \in Flushers,
               MarkSent(f) \/ MarkSentFails(f) \/ MarkFailed(f) \/ MarkFailedFails(f)
        PROVE  Loadable'
    BY <2>2, <2>6 DEF MarkSent, MarkSentFails, MarkFailed, MarkFailedFails
  <2>7. CASE Tick
    <3>1. queue \in Seq(QueuedMessage) /\ \A i \in DOMAIN queue : queue[i] \in QueuedMessage
      BY DEF TypeOK
    <3>2. /\ DOMAIN queue' = DOMAIN queue
          /\ \A i \in DOMAIN queue : queue'[i].attempts = queue[i].attempts
      BY <2>7, <3>1 DEF Tick, QueuedMessage
    <3>3. TypeOK'
      BY TypeStep
    <3>4. Len(queue') = Len(queue)
      BY <3>1, <3>2, <3>3 DEF TypeOK
    <3>5. Bytes(queue') = Bytes(queue)
      BY <3>2, <3>4, SameBytes
    <3> QED
      BY <3>4, <3>5 DEF Loadable
  <2>8. CASE Crash \/ UNCHANGED vars
    BY <2>1, <2>8 DEF Crash, vars
  <2> QED
    BY <2>3, <2>4, <2>5, <2>6, <2>7, <2>8 DEF Next, FlushStep
<1>3. Loadable => StaysLoadable
  BY DEF Loadable, StaysLoadable
<1> QED
  BY <1>1, <1>2, <1>3, TypeCorrect, PTL DEF Spec

-----------------------------------------------------------------------------
(* The steps of the durable queue, stated on the queued messages, for the
   table and the store. *)

LEMMA QueueStays ==
    ASSUME Queued' = Queued, UNCHANGED <<stored, confirmed, accepted>>
    PROVE  [Abstract!DQNext]_(Abstract!dqVars)
BY DEF Abstract!dqVars

LEMMA QueueGrows ==
    ASSUME NEW m \in Message, ~HasId(queue, m.id), Queued' = Queued \cup {m},
           stored' = stored \cup {m},
           confirmed' \in {confirmed, confirmed \cup {m}},
           UNCHANGED accepted
    PROVE  Abstract!DQNext
<1>1. \A q \in Queued : q.id # m.id
  BY DEF HasId, Queued, MsgOf
<1>2. Abstract!Put(m)
  BY <1>1 DEF Abstract!Put
<1> QED
  BY <1>2 DEF Abstract!DQNext, Abstract!Messages, Message

LEMMA QueueConfirms ==
    ASSUME NEW m \in Message, m \in Queued, Queued' = Queued,
           confirmed' = confirmed \cup {m}, UNCHANGED <<stored, accepted>>
    PROVE  Abstract!DQNext
<1>1. Abstract!Confirm(m)
  BY DEF Abstract!Confirm
<1> QED
  BY <1>1 DEF Abstract!DQNext, Abstract!Messages, Message

LEMMA QueueDelivers ==
    ASSUME NEW m \in Message, m \in stored, ServiceAccept(m),
           Queued' = Queued, UNCHANGED <<stored, confirmed>>
    PROVE  Abstract!DQNext
<1>1. Abstract!Deliver(m)
  BY DEF ServiceAccept, Abstract!Deliver
<1> QED
  BY <1>1 DEF Abstract!DQNext, Abstract!Messages, Message

LEMMA QueueShrinks ==
    ASSUME Queued' \subseteq Queued,
           \A m \in Queued \ Queued' : accepted[m.id] # NoContent,
           UNCHANGED <<stored, confirmed, accepted>>
    PROVE  Abstract!DQNext
<1> DEFINE gone == Queued \ Queued'
<1>1. Abstract!RetireAll(gone) /\ gone \in SUBSET Queued
  BY DEF Abstract!RetireAll
<1> QED
  BY <1>1 DEF Abstract!DQNext

\* A queue 250 ms later.
Aged(s) == [i \in DOMAIN s |-> [s[i] EXCEPT !.wait = LeftOf(s[i].wait, 1)]]

\* It has the same messages and attempts in the same places.
LEMMA AgedQueue ==
    ASSUME NEW s \in Seq(QueuedMessage)
    PROVE  /\ Aged(s) \in Seq(QueuedMessage)
           /\ Len(Aged(s)) = Len(s) /\ DOMAIN Aged(s) = DOMAIN s
           /\ \A i \in DOMAIN s : /\ Aged(s)[i].id = s[i].id
                                  /\ Aged(s)[i].content = s[i].content
                                  /\ Aged(s)[i].attempts = s[i].attempts
<1>1. MaxDelay \in Nat
  BY OutboxAssumption
<1>2. ASSUME NEW w \in 0..MaxDelay
      PROVE  LeftOf(w, 1) \in 0..MaxDelay
  BY <1>1 DEF LeftOf
<1>3. Len(s) \in Nat /\ DOMAIN s = 1..Len(s)
  OBVIOUS
<1>4. \A i \in DOMAIN s : s[i] \in QueuedMessage
  OBVIOUS
<1>5. \A i \in DOMAIN s : [s[i] EXCEPT !.wait = LeftOf(s[i].wait, 1)] \in QueuedMessage
  BY <1>2, <1>4 DEF QueuedMessage
<1>6. Aged(s) \in Seq(QueuedMessage) /\ Len(Aged(s)) = Len(s)
  BY <1>3, <1>5 DEF Aged
<1>7. \A i \in DOMAIN s : /\ Aged(s)[i].id = s[i].id
                          /\ Aged(s)[i].content = s[i].content
                          /\ Aged(s)[i].attempts = s[i].attempts
  BY <1>4 DEF QueuedMessage, Aged
<1> QED
  BY <1>6, <1>7

-----------------------------------------------------------------------------
(* The SQLite table.  Its operators are those of OutboxBase. *)

LEMMA TableOperators ==
    /\ Table!Message = Message
    /\ Table!QueuedMessage = QueuedMessage
    /\ \A m : Table!NewEntry(m) = NewEntry(m)
    /\ \A e : Table!MsgOf(e) = MsgOf(e)
    /\ \A s, id : Table!HasId(s, id) = HasId(s, id)
    /\ \A s, id : Table!PositionOf(s, id) = PositionOf(s, id)
    /\ \A s, id : Table!Without(s, id) = Without(s, id)
    /\ \A d, a : Table!LeftOf(d, a) = LeftOf(d, a)
    /\ \A e, a : Table!FailedEntry(e, a) = FailedEntry(e, a)
    /\ Table!ServiceTypeOK = ServiceTypeOK
    /\ \A m : Table!ServiceAccept(m) = ServiceAccept(m)
<1>1. \A s, id : Table!HasId(s, id) = HasId(s, id)
  BY DEF Table!HasId, HasId
<1>2. \A s, id : Table!PositionOf(s, id) = PositionOf(s, id)
  BY DEF Table!PositionOf, PositionOf
<1>3. \A s, i : Table!RemoveAt(s, i) = RemoveAt(s, i)
  BY DEF Table!RemoveAt, RemoveAt
<1>4. \A s, id : Table!Without(s, id) = Without(s, id)
  BY <1>1, <1>2, <1>3 DEF Table!Without, Without
<1>5. \A d, a : Table!LeftOf(d, a) = LeftOf(d, a)
  BY DEF Table!LeftOf, LeftOf
<1>6. \A n : Table!Bump(n) = Bump(n) /\ Table!Backoff(n) = Backoff(n)
  BY DEF Table!Bump, Bump, Table!Backoff, Backoff
<1>7. \A e, a : Table!FailedEntry(e, a) = FailedEntry(e, a)
  BY <1>5, <1>6 DEF Table!FailedEntry, FailedEntry
<1>8. Table!Message = Message /\ Table!QueuedMessage = QueuedMessage
  BY DEF Table!Message, Message, Table!QueuedMessage, QueuedMessage
<1>9. Table!ServiceTypeOK = ServiceTypeOK
  BY <1>8 DEF Table!ServiceTypeOK, ServiceTypeOK
<1>10. \A m : Table!ServiceAccept(m) = ServiceAccept(m)
  BY DEF Table!ServiceAccept, ServiceAccept
<1> QED
  BY <1>1, <1>2, <1>4, <1>5, <1>7, <1>8, <1>9, <1>10
  DEF Table!NewEntry, NewEntry, Table!MsgOf, MsgOf

LEMMA TableQueued == Table!Queued = Queued /\ Table!Queued' = Queued'
BY DEF Table!Queued, Queued, Table!MsgOf, MsgOf

LEMMA TableCardinality == \A S : Table!Cardinality(S) = Cardinality(S)
BY Zenon DEF Table!Cardinality, Cardinality

\* t has the rows of s and the row e.
OneMoreRow(s, e, t) ==
    /\ t \in Seq(QueuedMessage)
    /\ \A i \in DOMAIN s : \E j \in DOMAIN t : t[j] = s[i]
    /\ \E j \in DOMAIN t : t[j] = e
    /\ \A j \in DOMAIN t : t[j] = e \/ \E i \in DOMAIN s : t[j] = s[i]
    /\ (\A i, j \in DOMAIN s : s[i].id = s[j].id => i = j) /\ ~HasId(s, e.id)
         => \A i, j \in DOMAIN t : t[i].id = t[j].id => i = j

\* A row that is inserted moves no other row out of the table.
LEMMA InsertProperties ==
    ASSUME NEW s \in Seq(QueuedMessage), NEW e \in QueuedMessage
    PROVE  OneMoreRow(s, e, Table!Insert(s, e))
<1> DEFINE due == {i \in DOMAIN s : s[i].wait <= e.wait}
           p == Cardinality(due)
           l == SubSeq(s, 1, p)
           r == SubSeq(s, p + 1, Len(s))
           t == l \o <<e>> \o r
<1>1. Len(s) \in Nat /\ DOMAIN s = 1..Len(s)
  OBVIOUS
<1>2. p \in 0..Len(s)
  <2>1. IsFiniteSet(1..Len(s)) /\ Cardinality(1..Len(s)) = Len(s)
    <3>1. 1 \in Int /\ Len(s) \in Int
      BY <1>1
    <3>2. /\ IsFiniteSet(1..Len(s))
          /\ Cardinality(1..Len(s)) = IF 1 > Len(s) THEN 0 ELSE Len(s) - 1 + 1
      BY <3>1, FS_Interval
    <3> QED
      BY <1>1, <3>2
  <2>2. due \in SUBSET (1..Len(s))
    BY <1>1
  <2>3. IsFiniteSet(due) /\ Cardinality(due) <= Cardinality(1..Len(s))
    BY <2>1, <2>2, FS_Subset
  <2>4. Cardinality(due) \in Nat
    BY <2>3, FS_CardinalityType
  <2> QED
    BY <1>1, <2>1, <2>3, <2>4
<1>3. Table!Insert(s, e) = t
  BY TableCardinality DEF Table!Insert
<1> HIDE DEF p
<1>4. l \in Seq(QueuedMessage) /\ Len(l) = p /\ \A j \in 1..p : l[j] = s[j]
  BY <1>1, <1>2
<1>5. /\ r \in Seq(QueuedMessage) /\ Len(r) = Len(s) - p
      /\ \A j \in 1..(Len(s) - p) : r[j] = s[p + j]
  BY <1>1, <1>2
<1> HIDE DEF l, r
<1>6. /\ t \in Seq(QueuedMessage)
      /\ Len(t) = Len(s) + 1
      /\ \A j \in 1..p : t[j] = s[j]
      /\ t[p + 1] = e
      /\ \A j \in (p + 2)..(Len(s) + 1) : t[j] = s[j - 1]
  <2> DEFINE h == l \o <<e>>
  <2>1. <<e>> \in Seq(QueuedMessage) /\ Len(<<e>>) = 1 /\ <<e>>[1] = e
    OBVIOUS
  <2>2. /\ h \in Seq(QueuedMessage)
        /\ Len(h) = Len(l) + Len(<<e>>)
        /\ \A j \in 1..(Len(l) + Len(<<e>>)) :
             h[j] = IF j <= Len(l) THEN l[j] ELSE <<e>>[j - Len(l)]
    BY <1>4, <2>1, ConcatProperties, Zenon
  <2>3. /\ Len(h) = p + 1 /\ h[p + 1] = e
        /\ \A j \in 1..p : h[j] = s[j]
    BY <1>2, <1>4, <2>1, <2>2
  <2>4. h \in Seq(QueuedMessage) /\ r \in Seq(QueuedMessage)
    BY <1>5, <2>2
  <2> HIDE DEF h
  <2>5. /\ h \o r \in Seq(QueuedMessage)
        /\ Len(h \o r) = Len(h) + Len(r)
        /\ \A j \in 1..(Len(h) + Len(r)) :
             (h \o r)[j] = IF j <= Len(h) THEN h[j] ELSE r[j - Len(h)]
    BY <2>4, ConcatProperties, Zenon
  <2>6. Len(h \o r) = Len(s) + 1
    BY <1>1, <1>2, <1>5, <2>3, <2>5
  <2>7. /\ \A j \in 1..p : (h \o r)[j] = s[j]
        /\ (h \o r)[p + 1] = e
    BY <1>1, <1>2, <1>5, <2>3, <2>5
  <2>8. ASSUME NEW j \in (p + 2)..(Len(s) + 1)
        PROVE  (h \o r)[j] = s[j - 1]
    <3>1. /\ j - (p + 1) \in 1..(Len(s) - p) /\ p + (j - (p + 1)) = j - 1
          /\ ~(j <= p + 1) /\ j \in 1..((p + 1) + (Len(s) - p))
      BY <1>1, <1>2
    <3>2. (h \o r)[j] = r[j - (p + 1)]
      BY <1>5, <2>3, <2>5, <3>1
    <3> QED
      BY <1>5, <3>1, <3>2
  <2> QED
    BY <2>5, <2>6, <2>7, <2>8 DEF h
<1> HIDE DEF t
<1>7. DOMAIN t = 1..(Len(s) + 1)
  BY <1>6
<1>8. ASSUME NEW i \in DOMAIN s PROVE \E j \in DOMAIN t : t[j] = s[i]
  <2>1. CASE i <= p
    BY <1>1, <1>2, <1>6, <1>7, <2>1
  <2>2. CASE ~(i <= p)
    <3>1. i + 1 \in (p + 2)..(Len(s) + 1) /\ i + 1 \in 1..(Len(s) + 1) /\ (i + 1) - 1 = i
      BY <1>1, <1>2, <2>2
    <3> QED
      BY <1>6, <1>7, <3>1
  <2> QED
    BY <2>1, <2>2
<1>9. \E j \in DOMAIN t : t[j] = e
  <2>1. p + 1 \in DOMAIN t
    BY <1>1, <1>2, <1>7
  <2> QED
    BY <1>6, <2>1
<1>10. ASSUME NEW j \in DOMAIN t, j # p + 1
       PROVE  LET i == IF j <= p THEN j ELSE j - 1
              IN  i \in DOMAIN s /\ t[j] = s[i]
  <2>1. CASE j <= p
    BY <1>1, <1>2, <1>6, <1>7, <2>1
  <2>2. CASE ~(j <= p)
    <3>1. j \in (p + 2)..(Len(s) + 1) /\ j - 1 \in DOMAIN s
      BY <1>1, <1>2, <1>7, <1>10, <2>2
    <3> QED
      BY <1>6, <2>2, <3>1
  <2> QED
    BY <2>1, <2>2
<1>11. ASSUME \A i, j \in DOMAIN s : s[i].id = s[j].id => i = j, ~HasId(s, e.id),
              NEW i \in DOMAIN t, NEW j \in DOMAIN t, t[i].id = t[j].id
       PROVE  i = j
  <2>1. i \in Nat /\ j \in Nat /\ p \in Nat
    BY <1>1, <1>2, <1>7
  <2>2. CASE i # p + 1 /\ j # p + 1
    <3> DEFINE a == IF i <= p THEN i ELSE i - 1
               b == IF j <= p THEN j ELSE j - 1
    <3>1. a \in DOMAIN s /\ t[i] = s[a] /\ b \in DOMAIN s /\ t[j] = s[b]
      BY <1>10, <2>2
    <3>2. a = b
      BY <1>11, <3>1
    <3> QED
      BY <2>1, <2>2, <3>2
  <2>3. CASE i = p + 1 /\ j # p + 1
    BY <1>6, <1>10, <1>11, <2>3 DEF HasId
  <2>4. CASE i # p + 1 /\ j = p + 1
    BY <1>6, <1>10, <1>11, <2>4 DEF HasId
  <2> QED
    BY <2>2, <2>3, <2>4
<1> QED
  BY <1>3, <1>6, <1>8, <1>9, <1>10, <1>11 DEF OneMoreRow

\* A flush of the table that is not idle has a row in hand.
TableBusy == \A f \in Flushers : pc[f] # "idle" => batch[f] # <<>>

\* The row in hand of a busy flush is one of its batch.
LEMMA TableCurrent ==
    ASSUME Table!TypeOK, TableBusy, NEW f \in Flushers, pc[f] # "idle"
    PROVE  /\ Table!Current(f) \in QueuedMessage
           /\ \E k \in DOMAIN batch[f] : Table!Current(f) = batch[f][k]
<1>1. batch[f] \in Seq(QueuedMessage) /\ batch[f] # <<>>
  BY TableOperators DEF Table!TypeOK, TableBusy
<1> QED
  BY <1>1 DEF Table!Current

\* UPDATE changes the counts of one row and moves it; the messages stay.
LEMMA UpdatedProperties ==
    ASSUME Table!TypeOK, TableBusy, UniqueIds, NEW f \in Flushers, pc[f] # "idle",
           queue' = Table!Updated(f)
    PROVE  queue' \in Seq(QueuedMessage) /\ Queued' = Queued /\ UniqueIds'
<1> DEFINE id == Table!Current(f).id
           p == PositionOf(queue, id)
           new == FailedEntry(Table!Current(f), age[f])
           e == [queue[p] EXCEPT !.attempts = new.attempts, !.wait = new.wait]
           rest == Without(queue, queue[p].id)
<1>1. queue \in Seq(QueuedMessage) /\ age[f] \in 0..MaxDelay
  BY TableOperators DEF Table!TypeOK
<1>2. Table!Current(f) \in QueuedMessage
  BY TableCurrent
<1>3. CASE ~HasId(queue, id)
  <2>1. queue' = queue
    BY <1>3, TableOperators DEF Table!Updated
  <2> QED
    BY <1>1, <2>1 DEF Queued, UniqueIds
<1>4. CASE HasId(queue, id)
  <2>1. p \in DOMAIN queue /\ queue[p].id = id
    BY <1>4 DEF HasId, PositionOf
  <2>2. queue' = Table!Insert(rest, e)
    BY <1>4, TableOperators DEF Table!Updated
  <2>3. new \in QueuedMessage
    BY <1>1, <1>2, FailedEntryType
  <2>4. queue[p] \in QueuedMessage
    BY <1>1, <2>1
  <2> HIDE DEF new, p, id
  <2>5. e \in QueuedMessage /\ e.id = queue[p].id /\ MsgOf(e) = MsgOf(queue[p])
    BY <2>3, <2>4 DEF QueuedMessage, MsgOf
  <2> HIDE DEF e
  <2>6. /\ rest \in Seq(QueuedMessage)
        /\ \A i \in DOMAIN queue : queue[i].id # queue[p].id =>
             \E j \in DOMAIN rest : rest[j] = queue[i]
        /\ \A j \in DOMAIN rest : \E i \in DOMAIN queue : rest[j] = queue[i]
        /\ \A i, j \in DOMAIN rest : rest[i].id = rest[j].id => i = j
        /\ ~HasId(rest, queue[p].id)
    BY <1>1, WithoutProperties DEF UniqueIds
  <2> HIDE DEF rest
  <2>7. /\ queue' \in Seq(QueuedMessage)
        /\ \A i \in DOMAIN rest : \E j \in DOMAIN queue' : queue'[j] = rest[i]
        /\ \E j \in DOMAIN queue' : queue'[j] = e
        /\ \A j \in DOMAIN queue' :
             queue'[j] = e \/ \E i \in DOMAIN rest : queue'[j] = rest[i]
        /\ \A i, j \in DOMAIN queue' : queue'[i].id = queue'[j].id => i = j
    <3>1. OneMoreRow(rest, e, queue')
      BY <2>2, <2>5, <2>6, InsertProperties
    <3> QED
      BY <2>5, <2>6, <3>1 DEF OneMoreRow
  <2>8. Queued' \subseteq Queued
    <3>1. ASSUME NEW j \in DOMAIN queue'
          PROVE  \E i \in DOMAIN queue : MsgOf(queue'[j]) = MsgOf(queue[i])
      BY <2>1, <2>5, <2>6, <2>7
    <3> QED
      BY <3>1 DEF Queued
  <2>9. Queued \subseteq Queued'
    <3>1. ASSUME NEW i \in DOMAIN queue
          PROVE  \E j \in DOMAIN queue' : MsgOf(queue[i]) = MsgOf(queue'[j])
      <4>1. CASE queue[i].id = queue[p].id
        BY <2>1, <2>5, <2>7, <4>1 DEF UniqueIds
      <4>2. CASE queue[i].id # queue[p].id
        BY <2>6, <2>7, <4>2
      <4> QED
        BY <4>1, <4>2
    <3> QED
      BY <3>1 DEF Queued
  <2> QED
    BY <2>7, <2>8, <2>9 DEF UniqueIds
<1> QED
  BY <1>3, <1>4

\* INSERT adds one message.
LEMMA InsertedQueue ==
    ASSUME queue \in Seq(QueuedMessage), UniqueIds,
           NEW m \in Message, ~HasId(queue, m.id),
           queue' = Table!Insert(queue, NewEntry(m))
    PROVE  /\ queue' \in Seq(QueuedMessage)
           /\ Queued' = Queued \cup {m}
           /\ UniqueIds'
<1> DEFINE e == NewEntry(m)
<1>1. e \in QueuedMessage /\ MsgOf(e) = m /\ e.id = m.id
  BY EntryTypes DEF NewEntry
<1> HIDE DEF e
<1>2. /\ queue' \in Seq(QueuedMessage)
      /\ \A i \in DOMAIN queue : \E j \in DOMAIN queue' : queue'[j] = queue[i]
      /\ \E j \in DOMAIN queue' : queue'[j] = e
      /\ \A j \in DOMAIN queue' :
           queue'[j] = e \/ \E i \in DOMAIN queue : queue'[j] = queue[i]
      /\ \A i, j \in DOMAIN queue' : queue'[i].id = queue'[j].id => i = j
  <2>1. OneMoreRow(queue, e, queue')
    BY <1>1, InsertProperties DEF e
  <2> QED
    BY <1>1, <2>1 DEF OneMoreRow, UniqueIds
<1>3. \A j \in DOMAIN queue' : MsgOf(queue'[j]) \in Queued \cup {m}
  BY <1>1, <1>2 DEF Queued
<1>4. m \in Queued' /\ \A i \in DOMAIN queue : MsgOf(queue[i]) \in Queued'
  BY <1>1, <1>2 DEF Queued
<1>5. Queued' = Queued \cup {m}
  BY <1>3, <1>4 DEF Queued
<1> QED
  BY <1>2, <1>5 DEF UniqueIds

\* The end of a flush's turn, whether it goes on, stops or dies.
TableTurnEnds(f) == Table!Advance(f) \/ Abort(f)

LEMMA TableTurn ==
    ASSUME Table!TypeOK, TableBusy, NEW f \in Flushers, pc[f] # "idle",
           TableTurnEnds(f)
    PROVE  /\ pc' \in [Flushers -> {"idle", "submit", "wait", "sent", "failed"}]
           /\ batch' \in [Flushers -> Seq(QueuedMessage)]
           /\ age' \in [Flushers -> 0..MaxDelay]
           /\ TableBusy'
           /\ \A g \in Flushers : pc'[g] = "sent" =>
                g # f /\ pc[g] = "sent" /\ batch'[g] = batch[g]
           /\ \A g \in Flushers : \A k \in DOMAIN batch'[g] :
                \E j \in DOMAIN batch[g] : batch'[g][k] = batch[g][j]
<1>1. MaxDelay \in Nat
  BY OutboxAssumption
<1>2. /\ batch[f] \in Seq(QueuedMessage) /\ batch[f] # <<>>
      /\ pc \in [Flushers -> {"idle", "submit", "wait", "sent", "failed"}]
      /\ batch \in [Flushers -> Seq(QueuedMessage)]
      /\ age \in [Flushers -> 0..MaxDelay]
  BY TableOperators DEF Table!TypeOK, TableBusy
<1>3. /\ Tail(batch[f]) \in Seq(QueuedMessage)
      /\ Len(batch[f]) # 1 => Tail(batch[f]) # <<>>
      /\ \A k \in DOMAIN Tail(batch[f]) :
           k + 1 \in DOMAIN batch[f] /\ Tail(batch[f])[k] = batch[f][k + 1]
  <2>1. /\ Tail(batch[f]) \in Seq(QueuedMessage)
        /\ Len(Tail(batch[f])) = Len(batch[f]) - 1
        /\ \A k \in 1..Len(Tail(batch[f])) : Tail(batch[f])[k] = batch[f][k + 1]
    BY <1>2, HeadTailProperties
  <2>2. Len(batch[f]) \in Nat \ {0} /\ DOMAIN batch[f] = 1..Len(batch[f])
    BY <1>2
  <2>3. DOMAIN Tail(batch[f]) = 1..(Len(batch[f]) - 1)
    BY <2>1
  <2>4. Len(batch[f]) # 1 => Tail(batch[f]) # <<>>
    <3>1. Len(batch[f]) # 1 => Len(Tail(batch[f])) # 0
      BY <2>1, <2>2
    <3>2. Len(<<>>) = 0
      BY EmptySeq
    <3> QED
      BY <3>1, <3>2, Zenon
  <2> QED
    BY <2>1, <2>2, <2>3, <2>4
<1>4. CASE Table!Advance(f)
  BY <1>1, <1>2, <1>3, <1>4 DEF Table!Advance, TableBusy
<1>5. CASE Abort(f)
  BY <1>1, <1>2, <1>5 DEF Abort, TableBusy
<1> QED
  BY <1>4, <1>5 DEF TableTurnEnds

\* A flush of the table is about to delete a row only if the service holds its id.
TableHeld ==
    \A f \in Flushers : pc[f] = "sent" => accepted[Table!Current(f).id] # NoContent

\* Whatever is in the table, in a flush's batch or on its way was stored before.
TableStaged ==
    /\ Queued \subseteq stored
    /\ \A f \in Flushers : \A k \in DOMAIN batch[f] : MsgOf(batch[f][k]) \in stored
    /\ net \subseteq stored

TableInv == Table!TypeOK /\ TableBusy /\ UniqueIds /\ TableHeld /\ TableStaged /\ NoLoss

\* What a flush of the table reads when it starts: some of the rows.
LEMMA TableBegin ==
    ASSUME Table!TypeOK, NEW f \in Flushers, Table!FlushBegin(f)
    PROVE  \E b \in Seq(QueuedMessage) :
             /\ b # <<>>
             /\ \A k \in DOMAIN b : \E i \in DOMAIN queue : b[k] = queue[i]
             /\ batch' = [batch EXCEPT ![f] = b]
<1>1. PICK n \in 1..Limit : \E ix \in [1..n -> DOMAIN queue] :
        batch' = [batch EXCEPT ![f] = [k \in 1..n |-> queue[ix[k]]]]
  BY DEF Table!FlushBegin
<1>2. PICK ix \in [1..n -> DOMAIN queue] :
        batch' = [batch EXCEPT ![f] = [k \in 1..n |-> queue[ix[k]]]]
  BY <1>1
<1>3. n \in Nat \ {0}
  BY OutboxAssumption
<1>4. \A k \in 1..n : queue[ix[k]] \in QueuedMessage
  BY TableOperators DEF Table!TypeOK
<1> DEFINE b == [k \in 1..n |-> queue[ix[k]]]
<1>5. b \in Seq(QueuedMessage) /\ Len(b) = n
  BY <1>3, <1>4, IsASeq
<1>6. b # <<>> /\ DOMAIN b = 1..n /\ \A k \in DOMAIN b : \E i \in DOMAIN queue : b[k] = queue[i]
  BY <1>3, <1>5
<1> QED
  BY <1>2, <1>5, <1>6

\* Every step of the table keeps the types.
LEMMA TableTypeStep ==
    ASSUME Table!TypeOK, TableBusy, UniqueIds, [Table!Next]_(Table!vars)
    PROVE  Table!TypeOK' /\ TableBusy'
<1> USE DEF Table!serviceVars, Table!historyVars, Table!flushVars
<1> DEFINE Shape == /\ queue \in Seq(QueuedMessage)
                    /\ pc \in [Flushers -> {"idle", "submit", "wait", "sent", "failed"}]
                    /\ batch \in [Flushers -> Seq(QueuedMessage)]
                    /\ age \in [Flushers -> 0..MaxDelay]
                    /\ TableBusy
                    /\ net \subseteq Message
                    /\ accepted \in [MessageIds -> Contents \cup {NoContent}]
                    /\ stored \subseteq Message
                    /\ confirmed \subseteq Message
<1>a. Shape
  BY TableOperators DEF Table!TypeOK, ServiceTypeOK
<1>b. ASSUME Shape' PROVE Table!TypeOK' /\ TableBusy'
  <2>1. Table!QueuedMessage = QueuedMessage /\ Table!Message = Message
    BY TableOperators
  <2> QED
    BY <1>b, <2>1 DEF Table!TypeOK, Table!ServiceTypeOK
<1> SUFFICES Shape'
  BY <1>b
<1>1. ASSUME NEW m \in Message, Table!EnqueueAgain(m)
      PROVE  Shape'
  BY <1>a, <1>1 DEF Table!EnqueueAgain, TableBusy
<1>2. ASSUME NEW m \in Message, Table!EnqueueNew(m) \/ Table!EnqueueUnreported(m)
      PROVE  Shape'
  <2>1. ~HasId(queue, m.id) /\ queue' = Table!Insert(queue, NewEntry(m))
    BY <1>2, TableOperators DEF Table!EnqueueNew, Table!EnqueueUnreported
  <2>2. queue' \in Seq(QueuedMessage)
    BY <1>a, <2>1, InsertedQueue
  <2> QED
    BY <1>a, <1>2, <2>2 DEF Table!EnqueueNew, Table!EnqueueUnreported, TableBusy
<1>3. ASSUME NEW m \in Message, Table!Accepts(m) \/ Table!Loses(m)
      PROVE  Shape'
  BY <1>a, <1>3
  DEF Table!Accepts, Table!Loses, Table!ServiceAccept, Table!LoseRequest, Message, TableBusy
<1>4. ASSUME NEW f \in Flushers, Table!FlushBegin(f)
      PROVE  Shape'
  <2>1. PICK b \in Seq(QueuedMessage) : b # <<>> /\ batch' = [batch EXCEPT ![f] = b]
    BY <1>4, TableBegin
  <2> QED
    BY <1>a, <1>4, <2>1 DEF Table!FlushBegin, TableBusy
<1>5. ASSUME NEW f \in Flushers, Table!FlushSubmit(f)
      PROVE  Shape'
  <2>1. MsgOf(Table!Current(f)) \in Message
    BY <1>5, TableCurrent, EntryTypes DEF Table!FlushSubmit
  <2>2. net' = net \cup {MsgOf(Table!Current(f))}
    BY <1>5, TableOperators DEF Table!FlushSubmit
  <2> QED
    BY <1>a, <1>5, <2>1, <2>2 DEF Table!FlushSubmit, TableBusy
<1>6. ASSUME NEW f \in Flushers, Table!FlushReply(f) \/ Table!FlushError(f)
      PROVE  Shape'
  BY <1>a, <1>6 DEF Table!FlushReply, Table!FlushError, TableBusy
<1>7. ASSUME NEW f \in Flushers, pc[f] # "idle", TableTurnEnds(f),
             queue' \in Seq(QueuedMessage),
             UNCHANGED <<net, accepted, stored, confirmed>>
      PROVE  Shape'
  BY <1>a, <1>7, TableTurn
<1>8. ASSUME NEW f \in Flushers, Table!Delete(f) \/ Table!Update(f)
      PROVE  Shape'
  <2>1. pc[f] # "idle" /\ TableTurnEnds(f)
    BY <1>8 DEF Table!Delete, Table!Update, TableTurnEnds
  <2>2. queue' \in Seq(QueuedMessage)
    <3>1. CASE Table!Delete(f)
      <4>1. queue' = Without(queue, Table!Current(f).id)
        BY <3>1, TableOperators DEF Table!Delete
      <4> QED
        BY <1>a, <4>1, WithoutProperties
    <3>2. CASE Table!Update(f)
      BY <2>1, <3>2, UpdatedProperties DEF Table!Update
    <3> QED
      BY <1>8, <3>1, <3>2
  <2> QED
    BY <1>7, <1>8, <2>1, <2>2 DEF Table!Delete, Table!Update
<1>9. ASSUME NEW f \in Flushers, Table!DatabaseError(f) \/ Table!Crash(f)
      PROVE  Shape'
  <2>1. pc[f] # "idle" /\ TableTurnEnds(f) /\ queue' = queue
    BY <1>9 DEF Table!DatabaseError, Table!Crash, TableTurnEnds, Abort
  <2> QED
    BY <1>a, <1>7, <1>9, <2>1 DEF Table!DatabaseError, Table!Crash
<1>10. CASE Table!Tick
  <2>1. MaxDelay \in Nat
    BY OutboxAssumption
  <2>2. queue' = Aged(queue)
    BY <1>10, TableOperators DEF Table!Tick, Aged
  <2>3. queue' \in Seq(QueuedMessage)
    BY <1>a, <2>2, AgedQueue
  <2>4. age' \in [Flushers -> 0..MaxDelay]
    BY <1>a, <1>10, <2>1 DEF Table!Tick
  <2> QED
    BY <1>a, <1>10, <2>3, <2>4 DEF Table!Tick, TableBusy
<1>11. CASE UNCHANGED Table!vars
  BY <1>a, <1>11 DEF Table!vars, TableBusy
<1> HIDE DEF Shape
<1>12. Table!Message = Message
  BY TableOperators
<1> QED
  BY <1>1, <1>2, <1>3, <1>4, <1>5, <1>6, <1>8, <1>9, <1>10, <1>11, <1>12
  DEF Table!Next

\* What a step of the table does to the queued messages, and who adds one.
LEMMA TableQueueStep ==
    ASSUME Table!TypeOK, TableBusy, UniqueIds, TableHeld, TableStaged,
           [Table!Next]_(Table!vars)
    PROVE  /\ UniqueIds'
           /\ [Abstract!DQNext]_(Abstract!dqVars)
           /\ \A m \in Queued' \ Queued :
                Table!EnqueueNew(m) \/ Table!EnqueueUnreported(m)
<1> USE DEF Table!serviceVars, Table!historyVars, Table!flushVars
<1> DEFINE Goal == /\ UniqueIds'
                   /\ [Abstract!DQNext]_(Abstract!dqVars)
                   /\ \A m \in Queued' \ Queued :
                        Table!EnqueueNew(m) \/ Table!EnqueueUnreported(m)
<1>0. queue \in Seq(QueuedMessage) /\ Table!Message = Message
  BY TableOperators DEF Table!TypeOK
<1>1. ASSUME Queued' = Queued, UniqueIds', UNCHANGED <<stored, confirmed, accepted>>
      PROVE  Goal
  BY <1>1, QueueStays
<1>2. ASSUME UNCHANGED <<queue, stored, confirmed, accepted>>
      PROVE  Goal
  <2>1. Queued' = Queued /\ UniqueIds'
    BY <1>2 DEF Queued, UniqueIds
  <2> QED
    BY <1>1, <1>2, <2>1
<1>3. ASSUME NEW m \in Message, Table!EnqueueAgain(m)
      PROVE  Goal
  <2>1. Queued' = Queued /\ UniqueIds' /\ m \in Queued
    BY <1>3, TableQueued DEF Table!EnqueueAgain, Queued, UniqueIds
  <2>2. Abstract!DQNext
    BY <1>3, <2>1, QueueConfirms DEF Table!EnqueueAgain
  <2> QED
    BY <2>1, <2>2
<1>4. ASSUME NEW m \in Message, Table!EnqueueNew(m) \/ Table!EnqueueUnreported(m)
      PROVE  Goal
  <2>1. /\ ~HasId(queue, m.id) /\ queue' = Table!Insert(queue, NewEntry(m))
        /\ stored' = stored \cup {m}
        /\ confirmed' \in {confirmed, confirmed \cup {m}}
        /\ UNCHANGED accepted
    BY <1>4, TableOperators DEF Table!EnqueueNew, Table!EnqueueUnreported
  <2>2. Queued' = Queued \cup {m} /\ UniqueIds'
    BY <1>0, <2>1, InsertedQueue
  <2>3. Abstract!DQNext
    BY <2>1, <2>2, QueueGrows
  <2>4. \A q \in Queued' \ Queued : q = m
    BY <2>2
  <2> QED
    BY <1>4, <2>2, <2>3, <2>4
<1>5. ASSUME NEW m \in Message, Table!Accepts(m)
      PROVE  Goal
  <2>1. Queued' = Queued /\ UniqueIds'
    BY <1>5 DEF Table!Accepts, Queued, UniqueIds
  <2>2. ServiceAccept(m) /\ UNCHANGED <<stored, confirmed>>
    BY <1>5, TableOperators DEF Table!Accepts
  <2>3. m \in stored
    BY <2>2 DEF ServiceAccept, TableStaged
  <2>4. Abstract!DQNext
    BY <2>1, <2>2, <2>3, QueueDelivers
  <2> QED
    BY <2>1, <2>4
<1>6. ASSUME NEW f \in Flushers, Table!Delete(f)
      PROVE  Goal
  <2>1. queue' = Without(queue, Table!Current(f).id)
    BY <1>6, TableOperators DEF Table!Delete
  <2>2. /\ Queued' \subseteq Queued
        /\ \A m \in Queued : m.id # Table!Current(f).id => m \in Queued'
        /\ UniqueIds'
    BY <1>0, <2>1, ShortenedQueue
  <2>3. accepted[Table!Current(f).id] # NoContent /\ UNCHANGED <<stored, confirmed, accepted>>
    BY <1>6 DEF Table!Delete, TableHeld
  <2>4. Abstract!DQNext
    BY <2>2, <2>3, QueueShrinks
  <2> QED
    BY <2>2, <2>4
<1>7. ASSUME NEW f \in Flushers, Table!Update(f)
      PROVE  Goal
  <2>1. Queued' = Queued /\ UniqueIds'
    BY <1>7, UpdatedProperties DEF Table!Update
  <2> QED
    BY <1>1, <1>7, <2>1 DEF Table!Update
<1>8. CASE Table!Tick
  <2>1. queue' = Aged(queue)
    BY <1>8, TableOperators DEF Table!Tick, Aged
  <2>2. Queued' = Queued /\ UniqueIds'
    BY <1>0, <2>1, AgedQueue, SameQueue
  <2> QED
    BY <1>1, <1>8, <2>2 DEF Table!Tick
<1>9. ASSUME NEW f \in Flushers,
             \/ Table!FlushBegin(f) \/ Table!FlushSubmit(f) \/ Table!FlushReply(f)
             \/ Table!FlushError(f) \/ Table!DatabaseError(f) \/ Table!Crash(f)
      PROVE  Goal
  BY <1>2, <1>9 DEF Table!FlushBegin, Table!FlushSubmit, Table!FlushReply,
                    Table!FlushError, Table!DatabaseError, Table!Crash
<1>10. ASSUME NEW m \in Message, Table!Loses(m)
       PROVE  Goal
  BY <1>2, <1>10 DEF Table!Loses, Table!LoseRequest
<1>11. CASE UNCHANGED Table!vars
  BY <1>2, <1>11 DEF Table!vars
<1>12. Table!Message = Message
  BY <1>0
<1>13. CASE \E m \in Message :
              \/ Table!EnqueueAgain(m) \/ Table!EnqueueNew(m) \/ Table!EnqueueUnreported(m)
              \/ Table!Accepts(m) \/ Table!Loses(m)
  BY <1>3, <1>4, <1>5, <1>10, <1>13
<1>14. CASE \E f \in Flushers :
              \/ Table!FlushBegin(f) \/ Table!FlushSubmit(f) \/ Table!FlushReply(f)
              \/ Table!FlushError(f) \/ Table!Delete(f) \/ Table!Update(f)
              \/ Table!DatabaseError(f) \/ Table!Crash(f)
  BY <1>6, <1>7, <1>9, <1>14
<1>15. Goal
  BY <1>8, <1>11, <1>12, <1>13, <1>14 DEF Table!Next
<1> QED
  BY <1>15 DEF Goal

\* What the flushes of the table have in hand, and what is on its way, stays stored.
LEMMA TableStagedStep ==
    ASSUME Table!TypeOK, TableBusy, TableStaged, [Table!Next]_(Table!vars),
           stored \subseteq stored', Queued' \subseteq stored'
    PROVE  TableStaged'
<1> USE DEF Table!serviceVars, Table!historyVars, Table!flushVars
<1>1. ASSUME UNCHANGED <<batch, net>>
      PROVE  TableStaged'
  BY <1>1 DEF TableStaged
<1>2. ASSUME NEW m \in Message, Table!Accepts(m) \/ Table!Loses(m)
      PROVE  TableStaged'
  BY <1>2 DEF Table!Accepts, Table!Loses, Table!ServiceAccept, Table!LoseRequest, TableStaged
<1>3. ASSUME NEW f \in Flushers, Table!FlushBegin(f)
      PROVE  TableStaged'
  <2>1. PICK b \in Seq(QueuedMessage) :
          /\ \A k \in DOMAIN b : \E i \in DOMAIN queue : b[k] = queue[i]
          /\ batch' = [batch EXCEPT ![f] = b]
    BY <1>3, TableBegin
  <2>2. \A k \in DOMAIN b : MsgOf(b[k]) \in stored
    BY <2>1 DEF TableStaged, Queued
  <2>3. DOMAIN batch = Flushers
    BY DEF Table!TypeOK
  <2>4. \A g \in Flushers : \A k \in DOMAIN batch'[g] : MsgOf(batch'[g][k]) \in stored
    BY <2>1, <2>2, <2>3 DEF TableStaged
  <2> QED
    BY <1>3, <2>4 DEF Table!FlushBegin, TableStaged
<1>4. ASSUME NEW f \in Flushers, Table!FlushSubmit(f)
      PROVE  TableStaged'
  <2>1. MsgOf(Table!Current(f)) \in stored
    BY <1>4, TableCurrent DEF Table!FlushSubmit, TableStaged
  <2>2. net' = net \cup {MsgOf(Table!Current(f))} /\ UNCHANGED batch
    BY <1>4, TableOperators DEF Table!FlushSubmit
  <2> QED
    BY <2>1, <2>2 DEF TableStaged
<1>5. ASSUME NEW f \in Flushers, Table!Delete(f) \/ Table!Update(f)
                                 \/ Table!DatabaseError(f) \/ Table!Crash(f)
      PROVE  TableStaged'
  <2>1. pc[f] # "idle" /\ TableTurnEnds(f) /\ UNCHANGED net
    BY <1>5 DEF Table!Delete, Table!Update, Table!DatabaseError, Table!Crash,
                TableTurnEnds, Abort
  <2>2. \A g \in Flushers : \A k \in DOMAIN batch'[g] :
          \E j \in DOMAIN batch[g] : batch'[g][k] = batch[g][j]
    BY <2>1, TableTurn
  <2> QED
    BY <2>1, <2>2 DEF TableStaged
<1>6. ASSUME NEW m \in Message,
             Table!EnqueueAgain(m) \/ Table!EnqueueNew(m) \/ Table!EnqueueUnreported(m)
      PROVE  TableStaged'
  BY <1>1, <1>6 DEF Table!EnqueueAgain, Table!EnqueueNew, Table!EnqueueUnreported
<1>7. ASSUME NEW f \in Flushers, Table!FlushReply(f) \/ Table!FlushError(f)
      PROVE  TableStaged'
  BY <1>1, <1>7 DEF Table!FlushReply, Table!FlushError
<1>8. CASE Table!Tick \/ UNCHANGED Table!vars
  BY <1>1, <1>8 DEF Table!Tick, Table!vars
<1>9. Table!Message = Message
  BY TableOperators
<1> QED
  BY <1>2, <1>3, <1>4, <1>5, <1>6, <1>7, <1>8, <1>9 DEF Table!Next

\* A flush of the table reaches "sent" only by an answer of the service, and the
\* service forgets nothing.
LEMMA TableHeldStep ==
    ASSUME Table!TypeOK, TableBusy, TableHeld, [Table!Next]_(Table!vars),
           \A id \in MessageIds : accepted[id] # NoContent => accepted'[id] # NoContent
    PROVE  TableHeld'
<1> USE DEF Table!serviceVars, Table!historyVars, Table!flushVars
<1> SUFFICES ASSUME NEW g \in Flushers, pc'[g] = "sent"
             PROVE  accepted'[Head(batch'[g]).id] # NoContent
  BY DEF TableHeld, Table!Current
<1>0. /\ DOMAIN pc = Flushers /\ DOMAIN batch = Flushers
      /\ \A f \in Flushers : pc[f] # "idle" => /\ Table!Current(f).id \in MessageIds
                                               /\ Table!Current(f).content # NoContent
  BY TableCurrent, OutboxAssumption DEF Table!TypeOK, QueuedMessage
<1>1. ASSUME pc[g] = "sent", batch'[g] = batch[g]
      PROVE  accepted'[Head(batch'[g]).id] # NoContent
  BY <1>0, <1>1 DEF TableHeld, Table!Current
<1>2. ASSUME NEW f \in Flushers, Table!FlushReply(f)
      PROVE  accepted'[Head(batch'[g]).id] # NoContent
  <2>1. CASE f = g
    <3>1. accepted[Table!Current(g).id] # NoContent
      BY <1>0, <1>2, <2>1 DEF Table!FlushReply
    <3> QED
      BY <1>2, <3>1 DEF Table!FlushReply, Table!Current
  <2>2. CASE f # g
    BY <1>0, <1>1, <1>2, <2>2 DEF Table!FlushReply
  <2> QED
    BY <2>1, <2>2
<1>3. ASSUME NEW f \in Flushers, Table!Delete(f) \/ Table!Update(f)
                                 \/ Table!DatabaseError(f) \/ Table!Crash(f)
      PROVE  accepted'[Head(batch'[g]).id] # NoContent
  <2>1. pc[f] # "idle" /\ TableTurnEnds(f)
    BY <1>3 DEF Table!Delete, Table!Update, Table!DatabaseError, Table!Crash,
                TableTurnEnds, Abort
  <2>2. pc[g] = "sent" /\ batch'[g] = batch[g]
    BY <2>1, TableTurn
  <2> QED
    BY <1>1, <2>2
<1>4. ASSUME NEW f \in Flushers,
             Table!FlushBegin(f) \/ Table!FlushSubmit(f) \/ Table!FlushError(f)
      PROVE  accepted'[Head(batch'[g]).id] # NoContent
  <2>1. f # g /\ pc[g] = "sent"
    BY <1>0, <1>4 DEF Table!FlushBegin, Table!FlushSubmit, Table!FlushError
  <2>2. batch'[g] = batch[g]
    BY <1>0, <1>4, <2>1 DEF Table!FlushBegin, Table!FlushSubmit, Table!FlushError
  <2> QED
    BY <1>1, <2>1, <2>2
<1>5. ASSUME NEW m \in Message,
             \/ Table!EnqueueAgain(m) \/ Table!EnqueueNew(m) \/ Table!EnqueueUnreported(m)
             \/ Table!Accepts(m) \/ Table!Loses(m)
      PROVE  accepted'[Head(batch'[g]).id] # NoContent
  BY <1>1, <1>5 DEF Table!EnqueueAgain, Table!EnqueueNew, Table!EnqueueUnreported,
                    Table!Accepts, Table!Loses
<1>6. CASE Table!Tick \/ UNCHANGED Table!vars
  BY <1>1, <1>6 DEF Table!Tick, Table!vars
<1>7. Table!Message = Message
  BY TableOperators
<1> QED
  BY <1>2, <1>3, <1>4, <1>5, <1>6, <1>7 DEF Table!Next

\* The invariant of the table holds at the start and no step breaks it.
LEMMA TableInvInductive ==
    /\ Table!Init => TableInv
    /\ TableInv /\ [Table!Next]_(Table!vars) =>
         /\ TableInv'
         /\ [Abstract!DQNext]_(Abstract!dqVars)
         /\ \A m \in Queued' \ Queued : Table!EnqueueNew(m) \/ Table!EnqueueUnreported(m)
<1>1. ASSUME Table!Init PROVE TableInv
  <2>1. MaxDelay \in Nat
    BY OutboxAssumption
  <2>2. Table!TypeOK
    BY <1>1, <2>1 DEF Table!Init, Table!ServiceInit, Table!HistoryInit, Table!TypeOK,
                      Table!ServiceTypeOK
  <2>3. DOMAIN queue = {} /\ Queued = {}
    BY <1>1 DEF Table!Init, Queued
  <2> QED
    BY <1>1, <2>2, <2>3
    DEF Table!Init, Table!ServiceInit, Table!HistoryInit, TableInv, TableBusy, UniqueIds,
        TableHeld, TableStaged, NoLoss
<1>2. ASSUME TableInv, [Table!Next]_(Table!vars)
      PROVE  /\ TableInv'
             /\ [Abstract!DQNext]_(Abstract!dqVars)
             /\ \A m \in Queued' \ Queued : Table!EnqueueNew(m) \/ Table!EnqueueUnreported(m)
  <2>1. Table!TypeOK /\ TableBusy /\ UniqueIds /\ TableHeld /\ TableStaged /\ NoLoss
    BY <1>2 DEF TableInv
  <2>2. Table!TypeOK' /\ TableBusy'
    BY <1>2, <2>1, TableTypeStep
  <2>3. /\ UniqueIds' /\ [Abstract!DQNext]_(Abstract!dqVars)
        /\ \A m \in Queued' \ Queued : Table!EnqueueNew(m) \/ Table!EnqueueUnreported(m)
    BY <1>2, <2>1, TableQueueStep
  <2>4. ServiceTypeOK
    BY <2>1, TableOperators DEF Table!TypeOK
  <2>5. /\ stored \subseteq stored' /\ Queued' \subseteq stored' /\ NoLoss'
        /\ \A id \in MessageIds : accepted[id] # NoContent => accepted'[id] # NoContent
    BY <2>1, <2>3, <2>4, AbstractStep DEF TableStaged
  <2>6. TableStaged' /\ TableHeld'
    BY <1>2, <2>1, <2>5, TableStagedStep, TableHeldStep
  <2> QED
    BY <2>2, <2>3, <2>5, <2>6 DEF TableInv
<1> QED
  BY <1>1, <1>2

LEMMA TableSafety == Table!Spec => []TableInv
BY TableInvInductive, PTL DEF Table!Spec

\* However late the DELETE or UPDATE of a flush comes, a message comes into the
\* table only by an enqueue: no row that another flush deleted is brought back.
THEOREM TableOnlyEnqueueAdds == Table!Spec => Table!OnlyEnqueueAdds
<1>1. TableInv /\ [Table!Next]_(Table!vars) =>
        [\A m \in Table!Queued' \ Table!Queued :
           Table!EnqueueNew(m) \/ Table!EnqueueUnreported(m)]_(Table!vars)
  BY TableInvInductive, TableQueued
<1> QED
  BY <1>1, TableSafety, PTL DEF Table!Spec, Table!OnlyEnqueueAdds

\* No confirmed message is lost from the table, for any number of processes.
THEOREM TableLosesNothing == Table!Spec => []NoLoss
<1>1. TableInv => NoLoss
  BY DEF TableInv
<1> QED
  BY <1>1, TableSafety, PTL

\* The SQLite outbox implements the durable queue.
THEOREM TableRefinesDurableQueue == Table!Spec => ImplementsDurableQueue
<1>1. Table!Init => Abstract!DQInit
  <2>1. ASSUME Table!Init PROVE Queued = {}
    BY <2>1 DEF Table!Init, Queued
  <2> QED
    BY <2>1 DEF Table!Init, Table!ServiceInit, Table!HistoryInit, Abstract!DQInit
<1>2. TableInv /\ [Table!Next]_(Table!vars) => [Abstract!DQNext]_(Abstract!dqVars)
  BY TableInvInductive
<1> QED
  BY <1>1, <1>2, TableSafety, PTL
  DEF Table!Spec, ImplementsDurableQueue, Abstract!DQSpec

-----------------------------------------------------------------------------
(* The injected store.  Its operators are those of OutboxBase. *)

LEMMA StoreOperators ==
    /\ Store!Message = Message
    /\ Store!QueuedMessage = QueuedMessage
    /\ \A m : Store!NewEntry(m) = NewEntry(m)
    /\ \A e : Store!MsgOf(e) = MsgOf(e)
    /\ \A s, id : Store!HasId(s, id) = HasId(s, id)
    /\ \A s, id : Store!PositionOf(s, id) = PositionOf(s, id)
    /\ \A s, id : Store!Without(s, id) = Without(s, id)
    /\ \A d, a : Store!LeftOf(d, a) = LeftOf(d, a)
    /\ \A e, a : Store!FailedEntry(e, a) = FailedEntry(e, a)
    /\ \A m : Store!ServiceAccept(m) = ServiceAccept(m)
    /\ \A s : Store!Bytes(s) = Bytes(s)
    /\ \A s : Store!Fits(s) = Fits(s)
<1>1. \A s, id : Store!HasId(s, id) = HasId(s, id)
  BY DEF Store!HasId, HasId
<1>2. \A s, id : Store!PositionOf(s, id) = PositionOf(s, id)
  BY DEF Store!PositionOf, PositionOf
<1>3. \A s, i : Store!RemoveAt(s, i) = RemoveAt(s, i)
  BY DEF Store!RemoveAt, RemoveAt
<1>4. \A s, id : Store!Without(s, id) = Without(s, id)
  BY <1>1, <1>2, <1>3 DEF Store!Without, Without
<1>5. \A d, a : Store!LeftOf(d, a) = LeftOf(d, a)
  BY DEF Store!LeftOf, LeftOf
<1>6. \A n : Store!Bump(n) = Bump(n) /\ Store!Backoff(n) = Backoff(n)
  BY DEF Store!Bump, Bump, Store!Backoff, Backoff
<1>7. \A e, a : Store!FailedEntry(e, a) = FailedEntry(e, a)
  BY <1>5, <1>6 DEF Store!FailedEntry, FailedEntry
<1>8. \A m : Store!ServiceAccept(m) = ServiceAccept(m)
  BY DEF Store!ServiceAccept, ServiceAccept
<1>9. \A S : Store!Cardinality(S) = Cardinality(S)
  BY Zenon DEF Store!Cardinality, Cardinality
<1>10. \A s : Store!Bytes(s) = Bytes(s)
  BY <1>9 DEF Store!Bytes, Bytes
<1> QED
  BY <1>1, <1>2, <1>4, <1>5, <1>7, <1>8, <1>10
  DEF Store!NewEntry, NewEntry, Store!MsgOf, MsgOf, Store!Fits, Fits,
      Store!Message, Message, Store!QueuedMessage, QueuedMessage

LEMMA StoreQueued == Store!Queued = Queued /\ Store!Queued' = Queued'
BY DEF Store!Queued, Queued, Store!MsgOf, MsgOf

\* The messages in the copy a flush works on.
Copied == {MsgOf(copy[i]) : i \in DOMAIN copy}

\* A flush of the store has an item in hand while it submits, and nobody is past
\* the promise chain exactly when nothing is going on.
StoreBusy ==
    /\ turn = Nobody <=> pc = "idle"
    /\ pc \in {"submit", "wait"} => batch # <<>>

\* The ids of the copy are distinct, and so are those of the batch: indexOf finds
\* an item at most once.
CopyIds ==
    /\ \A i, j \in DOMAIN copy : copy[i].id = copy[j].id => i = j
    /\ \A i, j \in DOMAIN batch : batch[i].id = batch[j].id => i = j

\* While a flush is past the chain, its copy has lost to the store only items
\* that the service holds, and holds nothing else: saving it loses no message.
CopyTrue ==
    turn # Nobody =>
      /\ Copied \subseteq Queued
      /\ \A m \in Queued \ Copied : accepted[m.id] # NoContent

\* Whatever is in the store, in the flush's batch or on its way was stored before.
StoreStaged ==
    /\ Queued \subseteq stored
    /\ \A k \in DOMAIN batch : MsgOf(batch[k]) \in stored
    /\ net \subseteq stored

StoreInv ==
    /\ Store!TypeOK /\ StoreBusy /\ UniqueIds /\ CopyIds /\ CopyTrue
    /\ StoreStaged /\ NoLoss

\* The types, with the operators of OutboxBase.
StoreShape ==
    /\ queue \in Seq(QueuedMessage)
    /\ turn \in Flushers \cup {Nobody}
    /\ pc \in {"idle", "submit", "wait", "save"}
    /\ copy \in Seq(QueuedMessage)
    /\ batch \in Seq(QueuedMessage)
    /\ age \in 0..MaxDelay
    /\ ServiceTypeOK
    /\ \A k \in DOMAIN batch : HasId(copy, batch[k].id)

LEMMA StoreShapeIsType ==
    (Store!TypeOK <=> StoreShape) /\ (Store!TypeOK' <=> StoreShape')
<1>1. Store!QueuedMessage = QueuedMessage /\ Store!Message = Message
  BY StoreOperators
<1>2. \A s, id : Store!HasId(s, id) = HasId(s, id)
  BY StoreOperators
<1> QED
  BY <1>1, <1>2 DEF Store!TypeOK, StoreShape, Store!ServiceTypeOK, ServiceTypeOK

\* What a flush of the store takes when it starts: some of the items, each once.
LEMMA StoreBegin ==
    ASSUME StoreShape, UniqueIds, NEW f \in Flushers, Store!FlushBegin(f)
    PROVE  /\ batch' \in Seq(QueuedMessage) /\ batch' # <<>>
           /\ \A k \in DOMAIN batch' : \E i \in DOMAIN queue : batch'[k] = queue[i]
           /\ \A i, j \in DOMAIN batch' : batch'[i].id = batch'[j].id => i = j
<1>1. PICK n \in 1..Limit : \E ix \in [1..n -> DOMAIN queue] :
        Store!IsDueBatch(queue, ix) /\ batch' = [k \in 1..n |-> queue[ix[k]]]
  BY DEF Store!FlushBegin
<1>2. PICK ix \in [1..n -> DOMAIN queue] :
        Store!IsDueBatch(queue, ix) /\ batch' = [k \in 1..n |-> queue[ix[k]]]
  BY <1>1
<1>3. n \in Nat \ {0}
  BY OutboxAssumption
<1>4. \A k \in 1..n : queue[ix[k]] \in QueuedMessage
  BY DEF StoreShape
<1>5. batch' \in Seq(QueuedMessage) /\ Len(batch') = n
  BY <1>2, <1>3, <1>4, IsASeq
<1>6. batch' # <<>> /\ DOMAIN batch' = 1..n
  BY <1>2, <1>3, <1>5
<1>7. \A j, k \in 1..n : j < k => ix[j] < ix[k]
  BY <1>2 DEF Store!IsDueBatch
<1>8. ASSUME NEW i \in 1..n, NEW j \in 1..n, batch'[i].id = batch'[j].id
      PROVE  i = j
  <2>1. queue[ix[i]].id = queue[ix[j]].id /\ ix[i] \in DOMAIN queue /\ ix[j] \in DOMAIN queue
    BY <1>2, <1>8
  <2>2. ix[i] = ix[j]
    BY <2>1 DEF UniqueIds
  <2>3. queue \in Seq(QueuedMessage)
    BY DEF StoreShape
  <2>4. ix[i] \in Nat /\ ix[j] \in Nat
    BY <2>1, <2>3
  <2> QED
    BY <1>3, <1>7, <2>2, <2>4
<1> QED
  BY <1>2, <1>5, <1>6, <1>8

\* The loop of flush goes on: one item fewer in the batch.
LEMMA StoreAdvance ==
    ASSUME StoreShape, CopyIds, batch # <<>>, Store!Advance
    PROVE  /\ Store!Current \in QueuedMessage
           /\ \E k \in DOMAIN batch : Store!Current = batch[k]
           /\ batch' \in Seq(QueuedMessage)
           /\ Len(batch) # 1 => batch' # <<>>
           /\ \A k \in DOMAIN batch' : k + 1 \in DOMAIN batch /\ batch'[k] = batch[k + 1]
           /\ \A k \in DOMAIN batch' : batch'[k].id # Store!Current.id
<1>1. batch \in Seq(QueuedMessage) /\ batch # <<>> /\ batch' = Tail(batch)
  BY DEF StoreShape, Store!Advance
<1>2. /\ Tail(batch) \in Seq(QueuedMessage)
      /\ Len(Tail(batch)) = Len(batch) - 1
      /\ \A k \in 1..Len(Tail(batch)) : Tail(batch)[k] = batch[k + 1]
  BY <1>1, HeadTailProperties
<1>3. Len(batch) \in Nat \ {0} /\ DOMAIN batch = 1..Len(batch)
  BY <1>1
<1>4. DOMAIN batch' = 1..(Len(batch) - 1)
  BY <1>1, <1>2
<1>5. Store!Current = batch[1] /\ 1 \in DOMAIN batch
  BY <1>1, <1>3 DEF Store!Current
<1>6. Len(batch) # 1 => batch' # <<>>
  <2>1. Len(batch) # 1 => Len(batch') # 0
    BY <1>1, <1>2, <1>3
  <2>2. Len(<<>>) = 0
    BY EmptySeq
  <2> QED
    BY <2>1, <2>2, Zenon
<1>7. \A k \in DOMAIN batch' : k + 1 \in DOMAIN batch /\ batch'[k] = batch[k + 1] /\ k + 1 # 1
  BY <1>1, <1>2, <1>3, <1>4
<1>8. \A k \in DOMAIN batch' : batch'[k].id # Store!Current.id
  BY <1>5, <1>7 DEF CopyIds
<1> QED
  BY <1>1, <1>2, <1>5, <1>6, <1>7, <1>8

\* An answer: the item is spliced out of the copy, and nothing else is.
LEMMA StoreReplyCopy ==
    ASSUME StoreShape, CopyIds, batch # <<>>, NEW f \in Flushers, Store!FlushReply(f)
    PROVE  /\ copy' \in Seq(QueuedMessage)
           /\ Copied' \subseteq Copied
           /\ \A m \in Copied : m.id # Store!Current.id => m \in Copied'
           /\ \A i, j \in DOMAIN copy' : copy'[i].id = copy'[j].id => i = j
           /\ \A k \in DOMAIN batch' : HasId(copy', batch'[k].id)
<1> DEFINE id == Store!Current.id
<1>1. copy' = Without(copy, id) /\ copy \in Seq(QueuedMessage) /\ Store!Advance
  BY StoreOperators DEF Store!FlushReply, StoreShape
<1> HIDE DEF id
<1>2. /\ copy' \in Seq(QueuedMessage)
      /\ \A i \in DOMAIN copy : copy[i].id # id =>
           \E j \in DOMAIN copy' : copy'[j] = copy[i]
      /\ \A j \in DOMAIN copy' : \E i \in DOMAIN copy : copy'[j] = copy[i]
      /\ \A i, j \in DOMAIN copy' : copy'[i].id = copy'[j].id => i = j
  BY <1>1, WithoutProperties DEF CopyIds
<1>3. Copied' \subseteq Copied
  BY <1>2 DEF Copied
<1>4. \A m \in Copied : m.id # id => m \in Copied'
  BY <1>2 DEF Copied, MsgOf
<1>5. ASSUME NEW k \in DOMAIN batch'
      PROVE  HasId(copy', batch'[k].id)
  <2>1. /\ k + 1 \in DOMAIN batch /\ batch'[k] = batch[k + 1]
        /\ batch'[k].id # id
    BY <1>1, StoreAdvance DEF id
  <2>2. PICK i \in DOMAIN copy : copy[i].id = batch'[k].id
    BY <2>1 DEF StoreShape, HasId
  <2> QED
    BY <1>2, <2>1, <2>2 DEF HasId
<1> QED
  BY <1>2, <1>3, <1>4, <1>5 DEF id

\* A failure: the item of the copy keeps its message.
LEMMA StoreErrorCopy ==
    ASSUME StoreShape, CopyIds, batch # <<>>, NEW f \in Flushers, Store!FlushError(f)
    PROVE  /\ copy' \in Seq(QueuedMessage)
           /\ Copied' = Copied
           /\ \A i, j \in DOMAIN copy' : copy'[i].id = copy'[j].id => i = j
           /\ \A k \in DOMAIN batch' : HasId(copy', batch'[k].id)
<1> DEFINE p == PositionOf(copy, Store!Current.id)
           e == FailedEntry(copy[p], age)
<1>1. Store!Advance /\ copy' = [copy EXCEPT ![p] = e]
  BY StoreOperators DEF Store!FlushError
<1>2. HasId(copy, Store!Current.id)
  <2>1. PICK k \in DOMAIN batch : Store!Current = batch[k]
    BY <1>1, StoreAdvance
  <2> QED
    BY <2>1 DEF StoreShape
<1>3. p \in DOMAIN copy /\ copy \in Seq(QueuedMessage) /\ age \in 0..MaxDelay
  BY <1>2 DEF StoreShape, HasId, PositionOf
<1>4. copy[p] \in QueuedMessage
  BY <1>3
<1>5. e \in QueuedMessage /\ e.id = copy[p].id /\ e.content = copy[p].content
  BY <1>3, <1>4, FailedEntryType
<1> HIDE DEF p, e
<1>6. /\ copy' \in Seq(QueuedMessage) /\ DOMAIN copy' = DOMAIN copy
      /\ \A i \in DOMAIN copy : copy'[i].id = copy[i].id /\ copy'[i].content = copy[i].content
  BY <1>1, <1>3, <1>5
<1>7. Copied' = Copied
  BY <1>6 DEF Copied, MsgOf
<1>8. \A i, j \in DOMAIN copy' : copy'[i].id = copy'[j].id => i = j
  BY <1>6 DEF CopyIds
<1>9. ASSUME NEW k \in DOMAIN batch'
      PROVE  HasId(copy', batch'[k].id)
  <2>1. k + 1 \in DOMAIN batch /\ batch'[k] = batch[k + 1]
    BY <1>1, StoreAdvance
  <2> QED
    BY <1>6, <2>1 DEF StoreShape, HasId
<1> QED
  BY <1>6, <1>7, <1>8, <1>9

\* What a step of the store does: the shape, the distinct ids and the relation
\* of the copy to the store stay, and the messages change as in a durable queue.
StoreGoal ==
    /\ StoreShape' /\ StoreBusy' /\ UniqueIds' /\ CopyIds' /\ CopyTrue'
    /\ [Abstract!DQNext]_(Abstract!dqVars)

\* The end of exclusive, with the store as it is or with the copy saved.
LEMMA StoreReleases ==
    ASSUME StoreShape, StoreBusy, UniqueIds, CopyIds, CopyTrue, Store!Release,
           queue' = queue \/ (turn # Nobody /\ queue' = copy),
           UNCHANGED <<net, accepted, stored, confirmed>>
    PROVE  StoreGoal
<1>0. MaxDelay \in Nat
  BY OutboxAssumption
<1>1. StoreShape'
  <2>1. queue' \in Seq(QueuedMessage)
    BY DEF StoreShape
  <2>2. DOMAIN batch' = {} /\ batch' \in Seq(QueuedMessage) /\ copy' \in Seq(QueuedMessage)
    BY DEF Store!Release
  <2> QED
    BY <1>0, <2>1, <2>2 DEF StoreShape, ServiceTypeOK, Store!Release
<1>2. StoreBusy' /\ CopyIds' /\ CopyTrue'
  BY DEF Store!Release, StoreBusy, CopyIds, CopyTrue
<1>3. CASE queue' = queue
  <2>1. Queued' = Queued /\ UniqueIds'
    BY <1>3 DEF Queued, UniqueIds
  <2>2. [Abstract!DQNext]_(Abstract!dqVars)
    BY <2>1, QueueStays
  <2> QED
    BY <1>1, <1>2, <2>1, <2>2 DEF StoreGoal
<1>4. CASE turn # Nobody /\ queue' = copy
  <2>1. Queued' = Copied /\ UniqueIds'
    BY <1>4 DEF Queued, Copied, UniqueIds, CopyIds
  <2>2. Queued' \subseteq Queued /\ \A m \in Queued \ Queued' : accepted[m.id] # NoContent
    BY <1>4, <2>1 DEF CopyTrue
  <2>3. Abstract!DQNext
    BY <2>2, QueueShrinks
  <2> QED
    BY <1>1, <1>2, <2>1, <2>3 DEF StoreGoal
<1> QED
  BY <1>3, <1>4

\* Steps that leave the store's items and the flush alone.
LEMMA StoreStays ==
    ASSUME StoreShape, StoreBusy, UniqueIds, CopyIds, CopyTrue,
           UNCHANGED <<queue, turn, pc, copy, batch, age>>,
           ServiceTypeOK',
           \A m \in Queued : accepted[m.id] # NoContent => accepted'[m.id] # NoContent,
           [Abstract!DQNext]_(Abstract!dqVars)
    PROVE  StoreGoal
<1>1. Queued' = Queued /\ Copied' = Copied
  BY DEF Queued, Copied
<1> QED
  BY <1>1 DEF StoreGoal, StoreShape, StoreBusy, UniqueIds, CopyIds, CopyTrue

\* No step of the store breaks what its flush relies on.
LEMMA StoreStep ==
    ASSUME Nobody \notin Flushers, StoreInv, [Store!Next]_(Store!vars)
    PROVE  StoreGoal
<1> USE DEF Store!serviceVars, Store!historyVars, Store!flushVars
<1>0. /\ StoreShape /\ StoreBusy /\ UniqueIds /\ CopyIds /\ CopyTrue /\ StoreStaged
      /\ MaxDelay \in Nat
  BY StoreShapeIsType, OutboxAssumption DEF StoreInv
<1>1. ASSUME NEW m \in Message, Store!EnqueueAgain(m)
      PROVE  StoreGoal
  <2>1. Queued' = Queued /\ m \in Queued
    BY <1>1, StoreQueued DEF Store!EnqueueAgain, Queued
  <2>2. Abstract!DQNext
    BY <1>1, <2>1, QueueConfirms DEF Store!EnqueueAgain
  <2>3. ServiceTypeOK'
    BY <1>0, <1>1 DEF Store!EnqueueAgain, StoreShape, ServiceTypeOK
  <2> QED
    BY <1>0, <1>1, <2>2, <2>3, StoreStays DEF Store!EnqueueAgain
<1>2. ASSUME NEW m \in Message, Store!EnqueueNew(m)
      PROVE  StoreGoal
  <2>1. /\ ~HasId(queue, m.id) /\ queue' = Append(queue, NewEntry(m))
        /\ stored' = stored \cup {m}
        /\ confirmed' \in {confirmed, confirmed \cup {m}}
        /\ turn = Nobody
        /\ UNCHANGED <<turn, pc, copy, batch, age, net, accepted>>
    BY <1>2, StoreOperators DEF Store!EnqueueNew, Store!Entered
  <2>2. Queued' = Queued \cup {m} /\ UniqueIds'
    BY <1>0, <2>1, AppendedQueue DEF StoreShape
  <2>3. Abstract!DQNext
    BY <2>1, <2>2, QueueGrows
  <2>4. queue' \in Seq(QueuedMessage)
    BY <1>0, <2>1, EntryTypes DEF StoreShape
  <2>5. StoreShape'
    BY <1>0, <2>1, <2>4 DEF StoreShape, ServiceTypeOK
  <2> QED
    BY <1>0, <2>1, <2>2, <2>3, <2>5 DEF StoreGoal, StoreBusy, CopyIds, CopyTrue
<1>3. ASSUME NEW m \in Message, Store!Accepts(m)
      PROVE  StoreGoal
  <2>1. ServiceAccept(m) /\ UNCHANGED <<queue, stored, confirmed>>
    BY <1>3, StoreOperators DEF Store!Accepts
  <2>2. Queued' = Queued /\ m \in stored
    BY <1>0, <2>1 DEF ServiceAccept, StoreStaged, Queued
  <2>3. Abstract!DQNext
    BY <2>1, <2>2, QueueDelivers
  <2>4. ServiceTypeOK'
    BY <1>0, <2>1 DEF ServiceAccept, StoreShape, ServiceTypeOK, Message
  <2>5. \A q \in Queued : accepted[q.id] # NoContent => accepted'[q.id] # NoContent
    <3>1. \A q \in Queued : q.id # m.id => accepted'[q.id] = accepted[q.id]
      BY <2>1 DEF ServiceAccept
    <3>2. accepted[m.id] = NoContent
      BY <2>1 DEF ServiceAccept
    <3> QED
      BY <3>1, <3>2
  <2> QED
    BY <1>0, <1>3, <2>3, <2>4, <2>5, StoreStays DEF Store!Accepts
<1>4. ASSUME NEW m \in Message, Store!Loses(m)
      PROVE  StoreGoal
  <2>1. Queued' = Queued /\ ServiceTypeOK'
    BY <1>0, <1>4 DEF Store!Loses, Store!LoseRequest, StoreShape, ServiceTypeOK, Queued
  <2>2. [Abstract!DQNext]_(Abstract!dqVars)
    BY <1>4, <2>1, QueueStays DEF Store!Loses, Store!LoseRequest
  <2> QED
    BY <1>0, <1>4, <2>1, <2>2, StoreStays DEF Store!Loses, Store!LoseRequest
<1>5. ASSUME NEW f \in Flushers, Store!FlushBegin(f)
      PROVE  StoreGoal
  <2>1. /\ turn' = f /\ copy' = queue /\ pc' = "submit"
        /\ UNCHANGED <<queue, age, net, accepted, stored, confirmed>>
    BY <1>5 DEF Store!FlushBegin
  <2>2. /\ batch' \in Seq(QueuedMessage) /\ batch' # <<>>
        /\ \A k \in DOMAIN batch' : \E i \in DOMAIN queue : batch'[k] = queue[i]
        /\ \A i, j \in DOMAIN batch' : batch'[i].id = batch'[j].id => i = j
    BY <1>0, <1>5, StoreBegin
  <2>3. \A k \in DOMAIN batch' : HasId(copy', batch'[k].id)
    BY <2>1, <2>2 DEF HasId
  <2>4. StoreShape'
    BY <1>0, <2>1, <2>2, <2>3 DEF StoreShape, ServiceTypeOK
  <2>5. Queued' = Queued /\ Copied' = Queued /\ UniqueIds'
    BY <1>0, <2>1 DEF Queued, Copied, UniqueIds
  <2>6. CopyIds' /\ CopyTrue' /\ StoreBusy'
    BY <1>0, <2>1, <2>2, <2>5 DEF UniqueIds, CopyIds, CopyTrue, StoreBusy
  <2>7. [Abstract!DQNext]_(Abstract!dqVars)
    BY <2>1, <2>5, QueueStays
  <2> QED
    BY <2>4, <2>5, <2>6, <2>7 DEF StoreGoal
<1>6. ASSUME NEW f \in Flushers, Store!FlushSubmit(f)
      PROVE  StoreGoal
  <2>1. batch \in Seq(QueuedMessage) /\ batch # <<>>
    BY <1>0, <1>6 DEF StoreShape, StoreBusy, Store!FlushSubmit
  <2>2. MsgOf(Store!Current) \in Message
    <3>1. Store!Current \in QueuedMessage
      BY <2>1 DEF Store!Current
    <3> QED
      BY <3>1, EntryTypes
  <2>3. /\ net' = net \cup {MsgOf(Store!Current)} /\ pc = "submit" /\ pc' = "wait"
        /\ UNCHANGED <<queue, turn, copy, batch, age, accepted, stored, confirmed>>
    BY <1>6, StoreOperators DEF Store!FlushSubmit
  <2>4. Queued' = Queued /\ Copied' = Copied /\ UniqueIds'
    BY <1>0, <2>3 DEF Queued, Copied, UniqueIds
  <2>5. StoreShape'
    BY <1>0, <2>2, <2>3 DEF StoreShape, ServiceTypeOK
  <2>6. StoreBusy' /\ CopyIds' /\ CopyTrue'
    BY <1>0, <2>3, <2>4 DEF StoreBusy, CopyIds, CopyTrue
  <2>7. [Abstract!DQNext]_(Abstract!dqVars)
    BY <2>3, <2>4, QueueStays
  <2> QED
    BY <2>4, <2>5, <2>6, <2>7 DEF StoreGoal
<1>7. ASSUME NEW f \in Flushers, Store!FlushReply(f) \/ Store!FlushError(f)
      PROVE  StoreGoal
  <2>1. /\ turn = f /\ pc = "wait" /\ Store!Advance
        /\ UNCHANGED <<queue, turn, age, net, accepted, stored, confirmed>>
    BY <1>7 DEF Store!FlushReply, Store!FlushError, Store!Advance
  <2>2. batch # <<>> /\ turn # Nobody
    BY <1>0, <2>1 DEF StoreBusy
  <2>3. /\ batch' \in Seq(QueuedMessage)
        /\ Len(batch) # 1 => batch' # <<>>
        /\ \A k \in DOMAIN batch' : k + 1 \in DOMAIN batch /\ batch'[k] = batch[k + 1]
        /\ Store!Current \in QueuedMessage
    BY <1>0, <2>1, <2>2, StoreAdvance
  <2>4. /\ copy' \in Seq(QueuedMessage)
        /\ Copied' \subseteq Copied
        /\ \A m \in Copied \ Copied' : accepted[m.id] # NoContent
        /\ \A i, j \in DOMAIN copy' : copy'[i].id = copy'[j].id => i = j
        /\ \A k \in DOMAIN batch' : HasId(copy', batch'[k].id)
    <3>1. CASE Store!FlushReply(f)
      <4>1. accepted[Store!Current.id] # NoContent
        BY <2>3, <3>1, OutboxAssumption DEF Store!FlushReply, QueuedMessage
      <4> QED
        BY <1>0, <2>2, <3>1, <4>1, StoreReplyCopy
    <3>2. CASE Store!FlushError(f)
      BY <1>0, <2>2, <3>2, StoreErrorCopy
    <3> QED
      BY <1>7, <3>1, <3>2
  <2>5. pc' = IF Len(batch) = 1 THEN "save" ELSE "submit"
    BY <2>1 DEF Store!Advance
  <2>6. StoreShape'
    BY <1>0, <2>1, <2>3, <2>4, <2>5 DEF StoreShape, ServiceTypeOK
  <2>7. StoreBusy'
    BY <1>0, <2>1, <2>2, <2>3, <2>5 DEF StoreBusy
  <2>8. CopyIds'
    <3>1. ASSUME NEW i \in DOMAIN batch', NEW j \in DOMAIN batch', batch'[i].id = batch'[j].id
          PROVE  i = j
      <4>1. i + 1 = j + 1
        BY <1>0, <2>3, <3>1 DEF CopyIds
      <4>2. i \in Int /\ j \in Int
        BY <2>3
      <4> QED
        BY <4>1, <4>2
    <3> QED
      BY <2>4, <3>1 DEF CopyIds
  <2>9. Queued' = Queued /\ UniqueIds'
    BY <1>0, <2>1 DEF Queued, UniqueIds
  <2>10. CopyTrue'
    BY <1>0, <2>1, <2>2, <2>4, <2>9 DEF CopyTrue
  <2>11. [Abstract!DQNext]_(Abstract!dqVars)
    BY <2>1, <2>9, QueueStays
  <2> QED
    BY <2>6, <2>7, <2>8, <2>9, <2>10, <2>11 DEF StoreGoal
<1>8. ASSUME NEW f \in Flushers, Store!FlushSave(f)
      PROVE  StoreGoal
  <2>1. turn # Nobody /\ queue' = copy /\ Store!Release
    BY <1>8 DEF Store!FlushSave
  <2> QED
    BY <1>0, <1>8, <2>1, StoreReleases DEF Store!FlushSave
<1>9. ASSUME NEW f \in Flushers, Store!FlushSaveFails(f)
      PROVE  StoreGoal
  BY <1>0, <1>9, StoreReleases DEF Store!FlushSaveFails
<1>10. CASE Store!Crash
  BY <1>0, <1>10, StoreReleases DEF Store!Crash
<1>11. CASE Store!Tick
  <2>1. /\ queue' = Aged(queue)
        /\ copy' = Aged(copy)
        /\ UNCHANGED <<turn, pc, batch, net, accepted, stored, confirmed>>
    BY <1>11, StoreOperators DEF Store!Tick, Store!LetPass, Aged
  <2>2. /\ queue' \in Seq(QueuedMessage) /\ DOMAIN queue' = DOMAIN queue
        /\ \A i \in DOMAIN queue : /\ queue'[i].id = queue[i].id
                                   /\ queue'[i].content = queue[i].content
    <3>1. queue \in Seq(QueuedMessage)
      BY <1>0 DEF StoreShape
    <3>2. queue' = Aged(queue)
      BY <2>1
    <3> QED
      BY ONLY <3>1, <3>2, AgedQueue
  <2>3. /\ copy' \in Seq(QueuedMessage) /\ DOMAIN copy' = DOMAIN copy
        /\ \A i \in DOMAIN copy : /\ copy'[i].id = copy[i].id
                                  /\ copy'[i].content = copy[i].content
    <3>1. copy \in Seq(QueuedMessage)
      BY <1>0 DEF StoreShape
    <3>2. copy' = Aged(copy)
      BY <2>1
    <3> QED
      BY ONLY <3>1, <3>2, AgedQueue
  <2>4. Queued' = Queued /\ UniqueIds'
    BY <1>0, <2>2, SameQueue
  <2>5. Copied' = Copied
    BY <2>3 DEF Copied, MsgOf
  <2>6. age' \in 0..MaxDelay
    BY <1>0, <1>11 DEF Store!Tick, StoreShape
  <2>7. \A k \in DOMAIN batch' : HasId(copy', batch'[k].id)
    <3>1. batch' = batch
      BY <2>1
    <3>2. ASSUME NEW id, HasId(copy, id) PROVE HasId(copy', id)
      BY ONLY <2>3, <3>2 DEF HasId
    <3> QED
      BY <1>0, <3>1, <3>2 DEF StoreShape
  <2>8. StoreShape'
    BY <1>0, <2>1, <2>2, <2>3, <2>6, <2>7 DEF StoreShape, ServiceTypeOK
  <2>9. StoreBusy' /\ CopyIds' /\ CopyTrue'
    BY <1>0, <2>1, <2>3, <2>4, <2>5 DEF StoreBusy, CopyIds, CopyTrue
  <2>10. [Abstract!DQNext]_(Abstract!dqVars)
    BY <2>1, <2>4, QueueStays
  <2> QED
    BY <2>4, <2>8, <2>9, <2>10 DEF StoreGoal
<1>12. CASE UNCHANGED Store!vars
  <2>1. Queued' = Queued /\ ServiceTypeOK'
    BY <1>0, <1>12 DEF Store!vars, StoreShape, ServiceTypeOK, Queued
  <2>2. [Abstract!DQNext]_(Abstract!dqVars)
    BY <1>12, <2>1, QueueStays DEF Store!vars
  <2> QED
    BY <1>0, <1>12, <2>1, <2>2, StoreStays DEF Store!vars
<1>13. Store!Message = Message
  BY StoreOperators
<1> QED
  BY <1>1, <1>2, <1>3, <1>4, <1>5, <1>6, <1>7, <1>8, <1>9, <1>10, <1>11, <1>12, <1>13
  DEF Store!Next

\* What the flush of the store has in hand, and what is on its way, stays stored.
LEMMA StoreStagedStep ==
    ASSUME StoreInv, [Store!Next]_(Store!vars),
           stored \subseteq stored', Queued' \subseteq stored'
    PROVE  StoreStaged'
<1> USE DEF Store!serviceVars, Store!historyVars, Store!flushVars
<1>0. StoreShape /\ StoreBusy /\ UniqueIds /\ CopyIds /\ StoreStaged
  BY StoreShapeIsType DEF StoreInv
<1>1. ASSUME UNCHANGED <<batch, net>>
      PROVE  StoreStaged'
  BY <1>0, <1>1 DEF StoreStaged
<1>2. ASSUME NEW m \in Message, Store!Accepts(m) \/ Store!Loses(m)
      PROVE  StoreStaged'
  BY <1>0, <1>2 DEF Store!Accepts, Store!Loses, Store!ServiceAccept, Store!LoseRequest, StoreStaged
<1>3. ASSUME NEW f \in Flushers, Store!FlushBegin(f)
      PROVE  StoreStaged'
  <2>1. \A k \in DOMAIN batch' : \E i \in DOMAIN queue : batch'[k] = queue[i]
    BY <1>0, <1>3, StoreBegin
  <2>2. \A k \in DOMAIN batch' : MsgOf(batch'[k]) \in stored
    BY <1>0, <2>1 DEF StoreStaged, Queued
  <2> QED
    BY <1>0, <1>3, <2>2 DEF Store!FlushBegin, StoreStaged
<1>4. ASSUME NEW f \in Flushers, Store!FlushSubmit(f)
      PROVE  StoreStaged'
  <2>1. batch \in Seq(QueuedMessage) /\ batch # <<>>
    BY <1>0, <1>4 DEF StoreShape, StoreBusy, Store!FlushSubmit
  <2>2. 1 \in DOMAIN batch /\ Store!Current = batch[1]
    BY <2>1 DEF Store!Current
  <2>3. net' = net \cup {MsgOf(Store!Current)} /\ UNCHANGED batch
    BY <1>4, StoreOperators DEF Store!FlushSubmit
  <2> QED
    BY <1>0, <2>2, <2>3 DEF StoreStaged
<1>5. ASSUME NEW f \in Flushers, Store!FlushReply(f) \/ Store!FlushError(f)
      PROVE  StoreStaged'
  <2>1. Store!Advance /\ batch # <<>> /\ UNCHANGED net
    BY <1>0, <1>5 DEF Store!FlushReply, Store!FlushError, Store!Advance, StoreBusy
  <2>2. \A k \in DOMAIN batch' : k + 1 \in DOMAIN batch /\ batch'[k] = batch[k + 1]
    BY <1>0, <2>1, StoreAdvance
  <2> QED
    BY <1>0, <2>1, <2>2 DEF StoreStaged
<1>6. ASSUME Store!Release, UNCHANGED net
      PROVE  StoreStaged'
  <2>1. DOMAIN batch' = {}
    BY <1>6 DEF Store!Release
  <2> QED
    BY <1>0, <1>6, <2>1 DEF StoreStaged
<1>7. ASSUME NEW f \in Flushers, Store!FlushSave(f) \/ Store!FlushSaveFails(f)
      PROVE  StoreStaged'
  BY <1>6, <1>7 DEF Store!FlushSave, Store!FlushSaveFails
<1>8. CASE Store!Crash
  BY <1>6, <1>8 DEF Store!Crash
<1>9. ASSUME NEW m \in Message, Store!EnqueueAgain(m) \/ Store!EnqueueNew(m)
      PROVE  StoreStaged'
  BY <1>1, <1>9 DEF Store!EnqueueAgain, Store!EnqueueNew
<1>10. CASE Store!Tick \/ UNCHANGED Store!vars
  BY <1>1, <1>10 DEF Store!Tick, Store!vars
<1>11. Store!Message = Message
  BY StoreOperators
<1> QED
  BY <1>2, <1>3, <1>4, <1>5, <1>7, <1>8, <1>9, <1>10, <1>11 DEF Store!Next

\* The invariant of the store holds at the start and no step breaks it.
LEMMA StoreInvInductive ==
    ASSUME Nobody \notin Flushers
    PROVE  /\ Store!Init => StoreInv
           /\ StoreInv /\ [Store!Next]_(Store!vars) =>
                StoreInv' /\ [Abstract!DQNext]_(Abstract!dqVars)
<1>1. ASSUME Store!Init PROVE StoreInv
  <2>1. MaxDelay \in Nat
    BY OutboxAssumption
  <2>2. DOMAIN queue = {} /\ Queued = {} /\ DOMAIN copy = {} /\ DOMAIN batch = {}
    BY <1>1 DEF Store!Init, Queued
  <2>3. queue \in Seq(QueuedMessage) /\ copy \in Seq(QueuedMessage) /\ batch \in Seq(QueuedMessage)
    BY <1>1 DEF Store!Init
  <2>4. StoreShape
    BY <1>1, <2>1, <2>2, <2>3
    DEF Store!Init, Store!ServiceInit, Store!HistoryInit, StoreShape, ServiceTypeOK
  <2> QED
    BY <1>1, <2>2, <2>4, StoreShapeIsType
    DEF Store!Init, Store!ServiceInit, Store!HistoryInit, StoreInv, StoreBusy, UniqueIds,
        CopyIds, CopyTrue, StoreStaged, NoLoss
<1>2. ASSUME StoreInv, [Store!Next]_(Store!vars)
      PROVE  StoreInv' /\ [Abstract!DQNext]_(Abstract!dqVars)
  <2>1. StoreGoal
    BY <1>2, StoreStep
  <2>2. ServiceTypeOK /\ NoLoss /\ Queued \subseteq stored
    BY <1>2, StoreShapeIsType DEF StoreInv, StoreShape, StoreStaged
  <2>3. stored \subseteq stored' /\ Queued' \subseteq stored' /\ NoLoss'
    BY <2>1, <2>2, AbstractStep DEF StoreGoal
  <2>4. StoreStaged'
    BY <1>2, <2>3, StoreStagedStep
  <2> QED
    BY <2>1, <2>3, <2>4, StoreShapeIsType DEF StoreGoal, StoreInv
<1> QED
  BY <1>1, <1>2

LEMMA StoreSafety ==
    ASSUME Nobody \notin Flushers
    PROVE  Store!Spec => []StoreInv
BY StoreInvInductive, PTL DEF Store!Spec

\* A message for which enqueue resolved is never lost from the store: a flush
\* that saves its old copy overwrites nothing.
THEOREM StoreLosesNothing ==
    ASSUME Nobody \notin Flushers
    PROVE  Store!Spec => []NoLoss
<1>1. StoreInv => NoLoss
  BY DEF StoreInv
<1> QED
  BY <1>1, StoreSafety, PTL

\* The store outbox implements the durable queue: several results are retired
\* by the one save at the end of a flush.
THEOREM StoreRefinesDurableQueue ==
    ASSUME Nobody \notin Flushers
    PROVE  Store!Spec => ImplementsDurableQueue
<1>1. Store!Init => Abstract!DQInit
  <2>1. ASSUME Store!Init PROVE Queued = {}
    BY <2>1 DEF Store!Init, Queued
  <2> QED
    BY <2>1 DEF Store!Init, Store!ServiceInit, Store!HistoryInit, Abstract!DQInit
<1>2. StoreInv /\ [Store!Next]_(Store!vars) => [Abstract!DQNext]_(Abstract!dqVars)
  BY StoreInvInductive
<1> QED
  BY <1>1, <1>2, StoreSafety, PTL
  DEF Store!Spec, ImplementsDurableQueue, Abstract!DQSpec

\* No save takes the store over a limit, so that load never refuses the items:
\* a flush whose error texts make its copy too large saves nothing.
THEOREM StoreIsAlwaysLoadable ==
    ASSUME Nobody \notin Flushers
    PROVE  Store!Spec => []StaysLoadable
<1>1. Store!Init => Loadable
  <2>1. ASSUME Store!Init PROVE Loadable
    <3>1. Len(queue) = 0 /\ DOMAIN queue = {}
      BY <2>1 DEF Store!Init
    <3>2. {i \in DOMAIN queue : queue[i].attempts > 0} = {}
      BY <3>1
    <3>3. Cardinality({}) = 0
      BY FS_EmptySet
    <3>4. Bytes(queue) = EntryBytes * 0 + ErrorBytes * 0
      BY <3>1, <3>2, <3>3 DEF Bytes
    <3> QED
      BY <3>1, <3>4, OutboxAssumption DEF Loadable
  <2> QED
    BY <2>1
<1>2. StoreInv /\ Loadable /\ [Store!Next]_(Store!vars) => Loadable'
  <2> SUFFICES ASSUME StoreInv, Loadable, [Store!Next]_(Store!vars)
               PROVE  Loadable'
    OBVIOUS
  <2> USE DEF Store!serviceVars, Store!historyVars, Store!flushVars
  <2>1. ASSUME queue' = queue PROVE Loadable'
    BY <2>1 DEF Loadable
  <2>2. ASSUME NEW m \in Store!Message, Store!EnqueueNew(m) PROVE Loadable'
    <3>1. Store!Fits(queue')
      BY <2>2 DEF Store!EnqueueNew
    <3> QED
      BY <3>1, StoreOperators DEF Fits, Loadable
  <2>3. ASSUME NEW f \in Flushers, Store!FlushSave(f) PROVE Loadable'
    <3>1. Store!Fits(queue')
      BY <2>3 DEF Store!FlushSave
    <3> QED
      BY <3>1, StoreOperators DEF Fits, Loadable
  <2>4. ASSUME NEW m \in Store!Message,
               Store!EnqueueAgain(m) \/ Store!Accepts(m) \/ Store!Loses(m)
        PROVE  Loadable'
    BY <2>1, <2>4 DEF Store!EnqueueAgain, Store!Accepts, Store!Loses
  <2>5. ASSUME NEW f \in Flushers,
               \/ Store!FlushBegin(f) \/ Store!FlushSubmit(f) \/ Store!FlushReply(f)
               \/ Store!FlushError(f) \/ Store!FlushSaveFails(f)
        PROVE  Loadable'
    BY <2>1, <2>5 DEF Store!FlushBegin, Store!FlushSubmit, Store!FlushReply,
                      Store!FlushError, Store!FlushSaveFails, Store!Advance
  <2>6. CASE Store!Tick
    <3>1. queue \in Seq(QueuedMessage)
      BY StoreShapeIsType DEF StoreInv, StoreShape
    <3>2. queue' = Aged(queue)
      BY <2>6, StoreOperators DEF Store!Tick, Store!LetPass, Aged
    <3>3. /\ Len(queue') = Len(queue) /\ DOMAIN queue' = DOMAIN queue
          /\ \A i \in DOMAIN queue : /\ queue'[i].id = queue[i].id
                                     /\ queue'[i].content = queue[i].content
                                     /\ queue'[i].attempts = queue[i].attempts
      BY ONLY <3>1, <3>2, AgedQueue
    <3>4. Bytes(queue') = Bytes(queue)
      BY <3>3, SameBytes
    <3> QED
      BY <3>3, <3>4 DEF Loadable
  <2>7. CASE Store!Crash \/ UNCHANGED Store!vars
    BY <2>1, <2>7 DEF Store!Crash, Store!vars
  <2> QED
    BY <2>2, <2>3, <2>4, <2>5, <2>6, <2>7 DEF Store!Next
<1>3. Loadable => StaysLoadable
  BY DEF Loadable, StaysLoadable
<1> QED
  BY <1>1, <1>2, <1>3, StoreSafety, PTL DEF Store!Spec

=============================================================================
