----------------------------- MODULE OutboxBase -----------------------------
(***************************************************************************)
(* What the three durable outboxes of the SDK share: the messages, the     *)
(* entries of the queue, its two limits, the retry schedule, and the       *)
(* conversation service they submit to.  The Rust, Python and TypeScript   *)
(* outboxes (FileOutbox, SqliteOutbox, StoreOutbox) extend this module.    *)
(*                                                                         *)
(* Time is kept relative.  The code stores an absolute next_attempt_ms and *)
(* compares it with the clock; here an entry stores how long it still has  *)
(* to wait, in units of 250 ms, and Tick lets one unit pass.  The two are  *)
(* the same for every comparison the code makes, and the relative form     *)
(* keeps the state finite without bounding the length of a behaviour.      *)
(***************************************************************************)
EXTENDS Integers, Sequences, SequencesExt, FiniteSets

CONSTANTS
    MessageIds,  \* the message UUIDs an application uses
    Contents,    \* what a message says: conversation id and signed request
    NoContent,   \* the service holds nothing under an id
    Flushers,    \* the concurrent calls of flush
    MaxEntries,  \* max_entries
    MaxBytes,    \* max_bytes / max_serialized_bytes
    EntryBytes,  \* the size of an entry without an error text
    ErrorBytes,  \* what last_error adds to an entry
    Limit,       \* the limit given to flush
    ShiftCap,    \* 8 in the code: the exponent of the backoff stops there
    MaxDelay     \* 60,000 ms in the code: the longest wait, in units of 250 ms

ASSUME OutboxAssumption ==
    /\ NoContent \notin Contents
    /\ MaxEntries \in Nat \ {0}
    /\ MaxBytes \in Nat \ {0}
    /\ EntryBytes \in Nat \ {0}
    /\ ErrorBytes \in Nat
    /\ Limit \in Nat \ {0}
    /\ ShiftCap \in Nat \ {0}
    /\ MaxDelay \in Nat \ {0}

VARIABLES
    queue,      \* the durable entries: in the file, the table or the store
    net,        \* requests on their way to the service
    accepted,   \* message id -> the content the service holds under it
    stored,     \* history: every message that was ever in the durable queue
    confirmed   \* history: every message for which enqueue returned Ok

serviceVars == <<net, accepted>>
historyVars == <<stored, confirmed>>

-----------------------------------------------------------------------------
Message == [id : MessageIds, content : Contents]

\* An entry of the queue.  attempts is only ever read through
\* min(attempts, 8), so it stops at ShiftCap; last_error is present exactly
\* when an attempt has failed.
QueuedMessage ==
    [id : MessageIds, content : Contents,
     attempts : 0..ShiftCap, wait : 0..MaxDelay]

NewEntry(m) == [id |-> m.id, content |-> m.content, attempts |-> 0, wait |-> 0]

MsgOf(entry) == [id |-> entry.id, content |-> entry.content]

\* The messages in the durable queue.
Queued == {MsgOf(queue[i]) : i \in DOMAIN queue}

\* The serialized size of a queue, in abstract bytes.
Bytes(items) ==
    EntryBytes * Len(items)
    + ErrorBytes * Cardinality({i \in DOMAIN items : items[i].attempts > 0})

HasId(items, id) == \E i \in DOMAIN items : items[i].id = id

\* The position of an id that is in the queue.
PositionOf(items, id) == CHOOSE i \in DOMAIN items : items[i].id = id

\* items without the entry for id (ids are unique in a queue).
Without(items, id) ==
    IF HasId(items, id) THEN RemoveAt(items, PositionOf(items, id))
                           ELSE items

-----------------------------------------------------------------------------
\* The exponential backoff, capped twice: the exponent and the delay.
Backoff(attempts) == IF 2^attempts \in 0..MaxDelay THEN 2^attempts ELSE MaxDelay

\* The attempt count after one more failure.
Bump(attempts) == IF attempts < ShiftCap THEN attempts + 1 ELSE attempts

\* What is left of a delay that was computed from a clock read age ago.
LeftOf(delay, age) == IF delay <= age THEN 0 ELSE delay - age

\* The entry after a failed attempt of a flush that read the clock age ago.
FailedEntry(entry, age) ==
    [entry EXCEPT !.attempts = Bump(entry.attempts),
                  !.wait = LeftOf(Backoff(Bump(entry.attempts)), age)]

-----------------------------------------------------------------------------
\* Mutant of DuePositions: an entry that failed once is never due again.
DueFirstAttempt(items) ==
    {i \in DOMAIN items : items[i].wait = 0 /\ items[i].attempts = 0}

\* The positions of the entries whose time has come.
DuePositions(items) == {i \in DOMAIN items : items[i].wait = 0}

\* A flush takes the first Limit entries whose time has come, in the order of
\* the queue: ix is the sequence of their positions.
IsDueBatch(items, ix) ==
    LET due == DuePositions(items) IN
    /\ \A j, k \in DOMAIN ix : j < k => ix[j] < ix[k]
    /\ \A k \in DOMAIN ix : ix[k] \in due
    /\ \A i \in due : i \in {ix[k] : k \in DOMAIN ix}
                        \/ /\ Len(ix) = Limit
                           /\ \A k \in DOMAIN ix : ix[k] < i

-----------------------------------------------------------------------------
\* The service (external): a submission is idempotent by message id.  The
\* first content under an id is kept; the same request again is answered
\* with the record it already has, another content under the id is refused.
ServiceAccept(m) ==
    /\ m \in net
    /\ accepted[m.id] = NoContent
    /\ accepted' = [accepted EXCEPT ![m.id] = m.content]
    /\ UNCHANGED net

\* A request on its way is lost, or duplicated copies of it die out.
LoseRequest(m) ==
    /\ m \in net
    /\ net' = net \ {m}
    /\ UNCHANGED accepted

ServiceInit ==
    /\ net = {}
    /\ accepted = [id \in MessageIds |-> NoContent]

HistoryInit ==
    /\ stored = {}
    /\ confirmed = {}

ServiceTypeOK ==
    /\ net \subseteq Message
    /\ accepted \in [MessageIds -> Contents \cup {NoContent}]
    /\ stored \subseteq Message
    /\ confirmed \subseteq Message

-----------------------------------------------------------------------------
(***************************************************************************)
(* What an outbox promises, whichever store it is built on.                *)
(***************************************************************************)
\* A message for which enqueue returned is never lost: across flushes that work
\* on out-of-date copies, failed stores and crashes it stays in the queue until
\* the service holds a message under its id.
NoLoss ==
    \A m \in confirmed : m \in Queued \/ accepted[m.id] # NoContent

\* No sequence of stores leaves a queue that the next load (load_unlocked in
\* Rust, load in TypeScript) would refuse, which would end the use of the
\* outbox: the error texts that failed attempts add count too.  The Python
\* outbox does not check them (SqliteOutbox!StaysWithinBounds).
StaysLoadable == Len(queue) <= MaxEntries /\ Bytes(queue) <= MaxBytes

\* The outbox is a durable queue: its entries implement the set of queued
\* messages, and no step of a flush removes a message the service does not hold.
Abstract == INSTANCE DurableQueue WITH queued <- Queued
ImplementsDurableQueue == Abstract!DQSpec

=============================================================================
