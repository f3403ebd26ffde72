----------------------------- MODULE FileOutbox -----------------------------
(***************************************************************************)
(* The Rust FileOutbox: a queue of signed messages in one file, used by    *)
(* any number of threads of one process that share the FileOutbox value.   *)
(*                                                                         *)
(* Its mutex is held by each operation (enqueue, due, mark_sent,           *)
(* mark_failed) from the load to the store, so an operation is one step.   *)
(* It is not held by flush, which reads the due entries, awaits one        *)
(* submission after another and marks each result: between those steps     *)
(* other flushes and enqueues run, and the batch a flush works on is a     *)
(* copy that may be out of date.  The process may crash at any time; the   *)
(* file survives, replaced atomically by a rename.                         *)
(***************************************************************************)
EXTENDS OutboxBase

VARIABLES
    pc,      \* where each flush is
    batch,   \* the messages a flush still has to submit, the current one first
    age      \* how long ago a flush read the clock (up to MaxDelay)

flushVars == <<pc, batch, age>>
vars == <<queue, pc, batch, age, net, accepted, stored, confirmed>>

Current(f) == Head(batch[f])

-----------------------------------------------------------------------------
\* Mutant of Fits: store_unlocked checks the entries and not the bytes.
FitsEntriesOnly(items) == Len(items) <= MaxEntries

\* store_unlocked refuses a queue over a limit.
Fits(items) == Len(items) <= MaxEntries /\ Bytes(items) <= MaxBytes

\* load_unlocked gives up on a file over a limit.
Loadable == Len(queue) <= MaxEntries /\ Bytes(queue) <= MaxBytes

\* store_unlocked returned Ok: the temporary file was written, synced and
\* renamed over the old one.
StoreOk(items) ==
    /\ Fits(items)
    /\ queue' = items

\* store_unlocked returned an error: a limit or an I/O error before the
\* rename leaves the old file, a failed sync of the directory comes after it.
StoreErr(items) ==
    \/ queue' = queue
    \/ Fits(items) /\ queue' = items

-----------------------------------------------------------------------------
\* enqueue: an identical entry is already queued, which is Ok.
EnqueueAgain(m) ==
    /\ Loadable
    /\ m \in Queued
    /\ confirmed' = confirmed \cup {m}
    /\ UNCHANGED <<queue, flushVars, serviceVars, stored>>

\* Mutant of CanEnqueue: enqueue does not look for the id.
CanEnqueueUnchecked(m) == Loadable /\ Len(queue) < MaxEntries

\* enqueue of an id that is not queued, while the queue has room.  (An id
\* bound to another content, a full queue and a failed load are errors that
\* change nothing.)
CanEnqueue(m) ==
    /\ Loadable
    /\ ~HasId(queue, m.id)
    /\ Len(queue) < MaxEntries

EnqueueNew(m) ==
    /\ CanEnqueue(m)
    /\ StoreOk(Append(queue, NewEntry(m)))
    /\ stored' = stored \cup {m}
    /\ confirmed' = confirmed \cup {m}
    /\ UNCHANGED <<flushVars, serviceVars>>

\* The caller is told that enqueue failed; the entry may be there all the same.
EnqueueFails(m) ==
    /\ CanEnqueue(m)
    /\ StoreErr(Append(queue, NewEntry(m)))
    /\ stored' = IF queue' = queue THEN stored ELSE stored \cup {m}
    /\ UNCHANGED <<flushVars, serviceVars, confirmed>>

-----------------------------------------------------------------------------
\* flush reads the clock and takes the due entries.
FlushBegin(f) ==
    /\ pc[f] = "idle"
    /\ Loadable
    /\ \E n \in 1..Limit : \E ix \in [1..n -> DOMAIN queue] :
         /\ IsDueBatch(queue, ix)
         /\ batch' = [batch EXCEPT ![f] = [k \in 1..n |-> MsgOf(queue[ix[k]])]]
    /\ pc' = [pc EXCEPT ![f] = "submit"]
    /\ UNCHANGED <<queue, age, serviceVars, historyVars>>

\* flush sends the current message and awaits the answer.
FlushSubmit(f) ==
    /\ pc[f] = "submit"
    /\ net' = net \cup {Current(f)}
    /\ pc' = [pc EXCEPT ![f] = "wait"]
    /\ UNCHANGED <<queue, batch, age, accepted, historyVars>>

\* Mutant of FlushReply: the end of the wait is taken for a success.
FlushReplyUnchecked(f) ==
    /\ pc[f] = "wait"
    /\ pc' = [pc EXCEPT ![f] = "sent"]
    /\ UNCHANGED <<queue, batch, age, serviceVars, historyVars>>

\* The service has the message and its answer arrives.
FlushReply(f) ==
    /\ pc[f] = "wait"
    /\ accepted[Current(f).id] = Current(f).content
    /\ pc' = [pc EXCEPT ![f] = "sent"]
    /\ UNCHANGED <<queue, batch, age, serviceVars, historyVars>>

\* submit returns an error: the service refuses, or the request or its answer
\* is lost, or a timeout passes while the request is still on its way.
FlushError(f) ==
    /\ pc[f] = "wait"
    /\ pc' = [pc EXCEPT ![f] = "failed"]
    /\ UNCHANGED <<queue, batch, age, serviceVars, historyVars>>

\* The loop of flush goes on with the next entry, or flush returns.
Advance(f) ==
    /\ batch' = [batch EXCEPT ![f] = Tail(batch[f])]
    /\ pc' = [pc EXCEPT ![f] = IF Len(batch[f]) = 1 THEN "idle" ELSE "submit"]
    /\ age' = [age EXCEPT ![f] = IF Len(batch[f]) = 1 THEN 0 ELSE age[f]]

\* flush returns early with the error of mark_sent or mark_failed.
Abort(f) ==
    /\ batch' = [batch EXCEPT ![f] = <<>>]
    /\ pc' = [pc EXCEPT ![f] = "idle"]
    /\ age' = [age EXCEPT ![f] = 0]

\* Mutant of MarkSent: the shortened queue is not stored.
MarkSentUnsaved(f) ==
    /\ pc[f] = "sent"
    /\ Advance(f)
    /\ UNCHANGED <<queue, serviceVars, historyVars>>

\* mark_sent drops the entry by its id; it is Ok if the entry is gone already.
MarkSent(f) ==
    /\ pc[f] = "sent"
    /\ Loadable
    /\ StoreOk(Without(queue, Current(f).id))
    /\ Advance(f)
    /\ UNCHANGED <<serviceVars, historyVars>>

MarkSentFails(f) ==
    /\ pc[f] = "sent"
    /\ StoreErr(IF Loadable THEN Without(queue, Current(f).id) ELSE queue)
    /\ Abort(f)
    /\ UNCHANGED <<serviceVars, historyVars>>

\* The queue after the attempt of flush f failed.
WithFailure(f) ==
    LET i == PositionOf(queue, Current(f).id)
    IN  [queue EXCEPT ![i] = FailedEntry(queue[i], age[f])]

MarkFailed(f) ==
    /\ pc[f] = "failed"
    /\ Loadable
    /\ HasId(queue, Current(f).id)
    /\ StoreOk(WithFailure(f))
    /\ Advance(f)
    /\ UNCHANGED <<serviceVars, historyVars>>

\* The entry is gone (another flush sent it), or the store fails: the error
\* text may have made the queue too large.
MarkFailedFails(f) ==
    /\ pc[f] = "failed"
    /\ StoreErr(IF Loadable /\ HasId(queue, Current(f).id)
                THEN WithFailure(f) ELSE queue)
    /\ Abort(f)
    /\ UNCHANGED <<serviceVars, historyVars>>

-----------------------------------------------------------------------------
\* 250 ms pass.
Tick ==
    /\ \/ \E i \in DOMAIN queue : queue[i].wait > 0
       \/ \E f \in Flushers : pc[f] # "idle" /\ age[f] < MaxDelay
    /\ queue' = [i \in DOMAIN queue |->
                   [queue[i] EXCEPT !.wait = LeftOf(queue[i].wait, 1)]]
    /\ age' = [f \in Flushers |->
                 IF pc[f] # "idle" /\ age[f] < MaxDelay THEN age[f] + 1 ELSE age[f]]
    /\ UNCHANGED <<pc, batch, serviceVars, historyVars>>

\* The process dies and is started again; requests it sent are still out there.
Crash ==
    /\ pc' = [f \in Flushers |-> "idle"]
    /\ batch' = [f \in Flushers |-> <<>>]
    /\ age' = [f \in Flushers |-> 0]
    /\ UNCHANGED <<queue, serviceVars, historyVars>>

Accepts(m) ==
    /\ ServiceAccept(m)
    /\ UNCHANGED <<queue, flushVars, historyVars>>

Loses(m) ==
    /\ LoseRequest(m)
    /\ UNCHANGED <<queue, flushVars, historyVars>>

-----------------------------------------------------------------------------
Init ==
    /\ queue = <<>>
    /\ pc = [f \in Flushers |-> "idle"]
    /\ batch = [f \in Flushers |-> <<>>]
    /\ age = [f \in Flushers |-> 0]
    /\ ServiceInit
    /\ HistoryInit

FlushStep(f) ==
    \/ FlushBegin(f) \/ FlushSubmit(f) \/ FlushReply(f) \/ FlushError(f)
    \/ MarkSent(f) \/ MarkSentFails(f) \/ MarkFailed(f) \/ MarkFailedFails(f)

Next ==
    \/ \E m \in Message : \/ EnqueueAgain(m) \/ EnqueueNew(m) \/ EnqueueFails(m)
                          \/ Accepts(m) \/ Loses(m)
    \/ \E f \in Flushers : FlushStep(f)
    \/ Tick
    \/ Crash

Spec == Init /\ [][Next]_vars

-----------------------------------------------------------------------------
(***************************************************************************)
(* Properties                                                              *)
(***************************************************************************)
\* The state of the outbox and its flushes has the shape the code gives it; a
\* flush that is not idle has a message in hand.
TypeOK ==
    /\ queue \in Seq(QueuedMessage)
    /\ pc \in [Flushers -> {"idle", "submit", "wait", "sent", "failed"}]
    /\ batch \in [Flushers -> Seq(Message)]
    /\ age \in [Flushers -> 0..MaxDelay]
    /\ ServiceTypeOK
    /\ \A f \in Flushers : pc[f] # "idle" => batch[f] # <<>>

\* enqueue, mark_sent and mark_failed never leave two entries with one id in
\* the file, whatever order the threads come in; find and retain rely on it.
UniqueIds ==
    \A i, j \in DOMAIN queue : queue[i].id = queue[j].id => i = j

-----------------------------------------------------------------------------
(***************************************************************************)
(* Liveness: flush is called again and again, time passes, and of the      *)
(* attempts that are made infinitely often some reach the service, some    *)
(* are answered, and some results are stored.                              *)
(***************************************************************************)
Fairness ==
    /\ WF_vars(Tick)
    /\ \A f \in Flushers : WF_vars(FlushStep(f))
    /\ SF_vars(\E f \in Flushers : FlushSubmit(f))
    /\ \A id \in MessageIds :
         /\ SF_vars(\E m \in Message : m.id = id /\ Accepts(m))
         /\ SF_vars(\E f \in Flushers : FlushReply(f) /\ Current(f).id = id)
         /\ SF_vars(\E f \in Flushers : MarkSent(f) /\ Current(f).id = id)

FairSpec == Spec /\ Fairness

\* An entry is in the file whose id the service holds with another content.
\* Nothing in the outbox ends this: enqueue compares with the entries that are
\* still queued only, the service refuses the entry every time, and flush retries
\* it for ever.
Refused == \E m \in Queued : accepted[m.id] \notin {NoContent, m.content}

\* Something reaches the service under every id for which the application was
\* told that a message is queued, in spite of lost requests, lost answers,
\* crashes, and failed stores that stop a flush before the entries behind it;
\* unless an entry is refused, whose error text may fail to be stored in front of
\* the others.
EventuallyDelivered ==
    \A id \in MessageIds :
       (\E m \in confirmed : m.id = id) ~> accepted[id] # NoContent \/ Refused

\* Every entry leaves the file at last, unless one is refused: an entry that the
\* service holds is not retried for ever.
EventuallyRetired ==
    \A id \in MessageIds : HasId(queue, id) ~> ~HasId(queue, id) \/ Refused

=============================================================================
