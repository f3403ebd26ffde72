---------------------------- MODULE SqliteOutbox ----------------------------
(***************************************************************************)
(* The Python SQLiteConversationOutbox: the queue is a table, and enqueue, *)
(* the read of the due rows, and each DELETE or UPDATE of a flush are      *)
(* transactions of their own.  Processes that share the database file      *)
(* interleave between those transactions.  A flush keeps the attempt       *)
(* counts it read at the start, and writes back what it computed from them.*)
(*                                                                         *)
(* The rows are kept in the order of next_attempt_ms, the order a flush    *)
(* reads them in.                                                          *)
(***************************************************************************)
EXTENDS OutboxBase

VARIABLES
    pc,      \* where each flush is
    batch,   \* the rows a flush read and has still to submit
    age      \* how long ago a flush read the clock (up to MaxDelay)

flushVars == <<pc, batch, age>>
vars == <<queue, pc, batch, age, net, accepted, stored, confirmed>>

Current(f) == Head(batch[f])

-----------------------------------------------------------------------------
\* rows with one more, behind the rows that are not due later.
Insert(rows, row) ==
    LET p == Cardinality({i \in DOMAIN rows : rows[i].wait <= row.wait})
    IN  SubSeq(rows, 1, p) \o <<row>> \o SubSeq(rows, p + 1, Len(rows))

\* _validate_bounds does not raise.
WithinBounds == Len(queue) <= MaxEntries /\ Bytes(queue) <= MaxBytes

-----------------------------------------------------------------------------
\* enqueue of a row that is already there returns.
EnqueueAgain(m) ==
    /\ m \in Queued
    /\ confirmed' = confirmed \cup {m}
    /\ UNCHANGED <<queue, flushVars, serviceVars, stored>>

\* enqueue inserts in the transaction that checked the id and the limits.  (A
\* conflicting id, a limit and a database error roll back.)
EnqueueNew(m) ==
    /\ ~HasId(queue, m.id)
    /\ Len(queue) < MaxEntries
    /\ Bytes(queue) + EntryBytes <= MaxBytes
    /\ queue' = Insert(queue, NewEntry(m))
    /\ stored' = stored \cup {m}
    /\ confirmed' = confirmed \cup {m}
    /\ UNCHANGED <<flushVars, serviceVars>>

\* The transaction is durable but the process dies before enqueue returns.
EnqueueUnreported(m) ==
    /\ ~HasId(queue, m.id)
    /\ Len(queue) < MaxEntries
    /\ Bytes(queue) + EntryBytes <= MaxBytes
    /\ queue' = Insert(queue, NewEntry(m))
    /\ stored' = stored \cup {m}
    /\ UNCHANGED <<flushVars, serviceVars, confirmed>>

-----------------------------------------------------------------------------
\* flush reads the clock and selects the due rows, in the order of
\* next_attempt_ms and Limit of them.
FlushBegin(f) ==
    /\ pc[f] = "idle"
    /\ WithinBounds
    /\ \E n \in 1..Limit : \E ix \in [1..n -> DOMAIN queue] :
         /\ IsDueBatch(queue, ix)
         /\ batch' = [batch EXCEPT ![f] = [k \in 1..n |-> queue[ix[k]]]]
    /\ pc' = [pc EXCEPT ![f] = "submit"]
    /\ UNCHANGED <<queue, age, serviceVars, historyVars>>

FlushSubmit(f) ==
    /\ pc[f] = "submit"
    /\ net' = net \cup {MsgOf(Current(f))}
    /\ pc' = [pc EXCEPT ![f] = "wait"]
    /\ UNCHANGED <<queue, batch, age, accepted, historyVars>>

FlushReply(f) ==
    /\ pc[f] = "wait"
    /\ accepted[Current(f).id] = Current(f).content
    /\ pc' = [pc EXCEPT ![f] = "sent"]
    /\ UNCHANGED <<queue, batch, age, serviceVars, historyVars>>

FlushError(f) ==
    /\ pc[f] = "wait"
    /\ pc' = [pc EXCEPT ![f] = "failed"]
    /\ UNCHANGED <<queue, batch, age, serviceVars, historyVars>>

Advance(f) ==
    /\ batch' = [batch EXCEPT ![f] = Tail(batch[f])]
    /\ pc' = [pc EXCEPT ![f] = IF Len(batch[f]) = 1 THEN "idle" ELSE "submit"]
    /\ age' = [age EXCEPT ![f] = IF Len(batch[f]) = 1 THEN 0 ELSE age[f]]

\* DELETE: no row of that id is left; none may have been there.
Delete(f) ==
    /\ pc[f] = "sent"
    /\ queue' = Without(queue, Current(f).id)
    /\ Advance(f)
    /\ UNCHANGED <<serviceVars, historyVars>>

\* Mutant of Updated: the failed row is written back whether or not it is still
\* there (INSERT OR REPLACE instead of UPDATE).
UpsertedRow(f) ==
    Insert(Without(queue, Current(f).id),
           FailedEntry(Current(f), age[f]))

\* The table after UPDATE: the row, if it is there, gets the counts computed
\* from the copy the flush read, and moves to its new place.
Updated(f) ==
    IF HasId(queue, Current(f).id)
    THEN LET row == queue[PositionOf(queue, Current(f).id)]
             new == FailedEntry(Current(f), age[f])
         IN  Insert(Without(queue, row.id),
                    [row EXCEPT !.attempts = new.attempts, !.wait = new.wait])
    ELSE queue

\* Mutant of Update: a row that has failed too often is given up.
UpdateGivingUp(f) ==
    /\ pc[f] = "failed"
    /\ queue' = IF Current(f).attempts = ShiftCap
                THEN Without(queue, Current(f).id)
                ELSE Updated(f)
    /\ Advance(f)
    /\ UNCHANGED <<serviceVars, historyVars>>

Update(f) ==
    /\ pc[f] = "failed"
    /\ queue' = Updated(f)
    /\ Advance(f)
    /\ UNCHANGED <<serviceVars, historyVars>>

\* A database error (a lock held for longer than five seconds, a full disk)
\* ends the flush.
DatabaseError(f) ==
    /\ pc[f] \in {"sent", "failed"}
    /\ batch' = [batch EXCEPT ![f] = <<>>]
    /\ pc' = [pc EXCEPT ![f] = "idle"]
    /\ age' = [age EXCEPT ![f] = 0]
    /\ UNCHANGED <<queue, serviceVars, historyVars>>

-----------------------------------------------------------------------------
Tick ==
    /\ \/ \E i \in DOMAIN queue : queue[i].wait > 0
       \/ \E f \in Flushers : pc[f] # "idle" /\ age[f] < MaxDelay
    /\ queue' = [i \in DOMAIN queue |->
                   [queue[i] EXCEPT !.wait = LeftOf(queue[i].wait, 1)]]
    /\ age' = [f \in Flushers |->
                 IF pc[f] # "idle" /\ age[f] < MaxDelay THEN age[f] + 1 ELSE age[f]]
    /\ UNCHANGED <<pc, batch, serviceVars, historyVars>>

\* The process of one flush dies; WAL recovery leaves the committed rows.
Crash(f) ==
    /\ pc[f] # "idle"
    /\ pc' = [pc EXCEPT ![f] = "idle"]
    /\ batch' = [batch EXCEPT ![f] = <<>>]
    /\ age' = [age EXCEPT ![f] = 0]
    /\ UNCHANGED <<queue, serviceVars, historyVars>>

Accepts(m) ==
    /\ ServiceAccept(m)
    /\ UNCHANGED <<queue, flushVars, historyVars>>

Loses(m) ==
    /\ LoseRequest(m)
    /\ UNCHANGED <<queue, flushVars, historyVars>>

Init ==
    /\ queue = <<>>
    /\ pc = [f \in Flushers |-> "idle"]
    /\ batch = [f \in Flushers |-> <<>>]
    /\ age = [f \in Flushers |-> 0]
    /\ ServiceInit
    /\ HistoryInit

Next ==
    \/ \E m \in Message :
         \/ EnqueueAgain(m) \/ EnqueueNew(m) \/ EnqueueUnreported(m)
         \/ Accepts(m) \/ Loses(m)
    \/ \E f \in Flushers :
         \/ FlushBegin(f) \/ FlushSubmit(f) \/ FlushReply(f) \/ FlushError(f)
         \/ Delete(f) \/ Update(f) \/ DatabaseError(f) \/ Crash(f)
    \/ Tick

Spec == Init /\ [][Next]_vars

-----------------------------------------------------------------------------
\* The state of the table and its flushes has the shape the code gives it.
TypeOK ==
    /\ queue \in Seq(QueuedMessage)
    /\ pc \in [Flushers -> {"idle", "submit", "wait", "sent", "failed"}]
    /\ batch \in [Flushers -> Seq(QueuedMessage)]
    /\ age \in [Flushers -> 0..MaxDelay]
    /\ ServiceTypeOK

\* A late UPDATE of a flush never brings back a row that another flush deleted,
\* nor writes one id into two rows: only enqueue makes a message queued.
OnlyEnqueueAdds ==
    [][\A m \in Queued' \ Queued : EnqueueNew(m) \/ EnqueueUnreported(m)]_vars

\* The table never exceeds the limits the constructor was given ("with the same
\* logical limits"), so that flush and a new SQLiteConversationOutbox on the
\* file keep working.
StaysWithinBounds == WithinBounds

=============================================================================
