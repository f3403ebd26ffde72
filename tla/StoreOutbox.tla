----------------------------- MODULE StoreOutbox -----------------------------
(***************************************************************************)
(* The TypeScript ConversationOutbox over an injected store.  Its promise  *)
(* chain gives the whole of a flush to one caller at a time: it loads the  *)
(* items, awaits the submissions one by one while it edits the copy in     *)
(* memory, and saves once at the end.  A page that is closed in between    *)
(* loses the results of the flush, not the items.                          *)
(*                                                                         *)
(* Flushers are the callers of flush; only one is past the chain.  Items   *)
(* are saved by one call of the store, which either happens or does not.   *)
(***************************************************************************)
EXTENDS OutboxBase

VARIABLES
    holder,  \* the flush that is past the promise chain, or Nobody
    pc,      \* where that flush is
    items,   \* its copy of the items, with the results so far
    batch,   \* the items it has still to submit, the current one first
    age      \* how long ago it read the clock (up to MaxDelay)

CONSTANT Nobody

ASSUME NobodyAssumption == Nobody \notin Flushers

flushVars == <<holder, pc, items, batch, age>>
vars == <<queue, holder, pc, items, batch, age, net, accepted, stored, confirmed>>

Current == Head(batch)

-----------------------------------------------------------------------------
\* Mutant of Fits: save checks the number of entries and not the bytes.
FitsEntriesOnly(list) == Len(list) <= MaxEntries

\* load and save refuse a queue over a limit.
Fits(list) == Len(list) <= MaxEntries /\ Bytes(list) <= MaxBytes

\* The end of exclusive: the next caller may enter, whatever the result.
Release ==
    /\ holder' = Nobody
    /\ pc' = "idle"
    /\ items' = <<>>
    /\ batch' = <<>>
    /\ age' = 0

-----------------------------------------------------------------------------
\* Mutant of Entered: operations do not wait for one another.
EnteredAnyway == TRUE

\* exclusive lets an operation start when the one before it has ended.
Entered == holder = Nobody

\* enqueue of an item that is already there.
EnqueueAgain(m) ==
    /\ Entered
    /\ Fits(queue)
    /\ m \in Queued
    /\ confirmed' = confirmed \cup {m}
    /\ UNCHANGED <<queue, flushVars, serviceVars, stored>>

\* enqueue appends the item and saves; a rejected save changes nothing.
EnqueueNew(m) ==
    /\ Entered
    /\ Fits(queue)
    /\ ~HasId(queue, m.id)
    /\ Len(queue) < MaxEntries
    /\ Fits(Append(queue, NewEntry(m)))
    /\ queue' = Append(queue, NewEntry(m))
    /\ stored' = stored \cup {m}
    /\ confirmed' \in {confirmed, confirmed \cup {m}}
    /\ UNCHANGED <<flushVars, serviceVars>>

-----------------------------------------------------------------------------
\* flush loads the items, reads the clock and takes the due ones, in the order
\* of the store and Limit of them.
FlushBegin(f) ==
    /\ Entered
    /\ Fits(queue)
    /\ \E n \in 1..Limit : \E ix \in [1..n -> DOMAIN queue] :
         /\ IsDueBatch(queue, ix)
         /\ batch' = [k \in 1..n |-> queue[ix[k]]]
    /\ holder' = f
    /\ items' = queue
    /\ pc' = "submit"
    /\ UNCHANGED <<queue, age, serviceVars, historyVars>>

FlushSubmit(f) ==
    /\ holder = f
    /\ pc = "submit"
    /\ net' = net \cup {MsgOf(Current)}
    /\ pc' = "wait"
    /\ UNCHANGED <<queue, holder, items, batch, age, accepted, historyVars>>

\* The loop goes on with the next item, or with the save.
Advance ==
    /\ batch' = Tail(batch)
    /\ pc' = IF Len(batch) = 1 THEN "save" ELSE "submit"
    /\ UNCHANGED <<queue, holder, age, serviceVars, historyVars>>

\* submit resolves: the item is spliced out of the copy.
FlushReply(f) ==
    /\ holder = f
    /\ pc = "wait"
    /\ accepted[Current.id] = Current.content
    /\ items' = Without(items, Current.id)
    /\ Advance

\* submit rejects: the item of the copy counts the attempt and backs off.
FlushError(f) ==
    /\ holder = f
    /\ pc = "wait"
    /\ items' = LET i == PositionOf(items, Current.id)
                IN  [items EXCEPT ![i] = FailedEntry(items[i], age)]
    /\ Advance

\* Mutant of FlushSave: flush returns without saving its results.
FlushSaveNothing(f) ==
    /\ holder = f
    /\ pc = "save"
    /\ Release
    /\ UNCHANGED <<queue, serviceVars, historyVars>>

FlushSave(f) ==
    /\ holder = f
    /\ pc = "save"
    /\ Fits(items)
    /\ queue' = items
    /\ Release
    /\ UNCHANGED <<serviceVars, historyVars>>

\* The save rejects, for the error texts made the items too large or because
\* the store failed: all results of the flush are gone.
FlushSaveFails(f) ==
    /\ holder = f
    /\ pc = "save"
    /\ Release
    /\ UNCHANGED <<queue, serviceVars, historyVars>>

-----------------------------------------------------------------------------
LetPass(list) ==
    [i \in DOMAIN list |-> [list[i] EXCEPT !.wait = LeftOf(list[i].wait, 1)]]

Tick ==
    /\ \/ \E i \in DOMAIN queue : queue[i].wait > 0
       \/ \E i \in DOMAIN items : items[i].wait > 0
       \/ holder # Nobody /\ age < MaxDelay
    /\ queue' = LetPass(queue)
    /\ items' = LetPass(items)
    /\ age' = IF holder # Nobody /\ age < MaxDelay THEN age + 1 ELSE age
    /\ UNCHANGED <<holder, pc, batch, serviceVars, historyVars>>

\* The page or process ends; the store keeps what was saved.
Crash ==
    /\ holder # Nobody
    /\ Release
    /\ UNCHANGED <<queue, serviceVars, historyVars>>

Accepts(m) ==
    /\ ServiceAccept(m)
    /\ UNCHANGED <<queue, flushVars, historyVars>>

Loses(m) ==
    /\ LoseRequest(m)
    /\ UNCHANGED <<queue, flushVars, historyVars>>

Init ==
    /\ queue = <<>>
    /\ holder = Nobody
    /\ pc = "idle"
    /\ items = <<>>
    /\ batch = <<>>
    /\ age = 0
    /\ ServiceInit
    /\ HistoryInit

Next ==
    \/ \E m \in Message :
         EnqueueAgain(m) \/ EnqueueNew(m) \/ Accepts(m) \/ Loses(m)
    \/ \E f \in Flushers :
         \/ FlushBegin(f) \/ FlushSubmit(f) \/ FlushReply(f) \/ FlushError(f)
         \/ FlushSave(f) \/ FlushSaveFails(f)
    \/ Tick
    \/ Crash

Spec == Init /\ [][Next]_vars

-----------------------------------------------------------------------------
\* The state of the outbox has the shape the code gives it; every item still to
\* be submitted is in the copy, so that indexOf finds it.
TypeOK ==
    /\ queue \in Seq(QueuedMessage)
    /\ holder \in Flushers \cup {Nobody}
    /\ pc \in {"idle", "submit", "wait", "save"}
    /\ items \in Seq(QueuedMessage)
    /\ batch \in Seq(QueuedMessage)
    /\ age \in 0..MaxDelay
    /\ ServiceTypeOK
    /\ \A k \in DOMAIN batch : HasId(items, batch[k].id)

\* Flush is called again and again, the promise chain lets every caller in, and
\* of the attempts that are made infinitely often some reach the service, some
\* are answered, and some saves are done.
Fairness ==
    /\ WF_vars(Tick)
    /\ \A f \in Flushers :
         /\ SF_vars(FlushBegin(f))
         /\ WF_vars(FlushReply(f) \/ FlushError(f))
         /\ WF_vars(FlushSave(f) \/ FlushSaveFails(f))
         /\ SF_vars(FlushSubmit(f))
         /\ SF_vars(FlushSave(f) /\ Len(items) < Len(queue))
         /\ \A m \in Message : SF_vars(FlushReply(f) /\ MsgOf(Current) = m)
    /\ \A m \in Message : SF_vars(Accepts(m))

FairSpec == Spec /\ Fairness

\* Every message the application was told is queued reaches the service, though
\* a flush that cannot save forgets everything it did.
EventuallyDelivered ==
    \A m \in Message : m \in confirmed ~> accepted[m.id] # NoContent

=============================================================================
