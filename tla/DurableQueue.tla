---------------------------- MODULE DurableQueue ----------------------------
(***************************************************************************)
(* What an outbox promises, without files, flushes, retries or crashes: a  *)
(* set of queued messages, at most one per id; a message is offered to the *)
(* service only after it was queued, and leaves the queue only when the    *)
(* service holds a message under its id.                                   *)
(***************************************************************************)
CONSTANTS MessageIds, Contents, NoContent

VARIABLES queued, stored, confirmed, accepted

dqVars == <<queued, stored, confirmed, accepted>>

Messages == [id : MessageIds, content : Contents]

DQInit ==
    /\ queued = {}
    /\ stored = {}
    /\ confirmed = {}
    /\ accepted = [id \in MessageIds |-> NoContent]

\* A message is made durable; its owner is told so, or is told nothing.
Put(m) ==
    /\ \A q \in queued : q.id # m.id
    /\ queued' = queued \cup {m}
    /\ stored' = stored \cup {m}
    /\ confirmed' \in {confirmed, confirmed \cup {m}}
    /\ UNCHANGED accepted

\* The owner of a message that is queued is told so.
Confirm(m) ==
    /\ m \in queued
    /\ confirmed' = confirmed \cup {m}
    /\ UNCHANGED <<queued, stored, accepted>>

\* The service takes a message, the first under its id.
Deliver(m) ==
    /\ m \in stored
    /\ accepted[m.id] = NoContent
    /\ accepted' = [accepted EXCEPT ![m.id] = m.content]
    /\ UNCHANGED <<queued, stored, confirmed>>

\* Messages leave the queue (the TypeScript outbox saves several results at once).
RetireAll(gone) ==
    /\ gone \subseteq queued
    /\ \A m \in gone : accepted[m.id] # NoContent
    /\ queued' = queued \ gone
    /\ UNCHANGED <<stored, confirmed, accepted>>

DQNext ==
    \/ \E m \in Messages : Put(m) \/ Confirm(m) \/ Deliver(m)
    \/ \E gone \in SUBSET queued : RetireAll(gone)

DQSpec == DQInit /\ [][DQNext]_dqVars

=============================================================================
