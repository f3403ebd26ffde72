-------------------------- MODULE ConversationCli --------------------------
(***************************************************************************)
(* The zincha conversation commands, run as processes that share one       *)
(* private state file.  Every command reads the whole file, talks to the   *)
(* service, changes its own copy and replaces the file with that copy.     *)
(* The replacement is atomic, but nothing locks the file in between, and a *)
(* command can fail or be stopped at every await.                          *)
(*                                                                         *)
(* Delegations are numbered as they are made; a bearer session has the     *)
(* number of its delegation and a pair of operational keys the number of   *)
(* the delegation it was opened with.  0 is none.  The stream of watch     *)
(* yields what EventStream shows it to yield.                              *)
(***************************************************************************)
EXTENDS Integers, Sequences, FiniteSets, SequencesExt

CONSTANTS
    Procs,            \* the processes that run a command on the state file
    Commands,         \* the commands that each of them runs
    MaxLog,           \* how many messages the conversation gets
    MaxDelegations,   \* how many delegations are made
    MaxKeyIds,        \* MAX_DECRYPTION_KEY_IDS, 32 in the code
    PageLimit,        \* the limit of a paged read
    Offers,           \* the privacy modes that a provider may advertise
    ExplicitAfters    \* what users give as --after; otherwise the cursor is used

Modes == {"PlatformReadable", "EndToEnd"}

ASSUME CliAssumption ==
    /\ Commands \in [Procs -> SUBSET {"open", "renew", "revoke", "send", "flush",
                                      "messages", "watch", "acknowledge"}]
    /\ MaxLog \in Nat
    /\ MaxDelegations \in Nat
    /\ MaxKeyIds \in Nat \ {0}
    /\ PageLimit \in Nat \ {0}
    /\ ExplicitAfters \subseteq 0..MaxLog
    /\ Offers \subseteq (SUBSET Modes) \ {{}}

VARIABLES
    file,      \* the ConversationStateV1 on disk
    job,       \* what each process is doing, and its copy of the state
    log,       \* the messages 1..log are durable at the service
    queued,    \* messages in the outbox the service has not accepted
    live,      \* the sessions the service honours
    made,      \* how many delegations have been made
    offered,   \* the privacy modes in the provider's profile on the chain
    passed,    \* the messages that were printed, sent or jumped over
    shown,     \* those that were printed or sent
    acked      \* the highest sequence acknowledged to the service

vars == <<file, job, log, queued, live, made, offered, passed, shown, acked>>
serviceVars == <<log, queued, live, made, offered>>
historyVars == <<passed, shown, acked>>

State ==
    [key : 0..MaxDelegations, delegation : 0..MaxDelegations,
     token : 0..MaxDelegations, keyIds : Seq(1..MaxDelegations),
     mode : Modes \cup {"none"}, profile : SUBSET Modes,
     observed : 0..MaxLog, acknowledged : 0..MaxLog]

NoState ==
    [key |-> 0, delegation |-> 0, token |-> 0, keyIds |-> <<>>,
     mode |-> "none", profile |-> {}, observed |-> 0, acknowledged |-> 0]

\* A job holds its copy of the state and a range of sequences: the cursor and
\* end of a read, or in upto the sequence a command is about; and while it
\* renews, the delegation it made and the profile it read for it.
Idle == [pc |-> "idle", mem |-> NoState, from |-> 0, upto |-> 0,
         delegation |-> 0, profile |-> {}]

Job ==
    [pc : {"idle", "open", "replace", "renew", "renewed", "revoke", "revoked",
           "send", "sent", "flush", "messages", "page", "watch", "emitted",
           "acknowledge", "acknowledged"},
     mem : State, from : 0..MaxLog, upto : 0..MaxLog,
     delegation : 0..MaxDelegations, profile : SUBSET Modes]

Larger(a, b) == IF a > b THEN a ELSE b
Smaller(a, b) == IF a < b THEN a ELSE b

-----------------------------------------------------------------------------
(* The state file. *)

\* What validate_state asks of the fields that change.  That the profile and
\* the keys are those of the delegation holds wherever both are set.  The length
\* of a token (8192) and of the file (128 KiB) are the service's and the
\* profile's affair: they are taken to be within their limits.
ValidState(s) ==
    /\ s.mode \in s.profile
    /\ Len(s.keyIds) \in 1..MaxKeyIds
    /\ Cardinality(ToSet(s.keyIds)) = Len(s.keyIds)
    /\ s.delegation \in ToSet(s.keyIds)
    /\ s.acknowledged <= s.observed

\* write_state: the file is replaced by a valid copy.
WriteState(s) == ValidState(s) /\ file' = s

\* A job with a copy of the file, at the first await of a command.
Started(pc, from, upto) ==
    [pc |-> pc, mem |-> file, from |-> from, upto |-> upto,
     delegation |-> 0, profile |-> {}]

\* The process reads the file and goes to work on its copy.
Begin(p, command, pc, from, upto) ==
    /\ command \in Commands[p]
    /\ job[p].pc = "idle"
    /\ file # NoState
    /\ job' = [job EXCEPT ![p] = Started(pc, from, upto)]
    /\ UNCHANGED <<file, serviceVars, shown, acked>>

ReadState(p, command, pc, from, upto) ==
    Begin(p, command, pc, from, upto) /\ UNCHANGED passed

\* authenticated_client: the copy has a session.  Its requests succeed as long
\* as the service honours the session.
HasSession(s) == s.token # 0
Honoured(s) == s.token \in live

Finish(p) == job' = [job EXCEPT ![p] = Idle]

\* An error of any await, or the process is stopped.
Fail(p) ==
    /\ job[p].pc # "idle"
    /\ Finish(p)
    /\ UNCHANGED <<file, serviceVars, historyVars>>

-----------------------------------------------------------------------------
(* open, renew, revoke-session. *)

\* open refuses an existing file without --force.
OpenBegin(p) ==
    /\ "open" \in Commands[p]
    /\ job[p].pc = "idle"
    /\ \E force \in BOOLEAN :
         /\ force \/ file = NoState
         /\ job' = [job EXCEPT ![p] =
                      [Idle EXCEPT !.pc = IF force THEN "replace" ELSE "open"]]
    /\ UNCHANGED <<file, serviceVars, historyVars>>

\* New keys, a delegation, a session and a resolved conversation are written,
\* for a privacy mode that the profile advertises.
OpenWrite(p) ==
    /\ job[p].pc \in {"open", "replace"}
    /\ job[p].pc = "open" => file = NoState
    /\ made < MaxDelegations
    /\ made' = made + 1
    /\ live' = live \cup {made'}
    /\ \E mode \in offered :
          WriteState([NoState EXCEPT !.key = made', !.delegation = made',
                                     !.token = made', !.keyIds = <<made'>>,
                                     !.mode = mode, !.profile = offered])
    /\ Finish(p)
    /\ UNCHANGED <<log, queued, offered, historyVars>>

RenewBegin(p) == ReadState(p, "renew", "renew", 0, 0)

\* Mutant of RetainKeyId: the list only grows.
RetainEveryKeyId(ids, d) == Append(ids, d)

\* The ids without d.
Without(ids, d) ==
    IF d \in ToSet(ids) THEN SelectSeq(ids, LAMBDA id : id # d) ELSE ids

\* retain_decryption_key_id: the newest ids, each once.
RetainKeyId(ids, d) ==
    LET all == Append(Without(ids, d), d)
    IN  SubSeq(all, Larger(1, Len(all) - MaxKeyIds + 1), Len(all))

\* The copy after a renewal: the keys and the privacy mode stay, the profile,
\* the delegation and the session change.
Renewed(s, d, profile) ==
    [s EXCEPT !.delegation = d, !.token = d,
              !.keyIds = RetainKeyId(s.keyIds, d),
              !.profile = profile]

\* The current profile is read, and the service gives a session for a new
\* delegation of the same keys.  Nobody asks whether the profile still
\* advertises the privacy mode.
RenewAtService(p) ==
    /\ job[p].pc = "renew"
    /\ made < MaxDelegations
    /\ made' = made + 1
    /\ live' = live \cup {made'}
    /\ job' = [job EXCEPT ![p].pc = "renewed", ![p].delegation = made',
                          ![p].profile = offered]
    /\ UNCHANGED <<file, log, queued, offered, historyVars>>

\* What the job writes then.
Renewal(j) == Renewed(j.mem, j.delegation, j.profile)

RenewWrite(p) ==
    /\ job[p].pc = "renewed"
    /\ WriteState(Renewal(job[p]))
    /\ Finish(p)
    /\ UNCHANGED <<serviceVars, historyVars>>

\* write_state refuses it: the file keeps the old session.
RenewRefused(p) ==
    /\ job[p].pc = "renewed"
    /\ ~ValidState(Renewal(job[p]))
    /\ Finish(p)
    /\ UNCHANGED <<file, serviceVars, historyVars>>

RevokeBegin(p) == HasSession(file) /\ ReadState(p, "revoke", "revoke", 0, 0)

\* The service forgets the delegation and its session.
RevokeAtService(p) ==
    /\ job[p].pc = "revoke"
    /\ Honoured(job[p].mem)
    /\ live' = live \ {job[p].mem.delegation}
    /\ job' = [job EXCEPT ![p].pc = "revoked"]
    /\ UNCHANGED <<file, log, queued, made, offered, historyVars>>

RevokeWrite(p) ==
    /\ job[p].pc = "revoked"
    /\ WriteState([job[p].mem EXCEPT !.token = 0])
    /\ Finish(p)
    /\ UNCHANGED <<serviceVars, historyVars>>

-----------------------------------------------------------------------------
(* send, outbox-flush. *)

SendBegin(p) == HasSession(file) /\ ReadState(p, "send", "send", 0, 0)

\* The message is in the outbox, and the service numbers it.
SendAccepted(p) ==
    /\ job[p].pc = "send"
    /\ Honoured(job[p].mem)
    /\ log + queued < MaxLog
    /\ log' = log + 1
    /\ passed' = passed \cup {log'}
    /\ shown' = shown \cup {log'}
    /\ job' = [job EXCEPT ![p].pc = "sent", ![p].upto = log']
    /\ UNCHANGED <<file, queued, live, made, offered, acked>>

\* The request does not reach it: the message stays in the outbox.
SendQueued(p) ==
    /\ job[p].pc = "send"
    /\ log + queued < MaxLog
    /\ queued' = queued + 1
    /\ Finish(p)
    /\ UNCHANGED <<file, log, live, made, offered, historyVars>>

\* Mutant of Observed: the cursor follows the message.
ObservedLast(s, sequence) == [s EXCEPT !.observed = sequence]

\* The copy after a sequence has been observed.
Observed(s, sequence) ==
    [s EXCEPT !.observed = Larger(s.observed, sequence)]

\* The answer is here: the cursor moves up to the sequence of the message.
SendWrite(p) ==
    /\ job[p].pc = "sent"
    /\ WriteState(Observed(job[p].mem, job[p].upto))
    /\ passed' = passed \cup 1..job[p].upto
    /\ Finish(p)
    /\ UNCHANGED <<serviceVars, shown, acked>>

FlushBegin(p) == HasSession(file) /\ ReadState(p, "flush", "flush", 0, 0)

\* outbox-flush sends what is queued and leaves the state file alone.
FlushAccepted(p) ==
    /\ job[p].pc = "flush"
    /\ Honoured(job[p].mem)
    /\ queued > 0
    /\ queued' = queued - 1
    /\ log' = log + 1
    /\ passed' = passed \cup {log'}
    /\ shown' = shown \cup {log'}
    /\ UNCHANGED <<file, job, live, made, offered, acked>>

-----------------------------------------------------------------------------
(* messages, watch, acknowledge. *)

\* The cursor that a read starts from.
Afters == ExplicitAfters \cup {file.observed}

\* With --after the user passes over what lies before it.
StartsBehind(after) ==
    passed' = IF after \in ExplicitAfters THEN passed \cup 1..after ELSE passed

MessagesBegin(p) ==
    /\ HasSession(file)
    /\ \E after \in Afters :
         Begin(p, "messages", "messages", after, 0) /\ StartsBehind(after)

\* The last sequence of the page behind a cursor.
PageUpto(after) == Larger(after, Smaller(log, after + PageLimit))

\* A page.  With --advance-cursor and a page that is not empty the cursor is
\* written before the page is printed.
MessagesPage(p) ==
    LET upto == PageUpto(job[p].from)
    IN  /\ job[p].pc = "messages"
        /\ Honoured(job[p].mem)
        /\ \/ UNCHANGED <<file, passed>>
           \/ /\ upto > job[p].from
              /\ WriteState(Observed(job[p].mem, upto))
              /\ passed' = passed \cup (job[p].from + 1)..upto
        /\ job' = [job EXCEPT ![p].pc = "page", ![p].upto = upto, ![p].mem = NoState]
        /\ UNCHANGED <<serviceVars, shown, acked>>

MessagesEmit(p) ==
    /\ job[p].pc = "page"
    /\ passed' = passed \cup (job[p].from + 1)..job[p].upto
    /\ shown' = shown \cup (job[p].from + 1)..job[p].upto
    /\ Finish(p)
    /\ UNCHANGED <<file, serviceVars, acked>>

WatchBegin(p) ==
    /\ HasSession(file)
    /\ \E after \in Afters :
         Begin(p, "watch", "watch", 0, after) /\ StartsBehind(after)

\* The stream yields the next message, and it is printed.
WatchEmit(p) ==
    /\ job[p].pc = "watch"
    /\ Honoured(job[p].mem)
    /\ job[p].upto < log
    /\ passed' = passed \cup {job[p].upto + 1}
    /\ shown' = shown \cup {job[p].upto + 1}
    /\ job' = [job EXCEPT ![p].pc = "emitted", ![p].upto = @ + 1]
    /\ UNCHANGED <<file, serviceVars, acked>>

\* Then the cursor is written, and the stream goes on until a --limit.
WatchWrite(p) ==
    LET mem == Observed(job[p].mem, job[p].upto)
    IN  /\ job[p].pc = "emitted"
        /\ WriteState(mem)
        /\ job' = [job EXCEPT ![p].pc = "watch", ![p].mem = mem]
        /\ UNCHANGED <<serviceVars, historyVars>>

\* Mutant of MayAcknowledge: nothing bounds the sequence from above.
MayAcknowledgeAny(s, through) == through >= s.acknowledged

\* The acknowledgement stays between the two cursors of the copy.
MayAcknowledge(s, through) == through \in s.acknowledged..s.observed

AcknowledgeBegin(p) ==
    /\ HasSession(file)
    /\ \E through \in 0..MaxLog :
         /\ MayAcknowledge(file, through)
         /\ ReadState(p, "acknowledge", "acknowledge", 0, through)

AcknowledgeAtService(p) ==
    /\ job[p].pc = "acknowledge"
    /\ Honoured(job[p].mem)
    /\ acked' = Larger(acked, job[p].upto)
    /\ job' = [job EXCEPT ![p].pc = "acknowledged"]
    /\ UNCHANGED <<file, serviceVars, passed, shown>>

AcknowledgeWrite(p) ==
    /\ job[p].pc = "acknowledged"
    /\ WriteState([job[p].mem EXCEPT !.acknowledged = job[p].upto])
    /\ Finish(p)
    /\ UNCHANGED <<serviceVars, historyVars>>

-----------------------------------------------------------------------------
(* The service and the provider. *)

\* Another participant's message becomes durable.
PeerPosts ==
    /\ log + queued < MaxLog
    /\ log' = log + 1
    /\ UNCHANGED <<file, job, queued, live, made, offered, historyVars>>

SessionExpires ==
    /\ \E d \in live : live' = live \ {d}
    /\ UNCHANGED <<file, job, log, queued, made, offered, historyVars>>

\* The provider publishes a profile with other privacy modes.
Publish ==
    /\ offered' \in Offers \ {offered}
    /\ UNCHANGED <<file, job, log, queued, live, made, historyVars>>

Init ==
    /\ file = NoState
    /\ job = [p \in Procs |-> Idle]
    /\ log = 0 /\ queued = 0 /\ live = {} /\ made = 0
    /\ offered \in Offers
    /\ passed = {} /\ shown = {} /\ acked = 0

Next ==
    \/ PeerPosts \/ SessionExpires \/ Publish
    \/ \E p \in Procs :
         \/ Fail(p)
         \/ OpenBegin(p) \/ OpenWrite(p)
         \/ RenewBegin(p) \/ RenewAtService(p)
         \/ RenewWrite(p) \/ RenewRefused(p)
         \/ RevokeBegin(p) \/ RevokeAtService(p) \/ RevokeWrite(p)
         \/ SendBegin(p) \/ SendAccepted(p) \/ SendQueued(p) \/ SendWrite(p)
         \/ FlushBegin(p) \/ FlushAccepted(p)
         \/ MessagesBegin(p) \/ MessagesPage(p) \/ MessagesEmit(p)
         \/ WatchBegin(p) \/ WatchEmit(p) \/ WatchWrite(p)
         \/ AcknowledgeBegin(p) \/ AcknowledgeAtService(p)
         \/ AcknowledgeWrite(p)

Spec == Init /\ [][Next]_vars

-----------------------------------------------------------------------------
\* The state file and the copies of it have the fields the code gives them.
TypeOK ==
    /\ file \in State
    /\ job \in [Procs -> Job]
    /\ log \in 0..MaxLog /\ queued \in 0..MaxLog /\ acked \in 0..MaxLog
    /\ passed \subseteq 1..MaxLog /\ shown \subseteq 1..MaxLog
    /\ made \in 0..MaxDelegations /\ live \subseteq 1..MaxDelegations
    /\ offered \in Offers

\* What a job will write when its last request has been answered.
Pending(p) ==
    LET j == job[p]
    IN  CASE j.pc = "renewed" -> Renewal(j)
          [] j.pc = "revoked" -> [j.mem EXCEPT !.token = 0]
          [] j.pc \in {"sent", "emitted"} -> Observed(j.mem, j.upto)
          [] j.pc = "acknowledged" -> [j.mem EXCEPT !.acknowledged = j.upto]
          [] OTHER -> j.mem

\* A command whose requests went through can store the result: whatever the
\* other commands wrote in between, validate_state accepts every copy that a
\* job is about to write, so that write_state throws nothing away that has
\* happened at the service.  One thing is excepted: renew takes over the current
\* profile without the look at its privacy modes that open takes, and when the
\* provider has withdrawn the conversation's mode, the renewed session is lost.
NoWriteIsRefused ==
    \A p \in Procs :
        \/ job[p].pc \in {"idle", "open", "replace", "page"}
        \/ ValidState(Pending(p))
        \/ job[p].pc = "renewed" /\ job[p].mem.mode \notin job[p].profile

\* Nothing locks the file, so a command that began before another one wrote can
\* undo it; but a command whose copy is current takes nothing back: with the same
\* keys both cursors stay or advance, and an id that decrypt needs leaves the list
\* only when the list is full.
FreshWritesKeep ==
    [][ \A p \in Procs :
          job[p] # job'[p] /\ job[p].mem = file /\ file'.key = file.key =>
              /\ file'.observed >= file.observed
              /\ file'.acknowledged >= file.acknowledged
              /\ \/ ToSet(file.keyIds) \subseteq ToSet(file'.keyIds)
                 \/ Len(file'.keyIds) = MaxKeyIds ]_<<file, job>>

\* What is acknowledged to the service was printed or sent with this state file,
\* or a cursor passed it: that of a send, which moves to the sent message whatever
\* lies before it, that of messages --advance-cursor, which is written before the
\* page is printed, or an --after that the user gave.  watch and renewals never
\* pass a message, whatever the commands of two terminals overwrite of each
\* other's state.  This is less than the documentation says (AcknowledgedWasShown).
AcknowledgedWasPassed == 1..acked \subseteq passed

\* "... acknowledges only locally processed sequences" (README.md:112): what
\* is acknowledged was printed or sent.  A send moves the cursor over messages of
\* the peer that nobody has read, and acknowledge takes the cursor for what was
\* processed.
AcknowledgedWasShown == 1..acked \subseteq shown

=============================================================================
