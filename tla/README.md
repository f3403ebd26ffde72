# Zincha SDK: TLA+ specifications

Specifications of the stateful parts of the Zincha SDK: the durable outboxes of
the three language SDKs, the resumable event stream, the CLI's conversation
commands, how a participant selects and authenticates a conversation service and
what it encrypts, the wallet and the CLI's transaction submission, the escrow of
agreements and tool jobs, the billing of tool subscriptions, and the verifier in
front of a paid tool. TLC checks them on small instances; TLAPS proves the main
safety results for every value of the constants.

Read `PROJECT.json` for the exact correspondence: every definition with its
source lines, every run with its properties, the mutant that shows that each
property can fail, the hazards, the findings and the theorems.

    tlc -config MCFileOutbox.cfg MCFileOutbox     # any run
    tlapm OutboxProofs.tla                        # any proof

## 1. Inventory

| Component | State | Operations | What is hard | What makes it correct |
|---|---|---|---|---|
| Rust `FileOutbox` (`zincha-client/src/conversation.rs`) | one JSON file, a mutex | `enqueue`, `due`, `mark_sent`, `mark_failed`, `flush` | `flush` holds no lock across its awaits; stores fail; entries grow by error texts | no confirmed message is lost, ids are unique, the file stays loadable |
| Python `SQLiteConversationOutbox` | one SQLite table | `enqueue`, `flush` | several processes; each statement is a transaction | the same, and no late update revives a row |
| TypeScript `ConversationOutbox` | one key of a key-value store, a promise chain | `enqueue`, `flush` | `flush` saves an old copy at its end | the same |
| Event stream (`ConversationClient::events`) | cursor, delay, connection | connect, receive, resync by pages, back off | duplicates, gaps, expired sessions, pages that fail | every message once and in order; every message in the end |
| CLI conversation commands (`zincha-cli-core/src/conversation.rs`) | one private state file | `open`, `renew`, `send`, `messages`, `watch`, `acknowledge`, `outbox flush`, `revoke-session` | whole-file read, await, whole-file write, with no lock | cursors advance, keys are retained, what the service has done can be stored, nothing is acknowledged that no cursor passed (the documentation promises more, section 4) |
| Transport selection and session (`zincha-client/src/conversation.rs`) | chosen interface, bearer session, delegation | `from_profile`, `json`, `issue_challenge`, `create_session`, `revoke_delegation` | fallback only on reachability errors; certificates rotate, providers move, hosts change hands between two requests, anybody can repeat the public profile | where certificates are pinned, credentials stay with the service of the profile; a token goes with profiles of its issuer |
| Messages and encryption (same file) | key ids, envelopes | `create_delegation`, `sign_message`, `encrypt_e2e`, `decrypt_e2e` | renewals give new key ids; a record may name another conversation or epoch | content goes to the ids it was encrypted for, and nowhere else |
| Tool subscription (`primitives/tool.rs`) | period, allowances, restored value, reserve, status | `start_or_restart_from_plan`, `advance_periods`, `consume_allowance`, `restore_allowance_as_compensation`, `terminate_...` | missed periods, pauses, partial payment, late failures | money and calls are conserved, no time is billed twice, early or while paused |
| Tool verifier (`primitives/tool.rs`) | replay store | `verify`, `try_use` | racing requests, a chain that moves between checks, crashes | a token is granted once, to its payer; a rejection uses up nothing |
| Tool jobs and milestones (`primitives/tool.rs`) | milestones, deadlines, result, dispute | `open_current_milestone`, `clear_transient_result_state`, `unpaid_amount_from` | the row repeats its current milestone; stale result fields | row and milestone agree; completed and unpaid amounts add up |
| Agreements (`primitives/agreement.rs`) | escrow counters, milestones, resolutions | `validate_agreement_create_stateless`, `record_escrow_release`, `record_*_resolution`, `distribute_amount` | rounding, mixed scopes of resolutions, rows of an earlier version, addresses that are linked later | payouts add up to the release, whoever orders a payment was independent of its recipients when that was checked, no ruling is lost |
| Agent wallet (`wallet/agent_wallet.rs`), CLI `tx` (`zincha-cli-core/src/tx.rs`) | nonce, validity window, saved file | `next_nonce`, `sign_transaction`, every `build_*`; `resolve_wallet`, `finish_transaction`, `wait_for_transaction` | nonces burned by failures, lost answers, late inclusion, a second user of the account | an intent is carried out at most once; refusals burn no nonce |
| Keystore | key file | create, import, relabel, save | a crash in the middle of an overwrite | no key is lost |
| Validators (VRF) | commitments | commit, reveal | order of phases | one reveal per commitment |
| Contracts, Merkle tree | storage tree, event accumulator | insert, root, prove, verify | odd leaves, empty tree | proofs hold exactly for members |
| Reputation, matching, embeddings | counters, floats | updates, ranking | floating point | not checkable with TLC, but for the counters |
| RPC clients, builders, wire formats | none | one request or payload each | byte compatibility | shared vectors of the repository's tests |

Interactions. The CLI's `send` and `outbox flush` use `FileOutbox`, `watch` uses
the event stream, and all of them share the state file. `FileOutbox` excludes threads
with a mutex inside one process, and `src/README.md:84-87` tells platforms with several
processes to use another store; each `zincha` command is a process of its own all
the same, so a `send` and an `outbox flush` run at one time share the file without a
lock. `FileOutbox` models the threads of one process, as documented. All conversation parts
talk to a conversation service that is not in this repository: it numbers the
messages of a conversation, deduplicates them by message id and honours bearer
sessions. Subscriptions, agreements and jobs are rows that a chain keeps, which
is not in this repository either; the verifier reads it, and the wallet's
transactions go to it. Services and chain are modelled
from how this code uses them, and are marked external in `PROJECT.json`.

## 2. Plan

Order, most important behaviour first:

1. Outboxes: `OutboxBase`, `DurableQueue` (abstract), `FileOutbox`,
   `SqliteOutbox`, `StoreOutbox`; proofs for all three. **Done.**
2. `EventStream` with its caller, and proofs. **Done.**
3. `ConversationCli`, which relies on what `EventStream` shows, and proofs.
   **Done.**
4. `ToolSubscription` and proofs. **Done.**
5. `ToolVerifier` and proofs. **Done.**
6. `Agreement` (checks, splits, rulings), `ToolJob` (milestones), and `Escrow`,
   which composes both with the money they hold; proofs. **Done.**
7. `AgentWallet` (nonces, windows, every builder), `TxCommands` (every building
   command) and `TxSubmission`, which composes them with a chain that includes
   late; proofs. **Done.**
8. `ConversationProfile` (profiles, pins, fallback), `ConversationMessage`
   (delegations, signatures, envelopes) and `ConversationSession`, which composes
   them with a provider that rotates and moves; proofs. **Done;** the connection
   pools of the Python and TypeScript SDKs are open.

Every safety property of the passing runs is a theorem; what is left to the model
checker is liveness (section 5).

## 3. Modules

### Outboxes

`OutboxBase` holds what the three have in common: the durable `queue` (the entries in
the file, the rows of the table by `next_attempt_ms`, the saved items), messages
(an id and a content), the entry with its attempts and its next attempt, the
backoff, the bytes of a queue (an entry has `EntryBytes`, an error text `ErrorBytes` more),
and the service: requests wait in `net`, are accepted once per id, or get lost.
Answers are lost by `FlushError` after an acceptance. `stored` and `confirmed`
record what was ever written and what `enqueue` answered with success. Clocks
are relative: an entry counts down to its next attempt, and a flush remembers
how long ago it read the clock. Attempts are counted to `ShiftCap`, behind which
the code's exponent does not change either. `IsDueBatch` is what all three flushes
take: due entries in the order of the queue, as many as the batch holds.

`DurableQueue` is the promise: an entry is added by an enqueue, a message is
accepted only if it was enqueued, and an entry leaves only when the service
holds a message under its id. Each outbox is shown to implement it, with the
set of queued messages as the mapping.
`ImplementsDurableQueue`, `NoLoss` and `StaysLoadable` are stated once, in
`OutboxBase`; `StaysLoadable` is checked of the two outboxes that check a queue
before they store it, the table's `StaysWithinBounds` is violated (section 4).

- `FileOutbox`: operations under the mutex are one step; `flush` is one step for
  each of its awaits and marks. `StoreErr` is a store that failed before or
  after the rename. `Refused`: an entry is queued whose id the service holds with
  another content. `enqueue` compares with the entries that are still in the file
  only, so an application that uses an id again gets there, the service refuses the
  entry every time, and nothing in the outbox gives it up.
- `SqliteOutbox`: each statement is a step; flushes of several processes work
  on rows they selected earlier. The constructor and `flush` check the bounds
  when they start, `enqueue` checks what it adds, and the updates of a flush check
  nothing (`sqlite_outbox_bytes`).
- `StoreOutbox`: calls enter one at a time through the promise chain; a flush
  works on a copy and saves it at its end, or fails to.

### EventStream

The wire is a sequence of events of the open connection. `ReceiveMessage`,
`ReceiveResync`, `ReceiveExpired`, `ReceiveBroken` and `Disconnect` are the arms
of the code's loop over parsed events, `ReadPage`/`PageEnd`/`PageFails` the paged
read, `Wake`/`Connect*` the reconnection. The caller (`Process`, `Reopen`) is the
CLI's `watch`: it records a message after it has handled it and reopens from
there. `got` records what the stream has yielded.

### ConversationCli

A process runs one command. Each command is cut at its awaits: read the file,
talk to the service, write the whole copy back; at every await it may fail or
be stopped (`Fail`). `ValidState` is what `validate_state` asks of the fields that
commands change: the cursors, the key ids, and the privacy mode, which the stored
profile has to advertise. Addresses, keys and the length of a token and of the file are
taken to be right. `Publish` is a provider that changes the modes it advertises.
`open` looks at them (line 428), `renew` does not (line 561): it makes a delegation and a
session and may then be refused by `write_state` (`RenewRefused`), which is the
exception in `NoWriteIsRefused`. Delegations, sessions and key pairs are numbers.
`shown` records what a command has printed or sent, `passed` that and what a
cursor was moved over, `acked` what the service was told. A user's `--after` is either
the stored cursor or one of `ExplicitAfters`, which counts what lies before it as
passed. `FreshWritesKeep` speaks of a command whose copy is current: it takes back
no cursor and no key id. A stale copy can (section 4).

### ConversationProfile, ConversationMessage, ConversationSession

The first two are operators without state. `ConversationProfile`: what makes a
profile valid, `VerifyServerCert` (leaf pinned, pin in its period up to the skew,
period equal to that of the certificate), which errors are reachability errors,
and the order of the interfaces. `ConversationMessage`: delegation, signature and
envelope with symbolic cryptography. A box opens with exactly the key and the
associated data it was sealed with, so binding a wrong conversation, epoch or
recipient shows.

`ConversationSession` puts a participant in front of a moving world. `Publish`,
`Serve`, `SwitchCertificate` and `Move` are the provider, its services and the
network (external). `Begin` and the `Probe*` actions are `from_profile`; then
every request (`DelegationInfo`, `IssueChallenge`, `CreateSession`, `Submit`,
`Request`, `RevokeDelegation`) is one step at the interface that was chosen, and
the world may change before the next. `last` records who received it and for
whom it was meant. A service answers for itself with the profile it serves; whoever
else holds the host answers `GET /v1/profile` with any profile, that of the service
included, and names any service in `delegation_info` (`Answers`): both are public. The
comparison of the profiles therefore shows nothing about who is behind an HTTPS
name. That rests on the Web PKI and DNS, which are not part of the model, and
`StaysWithService` claims nothing of HTTPS interfaces; over direct ones the pinned
certificate is what keeps others out.

### AgentWallet, TxCommands, TxSubmission

A wallet is a nonce and a validity window. All builders share one body: check the
arguments, take the nonce inside the transaction literal, sign. They differ in
whether they can refuse their arguments and whether the envelope carries an
amount, and that is what the tables of `AgentWallet` say, one entry per
`build_*`. `TxCommands` names the builders each command of `zincha tx` can end
in. Everything else a command does before it has a wallet is parsing.

`TxSubmission` runs commands for intents of a user. A run is `Start` (options are
checked), `ReadInfo`, `ReadNonce` (with the window), `BuildTransaction`,
`WriteFile`, `Submit` and `Poll`; any of them may fail or the process die
(`Fail`), and an accepted submission may go unanswered. The user follows the rule
that the options make possible: keep the signed file, and build again only after
the window of the saved transaction has passed. A long-lived program shares the
account and keeps one wallet with a signer that may fail. The chain (external)
prepares, abandons and commits blocks and answers with any status that fits.
Heights are relative to the tip.

### Amounts, Agreement, ToolJob, Escrow

`Agreement` and `ToolJob` are the methods of the rows, without state; both add up
amounts with `TotalOf` of `Amounts`. `Escrow`
holds one deal of either kind and its money. The transactions are external
actions that call the methods and move what the methods name; creations are
submitted valid or not, and rulings arrive with any payouts and effects.
`legacy` is a row of an earlier version that kept a milestone ruling in the
top-level slot. `release` and `rulings` record the last payment with whoever
ordered it, and every ruling. An arbitrator is any eligible one: the score that
ranks them is floating point. Who belongs to whom changes: `entity` is the root every
address resolves to, and `Link` is an `EntityLink` (`entity.rs:16-43`), committed at any
time. The parties are compared when the deal is made (`agreement.rs:142`), a selected
arbitrator when it is selected, and the repository has no later comparison; so
`NobodyPaysThemselves` speaks of the links under which the author of a payment was
checked (`vetted`), and by the links of the payment it need not hold
(`agent.rs:297-300` speaks of parties that "later collapse into the same entity").
`clear_transient_result_state` leaves the arbitrator's name in the row; what must hold of
it, and does, is that the next dispute replaces it. `Absent` is an `Option` of a job that is `None`. The sort
of `normalize_dispute_reputation_effects` is the list with the same members in the
order of the parties: a party is listed once, so there is only one.

### ToolSubscription

The methods are operators on the record, the chain's transactions are actions
that apply them and move the money the methods name. `funded`, `credited`,
`refunded` are the money that went into and out of the reserve, `openCalls` the
calls that were granted and are neither used up nor lapsed; `Advance` takes the change
from the new record, so that `CallsAccounted` is about the order of grants, jobs,
failures and shutdowns and not about the size of an allowance. `pausedUntil` is the
last time the row was Paused: a renewal never bills time before it
(`NoBillingOfPause`). Only a Paused row stops the clock. An outage that no call of
`advance_periods` sees leaves the row as it was and is billed. A plan with a period of 0
is billed once in each call, since `checked_div` gives 0 periods there; the comparison
with period-by-period billing leaves it out. Two assumptions
about the chain: a restart pays back what is left of the old reserve (a
cancelled slot may hold some, and `start_or_restart_from_plan` overwrites it),
and jobs are settled once. Amounts stay far below 2^64, where the saturating
operations are the plain ones; `TypeOK` says that no subtraction saturates.

### ToolVerifier

A request passes the checks in the order of `verify`. What is read from the
chain or the clock is a step of its own, so that the chain moves in between. The
four checks of `CheckChain` are one step: the last three depend on the request
alone, so nothing can come between them and the first. A signature is an ideal
proof of who made it. `Crash` empties the store unless `Persistent`; the
in-memory store is documented as not surviving restarts, so `GrantedOnce` is
checked and proved for a persistent one.

## 4. Runs

Passing runs, with what their bounds are for:

| Run | Question | Bounds |
|---|---|---|
| `file_outbox` | Does a flush beside enqueues, failed stores and crashes lose, duplicate or corrupt anything, and is everything delivered and retired in the end? | two ids, the first signed with two contents, one flush called again and again, no room for a second error text, so that `mark_failed` fails and an entry waits behind one that keeps failing. Racing flushes are covered by the proofs, for any number of them |
| `sqlite_outbox` | The same safety for two processes on one database | two rows, room for both error texts |
| `store_outbox` | Does the old copy that a flush saves overwrite anything, and is everything delivered although saves fail? | two messages, one entry per flush, room for one error text; the promise chain lets one call at a time run, so a second flush behaves like the first called again |
| `event_stream` | Is a message lost, repeated or out of order, and is every message processed? | three messages, pages of one (a resync needs several), three events in flight (a gap behind a resync) |
| `cli` | Can two terminals over one unlocked file acknowledge what nothing passed, or write a state that is refused? | one terminal follows the stream, the other runs every other command; two messages, two delegations for a list of one key id, reads from the start (`--after 0`), a profile that advertises one privacy mode or the other. Longer lists and logs and more terminals are covered by the proofs |
| `session` | Who gets credentials, tokens and contents while the world moves, and does the participant get through? | two services, an address and a name, seven profiles (two of them mistakes), one change at any time, two sessions, two conversations in one key epoch, all three policies, every assignment of hosts and certificates at first |
| `tx_submission` | Is an intent carried out twice, and is a report ever wrong? | one intent with two runs beside a second user, every command and every builder, eleven sets of options, windows of two blocks, two nonces |
| `escrow` | Is money of a deal created, lost or paid to whoever ordered it? | a payer, three agents and three arbitrators, of whom one belongs to an agent and one agent to the payer, two links that may be committed at any time, 256 creations (most of them invalid), up to two milestones, sums that overflow, one reassignment, milestone and one-shot jobs |
| `subscription` | Is money or a call created or lost? | three periods, funds for two, a paid plan, a free one and one with period 0, two jobs, one restart |
| `verifier` | Is a token granted twice, unpaid, or used up by a rejection? | two requests for one token, a second tool, a second party, an amount below the floor, an age limit |

Runs with a violation, each the disagreement of the code with a text of the
repository:

- `sqlite_outbox_bytes`: error texts take the Python outbox over the byte limit
  that makes every later `flush` raise.
- `cli_shown`: a participant who sends while a message of the peer is unread
  acknowledges it unread: `send` moves the cursor to its own message
  (`zincha-cli-core/src/conversation.rs:672`), and `acknowledge` accepts everything up
  to the cursor. The next `watch` starts behind it too. `src/README.md:110-112` says
  that only locally processed sequences are acknowledged. `AcknowledgedWasPassed` is
  what is left of it.

Observations without a run of their own:

- A cancelled subscription with restored value consumes what its last period
  left, although `tool.rs:519` says that it "no longer grants entitlements":
  `advance_periods` cancels without clearing `remaining_calls`, restored value keeps
  `is_invoke_usable_at` true, and `consume_allowance` does not ask which allowance may
  be used. In the model: `Invoke` with a job, `JobFails`, `Cancel`, `Tick`, `Advance`,
  `Invoke`.
- Restored credits are consumed behind the included calls of the period (`tool.rs:746`),
  although `tool.rs:585-589` says that restored value is consumed before the period's
  normal allowances.
- `renew` takes over a profile that no longer advertises the conversation's privacy mode,
  and is refused when it writes the file. The session it made stays at the service and
  the old one in the file; only another profile, or a new `open`, helps.
- An entry whose message id the service holds with another content stays in the outbox
  for ever. On a full file its error text can fail to be stored, which ends the flush
  before the entries behind it, every time: the exception `Refused`.
- No lock guards the state file between a command's read and its write, so a
  `watch` that runs beside a `renew` or an `acknowledge` undoes it with its next
  write. `FreshWritesKeep` is therefore about commands with a current copy.
- With the policies `HttpsOnly` and `ZinchaTlsOnly` there is no fallback, not even to
  a second interface of the same kind.
- Headers followed by a stalled body are a timeout to the HTTP client, and such an
  interface is passed over like a silent one (`is_timeout`, lines 1012-1013 and
  1081-1083 of `zincha-client/src/conversation.rs`); `OnlySilencePassesOver` counts it as
  silence.
- A signer that fails burns the nonce it was asked to sign for
  (`OnlySignerFailuresLeaveGaps`): a program that keeps its wallet has to call
  `set_nonce` again.
- `OncePerIntent` rests on the file: a run that submits without
  `--signed-tx-out` and loses the answer leaves the user with nothing to submit
  again, and the model's user then does not build a second time.

`CHECK_DEADLOCK FALSE` is set where everything is bounded and may be used up: the
CLI commands (messages and delegations), the verifier (requests and time), the
session (changes, time, sessions), submissions (runs and nonces) and the escrow
(a deal that is over).

### Fairness

- Rust and TypeScript outboxes: time passes, flushes are started again and
  again, and a started flush goes on (weak fairness of the scheduler and the
  runtime). Of the attempts made infinitely often, some reach the service, some
  are answered and some results are stored (strong fairness, for each message id): the
  code retries without end, and against a network or a disk that always fails no
  client can deliver. Enqueues, crashes and losses are not fair. No delivery is
  claimed for the Python outbox, which `sqlite_outbox_bytes` shows to stop at its
  byte limit. That the service accepts one content under an id is an assumption on the
  service; one that refuses a message for another reason for ever is outside it.
- Event stream: the runtime runs the stream and the caller, which reopens a
  stream that ended; connections, pages and deliveries succeed infinitely often
  if tried infinitely often. Broken connections, lag and crashes may come
  infinitely often too. That a gap comes only behind a `resync_required` is an assumption
  on the service: the client does not look for gaps itself.
- Submission: a run that is not killed takes its next step (weak fairness), since
  every request ends within its HTTP timeout. Nothing is assumed of the chain:
  `EveryRunEnds` holds although it never settles a transaction.
- Session: the participant starts again after an error and a selection goes on
  (weak fairness), a service comes to serve what is published for it, and a
  request that could succeed infinitely often at the service of the profile
  sometimes does (strong fairness of `ProbeMatches /\ IsService`; nothing is assumed of
  anybody else who holds the host). `EventuallyConnected` is conditional on a world that stays
  `Settled`.

## 5. Proofs

`OutboxProofs` proves all three outboxes over the one `OutboxBase`, for any number of
messages and flushes and all limits.

`FileOutbox`: `TypeOK` is inductive. `NoLoss` is not: a flush that is about
to call `mark_sent` removes by id whatever is queued under it. `SafeInv` adds

- `UniqueIds`: one entry per id;
- `SentHeld`: a flush that got an answer works on an id the service holds;
- `Staged`: everything in a batch or on the network was once in the file.

`QueueStep` shows that under these each step is a step of `DurableQueue` or leaves
it alone; `AbstractStep` then gives `NoLoss` from the abstract step alone. From
`SafeInv`: `NoMessageIsLost`, `IdsStayUnique`, `RefinesDurableQueue`.
`FileIsAlwaysLoadable` is separate and rests on the byte count of a queue whose
entries only count down. Assumption: `OutboxAssumption` (positive limits).

`SqliteOutbox` (`Table!` in the module): `TableInv` has the same parts for rows that a
process selected earlier. `TableBusy`: a flush that is under way has a row
in its hand; `TableHeld`: a row that is about to be deleted is one the service holds;
`TableStaged`: what was selected or sent was once in the table. A late `DELETE` or
`UPDATE` finds its row by id or finds none, which gives `TableOnlyEnqueueAdds`,
`TableLosesNothing` and `TableRefinesDurableQueue`.

`StoreOutbox` (`Store!`): a flush saves an old copy, so the invariant has to say why
nothing is overwritten. `StoreBusy`: the promise chain lets one call in at a time;
`CopyIds`: ids are distinct in the copy and in the batch; `CopyTrue`: while a flush is
in, its copy has nothing that is not stored, and what it lacks the service holds. From
`StoreInv`: `StoreLosesNothing` and `StoreRefinesDurableQueue`, where one save retires
a whole batch. `StoreIsAlwaysLoadable` rests, like the file's, on the check
before each save. These three assume that `Nobody`, which marks the free chain,
is not the name of a flush.

`ToolSubscriptionProofs`. The invariant is the conjunction of type correctness,
conservation of the reserve, the bound on the paid time and the account of the
calls, each with one step per transaction. The arithmetic is in lemmas about
`PeriodsDue` and `AffordablePeriods`: what is affordable costs no more than the
reserve, and the due periods end at most one period behind now. `RenewsStepwise` shows
that a period is due and paid for exactly if its number is below `AffordablePeriods`,
so that the least one that is not is `Stepwise`, and with it
`RenewalsAreStepwise`. `PausedTimeIsFree` (the property `NoBillingOfPause`) needs
that a subscription that goes on is billed from its period end, which lies behind its
last pause (`PauseIsOver`, part of the invariant); that it does so after a resumption
without a payment is what the code's move of the period end is for. Assumption:
`SubscriptionAssumption` (plans have their types, finitely many jobs).

`ToolVerifierProofs`. `GrantedWasPaid` needs that a request past the first check
has a token that matches the chain (tokens on the chain never change);
`RejectionsClaimNothing` and `GrantedOnce` need that the ids in the store are those
of granted requests, the second with `Persistent`. Assumption:
`VerifierAssumption`.

`TypeOK` and `NoLoss` of `FileOutbox` and `TypeOK` of `ToolVerifier` are proved and not
in a run any more; `NoLoss` follows from the refinement that the runs check.

`EventStreamProofs`. `Gapless` speaks of what was yielded; why the next event fits
is a matter of what is on the wire. `StreamInv` adds

- `OnlyDurable`: nothing is sent, yielded or processed that the service does not hold;
- `SentUpToPos`: a service that can still follow has everything up to its position on
  the wire or behind the stream's cursor;
- `LagIsAnnounced`: one that cannot has its `resync_required` on the wire;
- `WireInOrder`: a message in front of a resync has its predecessor in front of it, or
  the cursor has reached it.

Every page size, wire length and delay; the stream's theorems are `StreamIsGapless`
and, for the caller over reopened streams, `CallerMissesNothing`. Assumption:
`StreamAssumption` (positive limits).

`ConversationCliProofs`. Nothing relates a process' copy to the file, since anything
may have been written in between, so `CliInv` says of each what makes it `Sound` by
itself: distinct key ids within the limit, the delegation among them, acknowledged at
most observed, its privacy mode in its profile, and everything up to observed passed. A job at an await has a sound
copy, and the range it reads or acknowledges lies within what was passed. A
stale write replaces one sound file by another, which is why
`AcknowledgedMessagesWerePassed` and `WritesAreAccepted` hold with no lock.
`RetainProperties` is the lemma about `retain_decryption_key_id`: within the limit,
without repetition, the new id last, an old one lost only from a full list. It also
gives `CurrentCopiesTakeNothingBack`. Assumption: `CliAssumption` (positive limits,
`--after` within the log).

`ConversationSessionProofs`. `SessionInv` adds to the safety properties: services have
certificates of their own (`OwnCertificates`); a client works at an interface of its
profile (`AtInterface`); interfaces before it were silent (`PassedInSilence`); a session
in use was issued by the service of the profile (`UsedAtIssuer`); what is in the mail is
what `Submit` seals (`MailIsSealed`). Assumptions: `ProfileAssumption`,
`MessageAssumption`, `SessionAssumption`, and `WorldAssumption`: nobody but a service
has the key of a certificate its profile pins, every service has a profile, and the
peer's id is no participant's. The first is what pinning is for; without it no
client can tell services apart. Nothing is assumed of what others answer, and nothing
follows for HTTPS.

`TxSubmissionProofs`. `OncePerIntent` is about blocks; what must not happen is decided
by copies that may get into one. `TxInv` speaks, for each intent, of its transactions
at the node, in the run under way and in the file: each run has its own number
(`Numbered`), at most one copy can still be included (`OneAlive`), there is none while a
new one is built (`Alone`), whatever was submitted is the saved one or was submitted
blind (`SavedFirst`), an included transaction has used up the nonce of every live copy
(`CarriedOut`), what was built against the node's window expires with it (`InWindow`),
and a rejected one is dead (`Reported`). A rebuilt transaction starts only after the
window of the saved one, which is where `InWindow` and `SavedFirst` meet. Assumptions:
`TxAssumption` (positive window, anchor within it), `NameAssumption` (the names of the
model differ), and `AmountsReachTheEnvelope`, a fact about the tables of commands and
builders that TLC evaluates.

`EscrowProofs`. `EscrowInv` says of an agreement: the approver and the arbitrator are
independent of whoever is paid, by the links under which they were checked
(`Independent`), a dispute about a milestone has marked
it (`DisputeMarked`), and each ruling is recorded (`RulingsRecorded`): one on the whole
agreement at the top of a resolved row, one on a milestone in the milestone's slot, or at
the top with that slot free, which is what a row of an earlier version looks like after
its first new ruling. Of a job: its row and its milestones have their fields, nothing of
an earlier result is left but an arbitrator's name (`Transient`), and one milestone is the one that the row
repeats, with completed ones before it and untouched ones behind (`Mirrors`). The
effects need that the sort exists: a party's place is the number of parties not behind
it (`Places`). Assumptions: `AgreementAssumption` (finitely many addresses, each
resolving to one) and `EscrowAssumption` (offers, verdicts, plans and links have their types). Offers are
not assumed valid: that is for the code's checks.

The money is a second invariant, `AccountInv`, inductive together with `EscrowInv`.
`MoneyInv`: there is one deal; the terms stay as they were agreed (`Terms`); released and
open amounts of a live agreement add up to its escrow, and the pot holds the open ones
(`Balance`); the plan of a job adds up to its price, and the pot holds what is not
completed (`JobBalance`). `EarningsInv` is `CooperativeShares` with the types it needs.
`EscrowAccounted` is not inductive: that `record_escrow_release` never caps and that
nothing is left when the last milestone closes follow only from the sum of the
released and the open amounts. From `AccountInv`: `EscrowIsAccounted` and
`SharesAreCooperative`.

All of it rests on laws of `TotalOf`: a list of zeros sums to nothing, changing one
amount changes the sum by the difference, sums of two lists add, a prefix sums to a
subtotal. The library's induction theorems cannot be instantiated here, so each law
is an induction with a set: the numbers up to n for which the law holds contain 0 and
with k also k + 1, and a least number outside it would contradict that (`LeastNumber`,
`UpTo`). `TotalOf` is a recursive function for this reason, and `SubtotalSteps` shows that
it exists. `Distribution` is the law of `distribute_amount`: the rounded shares never
exceed the amount, so that the saturating subtraction for the last recipient is a
plain one; each share loses less than a unit, and the payouts sum to the amount.

The inductive invariants were model-checked on the instances of the runs before they
were proved.

Only model-checked:

- all liveness (`EventuallyDelivered`, `EventuallyRetired`, `EventuallyProcessed`,
  `EveryRunEnds`, `EventuallyConnected`): liveness and `ENABLED` are out of the prover's
  reach.

The two properties of the runs that expect a violation (`StaysWithinBounds`,
`AcknowledgedWasShown`) are false of the code and are no theorems.

## 6. Not modelled

- Byte formats, SSE line parsing, size limits of single values, messages of
  errors, cryptographic construction: no state, and checked by the repository's
  vectors.
- The connection pools of the Python and TypeScript SDKs, and their versions of
  transport selection and encryption: the Rust version is the one modelled.
- Usage sessions of metered tools: records whose life cycle is run by the chain; the
  builders that report, accept, dispute, resolve and expire them are modelled.
- Keystore and mnemonics: a list of encrypted entries that a command loads, changes
  and writes back whole and in place; a crash in between is a hazard listed
  without a property. The rest is key derivation in a library.
- Contracts' storage tree and event accumulator, Merkle tree: recursive computations
  over hashes, without interleaving or failure; a model would repeat the recursion.
- Tasks, validators and VRF: records and payloads; what is done with them, and in
  which order, is decided by the chain.
- Ranking, selection scores, reputation decay and embeddings: floating point.
- RPC clients and builders of requests: one request or payload per method.
