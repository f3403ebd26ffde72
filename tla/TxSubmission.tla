---------------------------- MODULE TxSubmission ----------------------------
(***************************************************************************)
(* One account, used by CLI runs and by a program that holds an            *)
(* AgentWallet.  A CLI run (tx.rs) reads chain metadata and the nonce,     *)
(* builds and signs, saves the transaction, submits it and waits for its   *)
(* outcome; every request can fail and the process can die between any two *)
(* steps.  The chain is external: it is modelled by what the client sends  *)
(* it and reads from it.                                                   *)
(*                                                                         *)
(* Heights are relative: a transaction's `left` is its                     *)
(* max_valid_block_height minus the chain's height, the number of blocks   *)
(* that may still include it, and every block makes it one less.           *)
(*                                                                         *)
(* An intent is one thing the user wants done once.  The user runs one     *)
(* command at a time for an intent and follows the rule MayBuild.          *)
(***************************************************************************)
EXTENDS TxCommands, FiniteSetsExt, Functions

CONSTANTS Intents,    \* what the user wants done
          Options,    \* the TxBuildArgs the user may give
          Ttl,        \* transaction_ttl_blocks the node advertises
          AnchorLag,  \* how far the advertised anchor lags behind the tip
          MaxNonce,   \* bound on the transactions the chain includes
          MaxRuns,    \* bound on the building commands run for an intent
          MaxSigned,  \* bound on what the program signs between two set_nonce
          MaxPolls,   \* wait_timeout divided by wait_interval
          None

\* The options every building command shares.
TxBuildArgs ==
    [offline : BOOLEAN, nonce : (0..MaxNonce) \cup {None}, chain_id : BOOLEAN,
     height : BOOLEAN, hash : BOOLEAN, ttl : Nat \cup {None}, submit : BOOLEAN,
     wait : BOOLEAN, signed_tx_out : BOOLEAN, force : BOOLEAN]

\* A signed transaction, and the file of --signed-tx-out with its age in blocks.
Tx ==
    [by : Intents \cup {"session"}, id : Nat, nonce : Nat,
     left : Nat \cup {NoWindow}, amount : Nat]
SavedFile == [tx : Tx, age : Nat, online : BOOLEAN]

\* None is no file and no outcome, and the program is no intent of the user.
ASSUME NameAssumption ==
    /\ "session" \notin Intents
    /\ None \notin SavedFile
    /\ None # "confirmed" /\ None # "rejected"

ASSUME TxAssumption ==
    /\ Ttl \in Nat \ {0} /\ AnchorLag \in 0..(Ttl - 1)
    /\ MaxNonce \in Nat /\ MaxRuns \in Nat /\ MaxSigned \in Nat /\ MaxPolls \in Nat \ {0}
    /\ Options \subseteq TxBuildArgs

VARIABLES account,   \* the account's next nonce in committed state
          pool,      \* transactions the node has accepted
          prepared,  \* the transaction of the block under way
          included,  \* transactions in committed blocks
          cli,       \* the run of each intent's current command
          saved,     \* the --signed-tx-out file of each intent
          runs,      \* how many building commands were run for each intent
          blind,     \* intents submitted once without such a file
          asked,     \* the amount each intent is for
          report,    \* what `wait` last reported for each intent
          session    \* the program's wallet and what it signed

chain == <<account, pool, prepared, included>>
user == <<saved, runs, blind, asked, report>>
vars == <<chain, cli, user, session>>

Idle == [step |-> "idle"]
NoReport == [id |-> None, outcome |-> None]

Init ==
    /\ account = 0 /\ pool = {} /\ prepared = {} /\ included = {}
    /\ cli = [i \in Intents |-> Idle]
    /\ saved = [i \in Intents |-> None]
    /\ runs = [i \in Intents |-> 0]
    /\ blind = [i \in Intents |-> FALSE]
    /\ asked = [i \in Intents |-> None]
    /\ report = [i \in Intents |-> NoReport]
    /\ session = [wallet |-> NewWallet, base |-> 0, signed |-> {}, burned |-> {}]
----------------------------------------------------------------------------
(* The chain, external: admission, block production and the answers it gives. *)

Dead(t, next) == t.left = 0 \/ t.nonce < next

\* The node admits what a later block could include.
Admitted(t) == IF Dead(t, account) THEN pool ELSE pool \cup ({t} \ prepared)

\* The next nonce the node reports, with or without the transactions it holds.
NonceAnswers ==
    {account, Min({n \in account..(account + Cardinality(pool \cup prepared)) :
                      \A t \in pool \cup prepared : t.nonce # n})}

\* The status and the terminal flag the node answers for a transaction.
StatusAnswers(t) ==
    IF \E u \in included : u.by = t.by /\ u.id = t.id THEN {<<"confirmed", TRUE>>}
    ELSE IF t \in prepared THEN {<<"prepared", FALSE>>, <<"confirmed", FALSE>>}
    ELSE IF Dead(t, account) THEN {<<"rejected", TRUE>>, <<"unknown", FALSE>>}
    ELSE {<<"pending", FALSE>>, <<"rejected", FALSE>>, <<"unknown", TRUE>>}

Prepare(t) ==
    /\ prepared = {} /\ t.nonce = account /\ t.left # 0 /\ account < MaxNonce
    /\ prepared' = {t} /\ pool' = pool \ {t}
    /\ UNCHANGED <<account, included, cli, user, session>>

\* A prepared block can be abandoned.
Unprepare ==
    /\ prepared # {}
    /\ prepared' = {} /\ pool' = pool \cup prepared
    /\ UNCHANGED <<account, included, cli, user, session>>

Older(left) == IF left = NoWindow \/ left = 0 THEN left ELSE left - 1
OlderTx(t) == [t EXCEPT !.left = Older(@)]
OlderRun(r) ==
    CASE r.step \in {"nonce", "build"} -> [r EXCEPT !.left = Older(@)]
      [] r.step \in {"write", "submit", "wait"} -> [r EXCEPT !.tx = OlderTx(@)]
      [] OTHER -> r
OlderFile(f) ==
    IF f = None THEN f
    ELSE [f EXCEPT !.tx = OlderTx(@), !.age = IF @ > Ttl THEN @ ELSE @ + 1]

\* A block is committed: the prepared transaction is included, and every height
\* that is kept relative to the tip moves one block back.
Block ==
    /\ account' = account + Cardinality(prepared)
    /\ included' = included \cup {[t EXCEPT !.left = 0] : t \in prepared}
    /\ prepared' = {}
    /\ pool' = {t \in {OlderTx(u) : u \in pool} : ~Dead(t, account')}
    /\ cli' = [i \in Intents |-> OlderRun(cli[i])]
    /\ saved' = [i \in Intents |-> OlderFile(saved[i])]
    /\ session' = [session EXCEPT !.wallet.window = Older(@),
                                  !.signed = {OlderTx(t) : t \in @}]
    /\ UNCHANGED <<runs, blind, asked, report>>
----------------------------------------------------------------------------
(* One run of a building command. *)

Stop(i) == cli' = [cli EXCEPT ![i] = Idle]
Go(i, run) == cli' = [cli EXCEPT ![i] = run]

\* The rule the user follows.  A first build: no signed transaction was saved, and
\* none was submitted without saving it.  A replacement: the saved transaction was
\* built against the node's window, Ttl blocks passed, and it was not included.
MayBuild(i) ==
    /\ ~blind[i]
    /\ saved[i] # None =>
         /\ saved[i].online /\ saved[i].age > Ttl
         /\ \A t \in included : t.by # i

\* validate_reference_args, and --offline needs a nonce and a chain id.
ValidOptions(o) ==
    /\ o.height = o.hash
    /\ o.ttl # 0
    /\ o.offline => o.nonce # None /\ o.chain_id

\* resolve_wallet asks the node for chain metadata unless it is told not to.
NeedsInfo(o) == ~(o.offline \/ (~o.submit /\ o.nonce # None /\ o.chain_id))

\* apply_validity_window: when it fails, and the window it sets.  An explicit
\* reference block is one the user read, as old as the node's anchor.
WindowRefused(o) ==
    IF NeedsInfo(o) THEN o.ttl # None /\ o.ttl > Ttl
    ELSE o.height # (o.ttl # None)

WindowLeft(o) ==
    LET ttl == IF o.ttl # None THEN o.ttl ELSE Ttl
    IN  IF ~NeedsInfo(o) /\ ~o.height THEN NoWindow
        ELSE IF ttl > AnchorLag THEN ttl - AnchorLag ELSE 0

\* The run starts: a refused or malformed option ends it before it does anything.
Start(i, o) ==
    /\ cli[i] = Idle /\ MayBuild(i) /\ runs[i] < MaxRuns /\ ValidOptions(o)
    /\ runs' = [runs EXCEPT ![i] = @ + 1]
    /\ Go(i, IF NeedsInfo(o) THEN [step |-> "info", opt |-> o]
             ELSE [step |-> "nonce", opt |-> o, left |-> WindowLeft(o)])
    /\ blind' = [blind EXCEPT ![i] = @ \/ (o.submit /\ ~o.signed_tx_out)]
    /\ report' = [report EXCEPT ![i] = NoReport]
    /\ UNCHANGED <<chain, saved, asked, session>>

\* chain_info: the advertised anchor and limit are as old as this answer.
ReadInfo(i) ==
    /\ cli[i].step = "info"
    /\ Go(i, [step |-> "nonce", opt |-> cli[i].opt, left |-> WindowLeft(cli[i].opt)])
    /\ UNCHANGED <<chain, user, session>>

\* The explicit nonce or the node's, then apply_validity_window.
ReadNonce(i) ==
    /\ cli[i].step = "nonce"
    /\ LET o == cli[i].opt
       IN  \E n \in IF o.nonce # None THEN {o.nonce} ELSE NonceAnswers :
             IF WindowRefused(o) THEN Stop(i)
             ELSE Go(i, [step |-> "build", opt |-> o, left |-> cli[i].left, nonce |-> n])
    /\ UNCHANGED <<chain, user, session>>

\* A fresh wallet, one builder, a key pair that always signs.
BuildTransaction(i) ==
    /\ cli[i].step = "build"
    /\ \E c \in CommandCalls, accepted \in BOOLEAN :
         LET wallet == SetWindow(SetNonce(NewWallet, cli[i].nonce), cli[i].left)
             built  == Build(wallet, c.builder, accepted, TRUE, i, runs[i], c.amount)
         IN  /\ asked[i] \in {None, c.amount}
             /\ asked' = [asked EXCEPT ![i] = c.amount]
             /\ IF built.refused THEN Stop(i)
                ELSE \E t \in built.signed :
                       Go(i, [step |-> "write", opt |-> cli[i].opt, tx |-> t])
    /\ UNCHANGED <<chain, saved, runs, blind, report, session>>

\* The transaction is saved only once the node has answered.
MutWriteFileAfterSubmission(i) ==
    /\ cli[i].step = "write"
    /\ cli' = [cli EXCEPT ![i] =
          IF cli[i].opt.submit THEN [step |-> "submit", tx |-> cli[i].tx, wait |-> cli[i].opt.wait]
          ELSE Idle]
    /\ UNCHANGED <<chain, user, session>>

\* finish_transaction up to the submission: the file is written first, and an
\* existing one is kept unless --force; --wait without --submit fails after that.
WriteFile(i) ==
    /\ cli[i].step = "write"
    /\ LET o == cli[i].opt
       IN  IF o.signed_tx_out /\ saved[i] # None /\ ~o.force
           THEN Stop(i) /\ UNCHANGED saved
           ELSE /\ saved' = IF o.signed_tx_out
                            THEN [saved EXCEPT ![i] = [tx |-> cli[i].tx, age |-> 0,
                                                       online |-> NeedsInfo(o)]]
                            ELSE saved
                /\ IF o.submit
                   THEN Go(i, [step |-> "submit", tx |-> cli[i].tx, wait |-> o.wait])
                   ELSE Stop(i)
    /\ UNCHANGED <<chain, runs, blind, asked, report, session>>

\* submit_signed_transaction_hex, answered.
Submit(i) ==
    /\ cli[i].step = "submit"
    /\ pool' = Admitted(cli[i].tx)
    /\ IF cli[i].wait /\ ~Dead(cli[i].tx, account)
       THEN Go(i, [step |-> "wait", tx |-> cli[i].tx, polls |-> 0])
       ELSE Stop(i)
    /\ UNCHANGED <<account, prepared, included, user, session>>

\* The request reached the node and the answer was lost.
SubmitUnanswered(i) ==
    /\ cli[i].step = "submit"
    /\ pool' = Admitted(cli[i].tx)
    /\ Stop(i)
    /\ UNCHANGED <<account, prepared, included, user, session>>

\* The terminal flag is not looked at.
MutPendingIgnoresTerminal(s) == ~(s[1] \in {"confirmed", "rejected"})

\* is_pending_transaction_status: only an explicit terminal outcome ends the wait.
IsPending(s) == ~(s[2] /\ s[1] \in {"confirmed", "rejected"})

\* The timeout is not looked at.
MutPollForever(i) ==
    /\ cli[i].step = "wait"
    /\ \E s \in StatusAnswers(cli[i].tx) :
         IF ~IsPending(s)
         THEN /\ report' = [report EXCEPT ![i] = [id |-> cli[i].tx.id, outcome |-> s[1]]]
              /\ Stop(i)
         ELSE UNCHANGED <<report, cli>>
    /\ UNCHANGED <<chain, saved, runs, blind, asked, session>>

\* One round of wait_for_transaction.
Poll(i) ==
    /\ cli[i].step = "wait"
    /\ \E s \in StatusAnswers(cli[i].tx) :
         IF ~IsPending(s)
         THEN /\ report' = [report EXCEPT ![i] = [id |-> cli[i].tx.id, outcome |-> s[1]]]
              /\ Stop(i)
         ELSE /\ UNCHANGED report
              /\ IF cli[i].polls + 1 >= MaxPolls THEN Stop(i)
                 ELSE Go(i, [cli[i] EXCEPT !.polls = @ + 1])
    /\ UNCHANGED <<chain, saved, runs, blind, asked, session>>

\* A failed request, an input that does not parse, or the death of the process.
Fail(i) == cli[i] # Idle /\ Stop(i) /\ UNCHANGED <<chain, user, session>>

\* submit-signed, submit-protected, submit-batch and submit-bundle read the saved
\* files of the intents they are given.
SubmitSaved(S) ==
    /\ \A i \in S : cli[i] = Idle /\ saved[i] # None
    /\ cli' = [i \in Intents |->
                 IF i \in S THEN [step |-> "submit", tx |-> saved[i].tx, wait |-> FALSE]
                 ELSE cli[i]]
    /\ UNCHANGED <<chain, user, session>>

\* tx wait, for the saved transaction's hash.
WaitSaved(i) ==
    /\ cli[i] = Idle /\ saved[i] # None
    /\ Go(i, [step |-> "wait", tx |-> saved[i].tx, polls |-> 0])
    /\ UNCHANGED <<chain, user, session>>
----------------------------------------------------------------------------
(* A program that keeps one AgentWallet with a signer of its own. *)

\* set_nonce with the node's answer and a new window.
SessionSync ==
    /\ \E n \in NonceAnswers :
         session' = [wallet |-> SetWindow(SetNonce(session.wallet, n), Ttl - AnchorLag),
                     base |-> n, signed |-> {}, burned |-> {}]
    /\ UNCHANGED <<chain, cli, user>>

SessionBuild(b, accepted, signs) ==
    /\ session.wallet.nonce < MaxNonce /\ Cardinality(session.signed) < MaxSigned
    /\ LET built == Build(session.wallet, b, accepted, signs, "session",
                      session.wallet.nonce, 0)
       IN  session' = [session EXCEPT
             !.wallet = built.wallet,
             !.signed = @ \cup built.signed,
             !.burned = IF built.refused \/ built.signed # {} THEN @
                        ELSE @ \cup {session.wallet.nonce}]
    /\ UNCHANGED <<chain, cli, user>>

SessionSubmit(t) ==
    /\ pool' = Admitted(t)
    /\ UNCHANGED <<account, prepared, included, cli, user, session>>
----------------------------------------------------------------------------
Run(i) ==
    \/ ReadInfo(i) \/ ReadNonce(i) \/ BuildTransaction(i) \/ WriteFile(i)
    \/ Submit(i) \/ Poll(i)

Next ==
    \/ \E t \in pool : Prepare(t)
    \/ Unprepare
    \/ Block
    \/ \E i \in Intents, o \in Options : Start(i, o)
    \/ \E i \in Intents : Run(i) \/ SubmitUnanswered(i) \/ Fail(i) \/ WaitSaved(i)
    \/ \E S \in SUBSET Intents \ {{}} : SubmitSaved(S)
    \/ SessionSync
    \/ \E b \in Range(Builders), accepted, signs \in BOOLEAN : SessionBuild(b, accepted, signs)
    \/ \E t \in session.signed : SessionSubmit(t)

Spec == Init /\ [][Next]_vars

\* Every request the client makes ends within its HTTP timeout, so a run that is
\* not killed takes its next step.
FairSpec == Spec /\ \A i \in Intents : WF_vars(Run(i))
----------------------------------------------------------------------------
\* An intent is carried out at most once, for the amount that was asked, however
\* often its runs fail, die, lose an answer or time out: finish_transaction saves
\* the signed transaction before it submits it, and what is built against the
\* node's window cannot be included once the window has passed.
OncePerIntent ==
    \A i \in Intents :
        LET done == {t \in included : t.by = i}
        IN  /\ Cardinality(done) <= 1
            /\ \A t \in done : t.amount = asked[i]

\* What `wait` reports is final: a confirmed transaction is in a committed block,
\* and one reported as rejected is in none and never will be.
WaitReportsFinal ==
    \A i \in Intents :
        LET done == \E t \in included : t.by = i /\ t.id = report[i].id
        IN  /\ report[i].outcome = "confirmed" => done
            /\ report[i].outcome = "rejected" => ~done

\* A builder that refuses its arguments leaves the wallet's nonce alone: between
\* two set_nonce calls the nonces are used without a gap, except for those lost
\* to a signer that failed.
OnlySignerFailuresLeaveGaps ==
    {t.nonce : t \in session.signed} \cup session.burned
        = session.base..(session.wallet.nonce - 1)

\* A run that is not killed ends, also when the chain never settles what it waits
\* for: wait_for_transaction gives up at its timeout.
EveryRunEnds == \A i \in Intents : (cli[i] # Idle) ~> (cli[i] = Idle)
=============================================================================
