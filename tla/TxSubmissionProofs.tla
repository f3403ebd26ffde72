------------------------- MODULE TxSubmissionProofs -------------------------
(***************************************************************************)
(* Proofs about TxSubmission, for any number of intents and for every      *)
(* window, anchor lag, set of options and bound.                           *)
(***************************************************************************)
EXTENDS TxSubmission, FunctionTheorems, FiniteSetTheorems, NaturalsInduction,
        WellFoundedInduction, TLAPS

-----------------------------------------------------------------------------
(* The inductive invariant. *)

Windows == Nat \cup {NoWindow}
Building == {"info", "nonce", "build", "write"}
Holding == {"write", "submit", "wait"}

\* The fields of a run at each of its steps.
RunShape(r) ==
    /\ r.step \in {"idle"} \cup Building \cup Holding
    /\ r.step = "idle" => r = Idle
    /\ r.step = "info" => r \in [step : {"info"}, opt : TxBuildArgs]
    /\ r.step = "nonce" => r \in [step : {"nonce"}, opt : TxBuildArgs, left : Windows]
    /\ r.step = "build" =>
          r \in [step : {"build"}, opt : TxBuildArgs, left : Windows, nonce : Nat]
    /\ r.step = "write" => r \in [step : {"write"}, opt : TxBuildArgs, tx : Tx]
    /\ r.step = "submit" => r \in [step : {"submit"}, tx : Tx, wait : BOOLEAN]
    /\ r.step = "wait" => r \in [step : {"wait"}, tx : Tx, polls : Nat]

\* The transactions of an intent that a later block could still get to see: at
\* the node, in the run under way and in the file.
Copies(mine, r, f) ==
    mine \cup (IF r.step \in Holding THEN {r.tx} ELSE {})
         \cup (IF f = None THEN {} ELSE {f.tx})

\* Every run has its own number, and copies with one number stay the same.
Numbered(i, copies, r, n) ==
    /\ \A t \in copies : t \in Tx /\ t.by = i /\ t.id <= n
    /\ \A t \in copies : r.step \in {"info", "nonce", "build"} => t.id < n
    /\ \A t, u \in copies : t.id = u.id => t = u

\* One transaction at most can still be included, and it is for what was asked.
OneAlive(copies, a) ==
    /\ \A t, u \in copies : t.left # 0 /\ u.left # 0 => t = u
    /\ \A t \in copies : t.left # 0 => t.amount = a

\* While a transaction is being built there is no other.
Alone(mine, done, r, f, b, rep) ==
    r.step \in Building =>
        /\ mine = {} /\ done = {} /\ rep = NoReport
        /\ f # None => f.tx.left = 0
        /\ b <=> r.opt.submit /\ ~r.opt.signed_tx_out

\* What was submitted was saved first, unless the user gave up on that.
SavedFirst(mine, done, r, f, b) ==
    ~b => /\ mine # {} \/ done # {} => f # None
          /\ \A t \in mine : t = f.tx
          /\ r.step \in {"submit", "wait"} => f # None /\ r.tx = f.tx

\* What is included has used up the nonce of everything that is still alive.
CarriedOut(copies, done, a, next) ==
    /\ \A t \in done : t.amount = a
    /\ \A t, u \in done : t = u
    /\ \A t \in done, u \in copies : u.left # 0 => u.nonce < next

\* What was built against the node's window expires with it.
InWindow(r, f) ==
    /\ f # None /\ f.online =>
          f.tx.left \in Nat /\ (f.tx.left = 0 \/ f.tx.left + f.age <= Ttl)
    /\ r.step = "nonce" /\ NeedsInfo(r.opt) /\ ~WindowRefused(r.opt) => r.left \in 0..Ttl
    /\ r.step = "build" /\ NeedsInfo(r.opt) => r.left \in 0..Ttl
    /\ r.step = "write" /\ NeedsInfo(r.opt) => r.tx.left \in 0..Ttl

\* A report is true, and a rejected transaction has no copy that is alive.
Reported(copies, done, rep, next) ==
    /\ rep.outcome = "confirmed" => \E t \in done : t.id = rep.id
    /\ rep.outcome = "rejected" =>
          /\ \A t \in done : t.id # rep.id
          /\ \A t \in copies : t.id = rep.id => Dead(t, next)

IntentOK(i, mine, done, r, f, n, b, a, rep, next) ==
    /\ RunShape(r) /\ (f = None \/ f \in SavedFile) /\ n \in Nat /\ b \in BOOLEAN
    /\ Numbered(i, Copies(mine, r, f), r, n)
    /\ OneAlive(Copies(mine, r, f), a)
    /\ Alone(mine, done, r, f, b, rep)
    /\ SavedFirst(mine, done, r, f, b)
    /\ CarriedOut(Copies(mine, r, f), done, a, next)
    /\ InWindow(r, f)
    /\ Reported(Copies(mine, r, f), done, rep, next)

\* An intent's transactions at the node and on the chain.
Mine(i) == {t \in pool \cup prepared : t.by = i}
Done(i) == {t \in included : t.by = i}

IntentsOK ==
    \A i \in Intents :
        IntentOK(i, Mine(i), Done(i), cli[i], saved[i], runs[i], blind[i], asked[i],
                 report[i], account)

ChainOK ==
    /\ account \in Nat
    /\ pool \subseteq Tx /\ IsFiniteSet(pool)
    /\ \A t \in pool : ~Dead(t, account)
    /\ prepared \subseteq Tx
    /\ \A t, u \in prepared : t = u
    /\ \A t \in prepared : t.left # 0 /\ t.nonce = account
    /\ included \subseteq Tx

FunctionsOK ==
    /\ DOMAIN cli = Intents /\ DOMAIN saved = Intents /\ DOMAIN runs = Intents
    /\ DOMAIN blind = Intents /\ DOMAIN asked = Intents /\ DOMAIN report = Intents

SessionOK ==
    /\ session \in [wallet : [nonce : Nat, window : Windows], base : Nat,
                    signed : SUBSET Tx, burned : SUBSET Nat]
    /\ \A t \in session.signed : t.by = "session"
    /\ session.base <= session.wallet.nonce
    /\ OnlySignerFailuresLeaveGaps

TxInv == ChainOK /\ FunctionsOK /\ SessionOK /\ IntentsOK

-----------------------------------------------------------------------------
(* Blocks. *)

\* A window only gets smaller, and one that has passed stays so.
LEMMA OlderWindow ==
    ASSUME NEW left \in Windows
    PROVE  /\ Older(left) \in Windows
           /\ Older(left) = 0 <=> left \in {0, 1}
           /\ left \in Nat => Older(left) \in Nat /\ Older(left) <= left
           /\ left \in Nat /\ left # 0 => Older(left) = left - 1
BY DEF Windows, Older, NoWindow

\* A block changes nothing of a transaction but its window.
LEMMA OlderTransaction ==
    ASSUME NEW t \in Tx
    PROVE  /\ OlderTx(t) \in Tx
           /\ OlderTx(t).by = t.by /\ OlderTx(t).id = t.id
           /\ OlderTx(t).nonce = t.nonce /\ OlderTx(t).amount = t.amount
           /\ OlderTx(t).left = Older(t.left)
           /\ t.left \in Windows
           /\ OlderTx(t).left # 0 => t.left # 0
<1>1. t.left \in Windows
  BY DEF Tx, Windows
<1> DEFINE w == Older(t.left)
<1>2. w \in Windows /\ (w # 0 => t.left # 0)
  BY <1>1, OlderWindow
<1> HIDE DEF w
<1>3. OlderTx(t) = [t EXCEPT !.left = w]
  BY DEF OlderTx, w
<1>4. /\ OlderTx(t) \in Tx
      /\ OlderTx(t).by = t.by /\ OlderTx(t).id = t.id
      /\ OlderTx(t).nonce = t.nonce /\ OlderTx(t).amount = t.amount
      /\ OlderTx(t).left = w
  BY <1>2, <1>3 DEF Tx, Windows
<1> QED
  BY <1>1, <1>2, <1>4 DEF w

\* Every transaction that no block can include stays one.
LEMMA DeadStaysDead ==
    ASSUME NEW t \in Tx, NEW next \in Nat, NEW then \in Nat, next <= then, Dead(t, next)
    PROVE  Dead(t, then) /\ Dead(OlderTx(t), then)
<1>1. /\ OlderTx(t).nonce = t.nonce
      /\ OlderTx(t).left = 0 <=> t.left \in {0, 1}
  BY OlderTransaction, OlderWindow
<1>2. t.nonce \in Nat
  BY DEF Tx
<1> QED
  BY <1>1, <1>2 DEF Dead

\* A block changes nothing of a run but the windows.
LEMMA OlderRunShape ==
    ASSUME NEW r, RunShape(r)
    PROVE  /\ RunShape(OlderRun(r))
           /\ OlderRun(r).step = r.step
           /\ r.step \in Building => OlderRun(r).opt = r.opt
           /\ r.step \in Holding => r.tx \in Tx /\ OlderRun(r).tx = OlderTx(r.tx)
           /\ r.step \in {"nonce", "build"} =>
                 r.left \in Windows /\ OlderRun(r).left = Older(r.left)
<1>1. r.step \in {"idle", "info", "nonce", "build", "write", "submit", "wait"}
  BY DEF RunShape, Building, Holding
<1>2. CASE r.step = "idle"
  <2>1. OlderRun(r) = r
    BY <1>2, Zenon DEF OlderRun
  <2> QED
    BY <1>2, <2>1 DEF Building, Holding
<1>3. CASE r.step = "info"
  <2>1. OlderRun(r) = r
    BY <1>3, Zenon DEF OlderRun
  <2> QED
    BY <1>3, <2>1 DEF Building, Holding
<1>4. CASE r.step = "nonce"
  <2> DEFINE w == Older(r.left)
  <2>1. OlderRun(r) = [r EXCEPT !.left = w]
    BY <1>4, Zenon DEF OlderRun
  <2>2. r \in [step : {"nonce"}, opt : TxBuildArgs, left : Windows]
    BY <1>4 DEF RunShape
  <2>3. w \in Windows
    BY <2>2, OlderWindow
  <2> HIDE DEF w
  <2>4. /\ OlderRun(r) \in [step : {"nonce"}, opt : TxBuildArgs, left : Windows]
        /\ OlderRun(r).left = w /\ OlderRun(r).opt = r.opt /\ OlderRun(r).step = "nonce"
        /\ r.left \in Windows
    BY <2>1, <2>2, <2>3
  <2> QED
    BY <1>4, <2>4 DEF Building, Holding, RunShape, w
<1>5. CASE r.step = "build"
  <2> DEFINE w == Older(r.left)
  <2>1. OlderRun(r) = [r EXCEPT !.left = w]
    BY <1>5, Zenon DEF OlderRun
  <2>2. r \in [step : {"build"}, opt : TxBuildArgs, left : Windows, nonce : Nat]
    BY <1>5 DEF RunShape
  <2>3. w \in Windows
    BY <2>2, OlderWindow
  <2> HIDE DEF w
  <2>4. /\ OlderRun(r) \in [step : {"build"}, opt : TxBuildArgs, left : Windows, nonce : Nat]
        /\ OlderRun(r).left = w /\ OlderRun(r).opt = r.opt /\ OlderRun(r).step = "build"
        /\ r.left \in Windows
    BY <2>1, <2>2, <2>3
  <2> QED
    BY <1>5, <2>4 DEF Building, Holding, RunShape, w
<1>6. CASE r.step = "write"
  <2> DEFINE t == OlderTx(r.tx)
  <2>1. OlderRun(r) = [r EXCEPT !.tx = t]
    BY <1>6, Zenon DEF OlderRun
  <2>2. r \in [step : {"write"}, opt : TxBuildArgs, tx : Tx]
    BY <1>6 DEF RunShape
  <2>3. r.tx \in Tx /\ t \in Tx
    BY <2>2, OlderTransaction
  <2> HIDE DEF t
  <2>4. /\ OlderRun(r) \in [step : {"write"}, opt : TxBuildArgs, tx : Tx]
        /\ OlderRun(r).tx = t /\ OlderRun(r).opt = r.opt /\ OlderRun(r).step = "write"
    BY <2>1, <2>2, <2>3
  <2> QED
    BY <1>6, <2>3, <2>4 DEF Building, Holding, RunShape, t
<1>7. CASE r.step = "submit"
  <2> DEFINE t == OlderTx(r.tx)
  <2>1. OlderRun(r) = [r EXCEPT !.tx = t]
    BY <1>7, Zenon DEF OlderRun
  <2>2. r \in [step : {"submit"}, tx : Tx, wait : BOOLEAN]
    BY <1>7 DEF RunShape
  <2>3. r.tx \in Tx /\ t \in Tx
    BY <2>2, OlderTransaction
  <2> HIDE DEF t
  <2>4. /\ OlderRun(r) \in [step : {"submit"}, tx : Tx, wait : BOOLEAN]
        /\ OlderRun(r).tx = t /\ OlderRun(r).step = "submit"
    BY <2>1, <2>2, <2>3
  <2> QED
    BY <1>7, <2>3, <2>4 DEF Building, Holding, RunShape, t
<1>8. CASE r.step = "wait"
  <2> DEFINE t == OlderTx(r.tx)
  <2>1. OlderRun(r) = [r EXCEPT !.tx = t]
    BY <1>8, Zenon DEF OlderRun
  <2>2. r \in [step : {"wait"}, tx : Tx, polls : Nat]
    BY <1>8 DEF RunShape
  <2>3. r.tx \in Tx /\ t \in Tx
    BY <2>2, OlderTransaction
  <2> HIDE DEF t
  <2>4. /\ OlderRun(r) \in [step : {"wait"}, tx : Tx, polls : Nat]
        /\ OlderRun(r).tx = t /\ OlderRun(r).step = "wait"
    BY <2>1, <2>2, <2>3
  <2> QED
    BY <1>8, <2>3, <2>4 DEF Building, Holding, RunShape, t
<1> QED
  BY <1>1, <1>2, <1>3, <1>4, <1>5, <1>6, <1>7, <1>8

\* A file ages with the transaction that is in it.
LEMMA OlderSavedFile ==
    ASSUME NEW f \in SavedFile
    PROVE  /\ f # None /\ OlderFile(f) # None
           /\ OlderFile(f) \in SavedFile
           /\ f.tx \in Tx /\ OlderFile(f).tx = OlderTx(f.tx)
           /\ OlderFile(f).online = f.online
           /\ f.age \in Nat
           /\ OlderFile(f).age = IF f.age > Ttl THEN f.age ELSE f.age + 1
<1> DEFINE t == OlderTx(f.tx)
           g == IF f.age > Ttl THEN f.age ELSE f.age + 1
<1>1. f # None
  BY NameAssumption
<1>2. f.tx \in Tx /\ f.age \in Nat
  BY DEF SavedFile
<1>3. t \in Tx /\ g \in Nat
  BY <1>2, OlderTransaction
<1>4. OlderFile(f) = [f EXCEPT !.tx = t, !.age = g]
  BY <1>1 DEF OlderFile
<1> HIDE DEF t, g
<1>5. /\ OlderFile(f) \in SavedFile
      /\ OlderFile(f).tx = t /\ OlderFile(f).age = g /\ OlderFile(f).online = f.online
  BY <1>3, <1>4 DEF SavedFile
<1> QED
  BY <1>1, <1>2, <1>5, NameAssumption DEF t, g

\* The copies of an intent age together.
LEMMA OlderCopies ==
    ASSUME NEW mine, NEW r, RunShape(r), NEW f, f = None \/ f \in SavedFile,
           NEW mine2, \A t \in mine2 : \E u \in mine : t = OlderTx(u)
    PROVE  \A t \in Copies(mine2, OlderRun(r), OlderFile(f)) :
              \E u \in Copies(mine, r, f) : t = OlderTx(u)
<1> SUFFICES ASSUME NEW t \in Copies(mine2, OlderRun(r), OlderFile(f))
             PROVE  \E u \in Copies(mine, r, f) : t = OlderTx(u)
  OBVIOUS
<1>1. CASE t \in mine2
  BY <1>1 DEF Copies
<1>2. CASE OlderRun(r).step \in Holding /\ t = OlderRun(r).tx
  <2>1. r.step \in Holding /\ t = OlderTx(r.tx)
    BY <1>2, OlderRunShape
  <2> QED
    BY <2>1 DEF Copies
<1>3. CASE OlderFile(f) # None /\ t = OlderFile(f).tx
  <2>1. f # None
    BY <1>3 DEF OlderFile
  <2>2. t = OlderTx(f.tx)
    BY <1>3, <2>1, OlderSavedFile
  <2> QED
    BY <2>1, <2>2 DEF Copies
<1> QED
  BY <1>1, <1>2, <1>3 DEF Copies

\* What is true of an intent stays true when a block is committed, which carries
\* out at most one of its transactions.
LEMMA IntentAges ==
    ASSUME NEW i, NEW mine, NEW done, NEW r, NEW f, NEW n, NEW b, NEW a, NEW rep,
           NEW next \in Nat, NEW then \in Nat, next <= then,
           IntentOK(i, mine, done, r, f, n, b, a, rep, next),
           NEW mine2, \A t \in mine2 : \E u \in mine : t = OlderTx(u),
           NEW carried \in SUBSET mine, carried # {} => next < then,
           \A t \in carried : t.left # 0 /\ t.nonce = next,
           \A t, u \in carried : t = u,
           NEW done2, done2 = done \cup {[t EXCEPT !.left = 0] : t \in carried}
    PROVE  IntentOK(i, mine2, done2, OlderRun(r), OlderFile(f), n, b, a, rep, then)
<1> DEFINE c == Copies(mine, r, f)
           c2 == Copies(mine2, OlderRun(r), OlderFile(f))
           r2 == OlderRun(r)
           f2 == OlderFile(f)
<1>1. /\ RunShape(r) /\ (f = None \/ f \in SavedFile) /\ n \in Nat /\ b \in BOOLEAN
      /\ Numbered(i, c, r, n) /\ OneAlive(c, a)
      /\ Alone(mine, done, r, f, b, rep) /\ SavedFirst(mine, done, r, f, b)
      /\ CarriedOut(c, done, a, next) /\ InWindow(r, f)
      /\ Reported(c, done, rep, next)
  BY DEF IntentOK
<1>2. \A t \in c2 : \E u \in c : t = OlderTx(u)
  BY <1>1, OlderCopies
<1>3. RunShape(r2) /\ r2.step = r.step /\ (r.step \in Building => r2.opt = r.opt)
  BY <1>1, OlderRunShape
<1>4. /\ f = None <=> f2 = None
      /\ f # None => /\ f2 \in SavedFile /\ f2.tx = OlderTx(f.tx)
                     /\ f2.online = f.online
  BY <1>1, OlderSavedFile DEF OlderFile
<1>5. mine \subseteq c /\ (f # None => f.tx \in c)
  BY DEF Copies
<1>6. \A t \in c : t \in Tx
  BY <1>1 DEF Numbered
<1>7. \A t \in carried :
        /\ t \in c /\ t \in Tx
        /\ [t EXCEPT !.left = 0].id = t.id
        /\ [t EXCEPT !.left = 0].amount = t.amount
  <2> SUFFICES ASSUME NEW t \in carried
               PROVE  /\ t \in c /\ t \in Tx
                      /\ [t EXCEPT !.left = 0].id = t.id
                      /\ [t EXCEPT !.left = 0].amount = t.amount
    OBVIOUS
  <2>1. t \in c /\ t \in Tx
    BY <1>5, <1>6
  <2> QED
    BY <2>1 DEF Tx
<1> HIDE DEF c, c2, r2, f2
<1>8. Numbered(i, c2, r2, n)
  <2>1. ASSUME NEW t \in c2
        PROVE  /\ t \in Tx /\ t.by = i /\ t.id <= n
               /\ r2.step \in {"info", "nonce", "build"} => t.id < n
    <3>1. PICK u \in c : t = OlderTx(u)
      BY <1>2
    <3>2. t \in Tx /\ t.by = u.by /\ t.id = u.id
      BY <1>6, <3>1, OlderTransaction
    <3> QED
      BY <1>1, <1>3, <3>2 DEF Numbered
  <2>2. ASSUME NEW t \in c2, NEW u \in c2, t.id = u.id
        PROVE  t = u
    <3>1. PICK x \in c : t = OlderTx(x)
      BY <1>2
    <3>2. PICK y \in c : u = OlderTx(y)
      BY <1>2
    <3>3. x.id = y.id
      BY <1>6, <2>2, <3>1, <3>2, OlderTransaction
    <3>4. x = y
      BY <1>1, <3>3 DEF Numbered
    <3> QED
      BY <3>1, <3>2, <3>4
  <2> QED
    BY <2>1, <2>2 DEF Numbered
<1>9. OneAlive(c2, a)
  <2>1. ASSUME NEW t \in c2, t.left # 0
        PROVE  t.amount = a /\ \E u \in c : t = OlderTx(u) /\ u.left # 0
    <3>1. PICK u \in c : t = OlderTx(u)
      BY <1>2
    <3>2. u.left # 0 /\ t.amount = u.amount
      BY <1>6, <2>1, <3>1, OlderTransaction
    <3> QED
      BY <1>1, <3>1, <3>2 DEF OneAlive
  <2>2. ASSUME NEW t \in c2, NEW u \in c2, t.left # 0, u.left # 0
        PROVE  t = u
    <3>1. PICK x \in c : t = OlderTx(x) /\ x.left # 0
      BY <2>1, <2>2
    <3>2. PICK y \in c : u = OlderTx(y) /\ y.left # 0
      BY <2>1, <2>2
    <3>3. x = y
      BY <1>1, <3>1, <3>2 DEF OneAlive
    <3> QED
      BY <3>1, <3>2, <3>3
  <2> QED
    BY <2>1, <2>2 DEF OneAlive
<1>10. Alone(mine2, done2, r2, f2, b, rep)
  <2> SUFFICES ASSUME r2.step \in Building
               PROVE  /\ mine2 = {} /\ done2 = {} /\ rep = NoReport
                      /\ f2 # None => f2.tx.left = 0
                      /\ b <=> r2.opt.submit /\ ~r2.opt.signed_tx_out
    BY DEF Alone
  <2>1. /\ mine = {} /\ done = {} /\ rep = NoReport
        /\ f # None => f.tx.left = 0
        /\ b <=> r.opt.submit /\ ~r.opt.signed_tx_out
    BY <1>1, <1>3 DEF Alone
  <2>2. mine2 = {} /\ done2 = {}
    BY <2>1
  <2>3. f2 # None => f2.tx.left = 0
    <3> SUFFICES ASSUME f2 # None
                 PROVE  f2.tx.left = 0
      OBVIOUS
    <3>1. f2.tx = OlderTx(f.tx) /\ f.tx.left = 0 /\ f.tx \in Tx
      BY <1>4, <1>5, <1>6, <2>1
    <3> QED
      BY <3>1, OlderTransaction
  <2> QED
    BY <1>3, <2>1, <2>2, <2>3
<1>11. SavedFirst(mine2, done2, r2, f2, b)
  <2> SUFFICES ASSUME ~b
               PROVE  /\ mine2 # {} \/ done2 # {} => f2 # None
                      /\ \A t \in mine2 : t = f2.tx
                      /\ r2.step \in {"submit", "wait"} => f2 # None /\ r2.tx = f2.tx
    BY DEF SavedFirst
  <2>1. /\ mine # {} \/ done # {} => f # None
        /\ \A t \in mine : t = f.tx
        /\ r.step \in {"submit", "wait"} => f # None /\ r.tx = f.tx
    BY <1>1 DEF SavedFirst
  <2>2. mine2 # {} \/ done2 # {} => mine # {} \/ done # {}
    OBVIOUS
  <2>3. \A t \in mine2 : t = f2.tx
    BY <1>4, <2>1
  <2>4. r2.step \in {"submit", "wait"} => r2.tx = OlderTx(r.tx)
    BY <1>1, <1>3, OlderRunShape DEF Holding, r2
  <2> QED
    BY <1>3, <1>4, <2>1, <2>2, <2>3, <2>4
<1>12. CarriedOut(c2, done2, a, then)
  <2>1. carried # {} => done = {}
    <3> SUFFICES ASSUME NEW t \in carried, NEW u \in done
                 PROVE  FALSE
      OBVIOUS
    <3>1. t \in c /\ t.left # 0 /\ t.nonce = next
      BY <1>7
    <3>2. t.nonce < next
      BY <1>1, <3>1 DEF CarriedOut
    <3> QED
      BY <3>1, <3>2
  <2>2. \A t \in carried : t.amount = a
    BY <1>1, <1>7 DEF OneAlive
  <2>3. \A t \in done2 : t.amount = a
    BY <1>1, <1>7, <2>2 DEF CarriedOut
  <2>4. \A t, u \in done2 : t = u
    BY <1>1, <2>1 DEF CarriedOut
  <2>5. ASSUME NEW t \in done2, NEW u \in c2, u.left # 0
        PROVE  u.nonce < then
    <3>1. PICK y \in c : u = OlderTx(y)
      BY <1>2
    <3>2. y.left # 0 /\ u.nonce = y.nonce /\ y.nonce \in Nat
      <4>1. y \in Tx
        BY <1>6
      <4> QED
        BY <2>5, <3>1, <4>1, OlderTransaction DEF Tx
    <3>3. CASE done # {}
      <4>1. y.nonce < next
        BY <1>1, <3>2, <3>3 DEF CarriedOut
      <4> QED
        BY <3>2, <4>1
    <3>4. CASE carried # {}
      <4>1. PICK x \in carried : TRUE
        BY <3>4
      <4>2. x \in c /\ x.left # 0 /\ x.nonce = next
        BY <1>7, <4>1
      <4>3. x = y
        BY <1>1, <3>2, <4>2 DEF OneAlive
      <4> QED
        BY <3>2, <3>4, <4>2, <4>3
    <3> QED
      BY <3>3, <3>4
  <2> QED
    BY <2>3, <2>4, <2>5 DEF CarriedOut
<1>13. InWindow(r2, f2)
  <2>0. Ttl \in Nat
    BY TxAssumption
  <2>1. ASSUME f2 # None, f2.online
        PROVE  f2.tx.left \in Nat /\ (f2.tx.left = 0 \/ f2.tx.left + f2.age <= Ttl)
    <3>1. /\ f \in SavedFile /\ f.online /\ f.tx \in Tx
          /\ f.age \in Nat /\ f2.age = IF f.age > Ttl THEN f.age ELSE f.age + 1
      BY <1>1, <1>4, <2>1, OlderSavedFile DEF f2
    <3>2. f.tx.left \in Nat /\ (f.tx.left = 0 \/ f.tx.left + f.age <= Ttl)
      BY <1>1, <1>4, <2>1, <3>1 DEF InWindow
    <3>3. f2.tx.left = Older(f.tx.left) /\ f.tx.left \in Windows
      BY <1>4, <2>1, <3>1, OlderTransaction
    <3>4. CASE f.tx.left = 0
      BY <3>3, <3>4, OlderWindow
    <3>5. CASE f.tx.left # 0
      <4>1. f2.tx.left = f.tx.left - 1 /\ f2.tx.left \in Nat
        BY <3>2, <3>3, <3>5, OlderWindow
      <4>2. f.tx.left + f.age <= Ttl
        BY <3>2, <3>5
      <4>3. f2.age <= f.age + 1 /\ f2.age \in Nat
        BY <3>1
      <4> QED
        BY <2>0, <3>1, <3>2, <4>1, <4>2, <4>3
    <3> QED
      BY <3>4, <3>5
  <2>2. ASSUME NEW w \in Windows, w \in 0..Ttl
        PROVE  Older(w) \in 0..Ttl
    BY <2>0, <2>2, OlderWindow
  <2>3. r.step \in {"nonce", "build"} => r2.left = Older(r.left) /\ r.left \in Windows
    BY <1>1, OlderRunShape DEF r2
  <2>4. r.step = "write" => r2.tx.left = Older(r.tx.left) /\ r.tx.left \in Windows
    BY <1>1, OlderRunShape, OlderTransaction DEF r2, Holding
  <2>5. r.step \in Building => r2.opt = r.opt
    BY <1>3
  <2> QED
    BY <1>1, <1>3, <2>1, <2>2, <2>3, <2>4, <2>5 DEF InWindow, Building
<1>14. Reported(c2, done2, rep, then)
  <2>1. ASSUME rep.outcome = "rejected"
        PROVE  /\ \A t \in done2 : t.id # rep.id
               /\ \A t \in c2 : t.id = rep.id => Dead(t, then)
    <3>1. /\ \A t \in done : t.id # rep.id
          /\ \A t \in c : t.id = rep.id => Dead(t, next)
      BY <1>1, <2>1 DEF Reported
    <3>2. \A t \in carried : t.id # rep.id
      <4> SUFFICES ASSUME NEW t \in carried, t.id = rep.id
                   PROVE  FALSE
        OBVIOUS
      <4>1. Dead(t, next) /\ t.left # 0 /\ t.nonce = next
        BY <1>7, <3>1
      <4>2. t.nonce < next
        BY <4>1 DEF Dead
      <4> QED
        BY <4>1, <4>2
    <3>3. ASSUME NEW t \in c2, t.id = rep.id
          PROVE  Dead(t, then)
      <4>1. PICK u \in c : t = OlderTx(u)
        BY <1>2
      <4>2. u \in Tx /\ u.id = rep.id
        BY <1>6, <3>3, <4>1, OlderTransaction
      <4> QED
        BY <3>1, <4>1, <4>2, DeadStaysDead
    <3>4. ASSUME NEW t \in done2
          PROVE  t.id # rep.id
      <4>1. CASE t \in done
        BY <3>1, <4>1
      <4>2. ASSUME NEW x \in carried, t = [x EXCEPT !.left = 0]
            PROVE  t.id # rep.id
        BY <1>7, <3>2, <4>2
      <4> QED
        BY <4>1, <4>2
    <3> QED
      BY <3>3, <3>4
  <2> QED
    BY <1>1, <2>1 DEF Reported
<1>15. f2 = None \/ f2 \in SavedFile
  BY <1>1, <1>4
<1> QED
  BY <1>1, <1>3, <1>8, <1>9, <1>10, <1>11, <1>12, <1>13, <1>14, <1>15
     DEF IntentOK, c2, r2, f2

-----------------------------------------------------------------------------
(* The steps of a run. *)

\* A run without a transaction.
LEMMA IdleRun == RunShape(Idle) /\ Idle.step = "idle"
BY DEF RunShape, Idle

\* What a run without a new transaction submits or waits for was there before.
LEMMA IntentGoesOn ==
    ASSUME NEW i, NEW mine, NEW done, NEW r, NEW f, NEW n, NEW b, NEW a, NEW rep,
           NEW next, IntentOK(i, mine, done, r, f, n, b, a, rep, next),
           NEW mine2, NEW r2, RunShape(r2), r2.step \in {"idle", "submit", "wait"},
           \/ /\ r.step \notin Building
              /\ mine2 \subseteq Copies(mine, r, f)
              /\ r2.step # "idle" => r2.tx \in Copies(mine, r, f)
           \/ mine2 = mine /\ r2 = Idle
    PROVE  IntentOK(i, mine2, done, r2, f, n, b, a, rep, next)
<1> DEFINE c == Copies(mine, r, f)
           c2 == Copies(mine2, r2, f)
<1>1. /\ RunShape(r) /\ (f = None \/ f \in SavedFile) /\ n \in Nat /\ b \in BOOLEAN
      /\ Numbered(i, c, r, n) /\ OneAlive(c, a)
      /\ SavedFirst(mine, done, r, f, b)
      /\ CarriedOut(c, done, a, next) /\ InWindow(r, f)
      /\ Reported(c, done, rep, next)
  BY DEF IntentOK
<1>2. mine2 \subseteq c
  BY DEF Copies
<1>3. c2 \subseteq c
  BY IdleRun DEF Copies, Holding
<1>4. r2.step \notin Building /\ r2.step \notin {"info", "nonce", "build", "write"}
  BY DEF Building
<1>5. SavedFirst(mine2, done, r2, f, b)
  <2> SUFFICES ASSUME ~b
               PROVE  /\ mine2 # {} \/ done # {} => f # None
                      /\ \A t \in mine2 : t = f.tx
                      /\ r2.step \in {"submit", "wait"} => f # None /\ r2.tx = f.tx
    BY DEF SavedFirst
  <2>1. /\ mine # {} \/ done # {} => f # None
        /\ \A t \in mine : t = f.tx
        /\ r.step \in {"submit", "wait"} => f # None /\ r.tx = f.tx
    BY <1>1 DEF SavedFirst
  <2>2. CASE r.step \notin Building
    <3>1. \A t \in c : f # None /\ t = f.tx
      BY <1>1, <2>1, <2>2 DEF Copies, Building, Holding
    <3> QED
      BY <1>2, <2>1, <2>2, <3>1, IdleRun
  <2>3. CASE mine2 = mine /\ r2 = Idle
    BY <2>1, <2>3, IdleRun
  <2> QED
    BY <2>2, <2>3
<1> HIDE DEF c, c2
<1>6. Numbered(i, c2, r2, n)
  BY <1>1, <1>3, <1>4 DEF Numbered
<1>7. OneAlive(c2, a)
  BY <1>1, <1>3 DEF OneAlive
<1>8. CarriedOut(c2, done, a, next)
  BY <1>1, <1>3 DEF CarriedOut
<1>9. Reported(c2, done, rep, next)
  BY <1>1, <1>3 DEF Reported
<1>10. Alone(mine2, done, r2, f, b, rep)
  BY <1>4 DEF Alone
<1>11. InWindow(r2, f)
  BY <1>1, <1>4 DEF InWindow
<1> QED
  BY <1>1, <1>5, <1>6, <1>7, <1>8, <1>9, <1>10, <1>11 DEF IntentOK, c2

\* A run that reports what is so.
LEMMA IntentReports ==
    ASSUME NEW i, NEW mine, NEW done, NEW r, NEW f, NEW n, NEW b, NEW a, NEW rep,
           NEW next, IntentOK(i, mine, done, r, f, n, b, a, rep, next),
           NEW rep2, Reported(Copies(mine, r, f), done, rep2, next),
           r.step \notin Building
    PROVE  IntentOK(i, mine, done, r, f, n, b, a, rep2, next)
BY DEF IntentOK, Alone

\* A run starts where MayBuild allows it: nothing of the intent is alive.
LEMMA IntentStarts ==
    ASSUME NEW i, NEW mine, NEW done, NEW f, NEW n, NEW a, NEW rep, NEW next,
           IntentOK(i, mine, done, Idle, f, n, FALSE, a, rep, next),
           \A t \in mine : t.left # 0,
           f # None => f.online /\ f.age > Ttl /\ done = {},
           NEW r2, RunShape(r2), r2.step \in {"info", "nonce"}, InWindow(r2, f),
           NEW b2 \in BOOLEAN, b2 <=> r2.opt.submit /\ ~r2.opt.signed_tx_out
    PROVE  IntentOK(i, mine, done, r2, f, n + 1, b2, a, NoReport, next)
<1> DEFINE c == Copies(mine, Idle, f)
           c2 == Copies(mine, r2, f)
<1>1. /\ (f = None \/ f \in SavedFile) /\ n \in Nat
      /\ Numbered(i, c, Idle, n) /\ OneAlive(c, a)
      /\ SavedFirst(mine, done, Idle, f, FALSE)
      /\ CarriedOut(c, done, a, next) /\ InWindow(Idle, f)
  BY DEF IntentOK
<1>2. c2 = c
  BY IdleRun DEF Copies, Holding
<1>3. f # None => f.tx.left = 0
  <2> SUFFICES ASSUME f # None
               PROVE  f.tx.left = 0
    OBVIOUS
  <2>1. f.tx.left \in Nat /\ (f.tx.left = 0 \/ f.tx.left + f.age <= Ttl)
    BY <1>1 DEF InWindow
  <2>2. f.age \in Nat /\ Ttl \in Nat /\ f.age > Ttl
    BY <1>1, TxAssumption DEF SavedFile
  <2> QED
    BY <2>1, <2>2
<1>4. mine = {} /\ done = {}
  BY <1>1, <1>3 DEF SavedFirst
<1>5. Alone(mine, done, r2, f, b2, NoReport)
  BY <1>3, <1>4 DEF Alone
<1>6. SavedFirst(mine, done, r2, f, b2)
  BY <1>4 DEF SavedFirst
<1> HIDE DEF c, c2
<1>7. Numbered(i, c, r2, n + 1)
  <2>1. \A t \in c : t.id < n + 1 /\ t.id <= n + 1
    <3> SUFFICES ASSUME NEW t \in c
                 PROVE  t.id < n + 1 /\ t.id <= n + 1
      OBVIOUS
    <3>1. t.id \in Nat /\ t.id <= n
      BY <1>1 DEF Numbered, Tx
    <3> QED
      BY <1>1, <3>1
  <2> QED
    BY <1>1, <2>1 DEF Numbered
<1>8. Reported(c, done, NoReport, next)
  BY NameAssumption DEF Reported, NoReport
<1> QED
  BY <1>1, <1>2, <1>5, <1>6, <1>7, <1>8 DEF IntentOK, c2

\* A run reads the metadata and the nonce.
LEMMA IntentReads ==
    ASSUME NEW i, NEW mine, NEW done, NEW r, NEW f, NEW n, NEW b, NEW a, NEW rep,
           NEW next, IntentOK(i, mine, done, r, f, n, b, a, rep, next),
           r.step \in {"info", "nonce"},
           NEW r2, RunShape(r2), r2.step \in {"nonce", "build"}, r2.opt = r.opt,
           InWindow(r2, f)
    PROVE  IntentOK(i, mine, done, r2, f, n, b, a, rep, next)
<1>1. Copies(mine, r2, f) = Copies(mine, r, f)
  BY DEF Copies, Holding
<1>2. Numbered(i, Copies(mine, r2, f), r2, n)
  BY <1>1 DEF IntentOK, Numbered
<1>3. Alone(mine, done, r2, f, b, rep)
  BY DEF IntentOK, Alone, Building
<1>4. SavedFirst(mine, done, r2, f, b)
  BY DEF IntentOK, SavedFirst
<1> QED
  BY <1>1, <1>2, <1>3, <1>4 DEF IntentOK

\* A run builds the only transaction of its intent that is alive, or is refused;
\* either way what was asked is what counts from now on.
LEMMA IntentBuilds ==
    ASSUME NEW i, NEW mine, NEW done, NEW r, NEW f, NEW n, NEW b, NEW a, NEW rep,
           NEW next, IntentOK(i, mine, done, r, f, n, b, a, rep, next),
           r.step = "build", NEW a2, NEW r2, RunShape(r2),
           \/ r2 = Idle
           \/ /\ r2.step = "write" /\ r2.opt = r.opt
              /\ r2.tx \in Tx /\ r2.tx.by = i /\ r2.tx.id = n /\ r2.tx.amount = a2
              /\ NeedsInfo(r.opt) => r2.tx.left \in 0..Ttl
    PROVE  IntentOK(i, mine, done, r2, f, n, b, a2, rep, next)
<1> DEFINE c == Copies(mine, r, f)
           c2 == Copies(mine, r2, f)
<1>1. /\ (f = None \/ f \in SavedFile) /\ n \in Nat /\ b \in BOOLEAN
      /\ Numbered(i, c, r, n)
      /\ Alone(mine, done, r, f, b, rep)
      /\ SavedFirst(mine, done, r, f, b) /\ InWindow(r, f)
      /\ Reported(c, done, rep, next)
  BY DEF IntentOK
<1>2. /\ mine = {} /\ done = {} /\ rep = NoReport
      /\ f # None => f.tx.left = 0
      /\ b <=> r.opt.submit /\ ~r.opt.signed_tx_out
  BY <1>1 DEF Alone, Building
<1>3. \A t \in c : t \in Tx /\ t.by = i /\ t.id \in Nat /\ t.id < n /\ t.left = 0
  <2>1. \A t \in c : t \in Tx /\ t.by = i /\ t.id < n
    BY <1>1 DEF Numbered
  <2>2. \A t \in c : t.left = 0
    BY <1>2 DEF Copies, Holding
  <2> QED
    BY <2>1, <2>2 DEF Tx
<1>4. \A t \in c2 : t \in c \/ (r2.step = "write" /\ t = r2.tx)
  BY <1>2, IdleRun DEF Copies, Holding
<1>5. r2.step \notin {"info", "nonce", "build", "submit", "wait"}
  BY IdleRun
<1> HIDE DEF c, c2
<1>6. r2.step = "write" => r2.tx \in Tx /\ r2.tx.by = i /\ r2.tx.id = n /\ r2.tx.amount = a2
  BY IdleRun
<1>7. Numbered(i, c2, r2, n)
  <2>1. \A t \in c2 : t \in Tx /\ t.by = i /\ t.id <= n
    BY <1>1, <1>3, <1>4, <1>6
  <2>2. ASSUME NEW t \in c2, NEW u \in c2, t.id = u.id
        PROVE  t = u
    <3>1. CASE t \in c /\ u \in c
      BY <1>1, <2>2, <3>1 DEF Numbered
    <3>2. CASE t \notin c
      <4>1. t = r2.tx /\ t.id = n
        BY <1>4, <1>6, <3>2
      <4>2. u \notin c
        BY <1>1, <1>3, <2>2, <4>1
      <4> QED
        BY <1>4, <4>1, <4>2
    <3>3. CASE u \notin c
      <4>1. u = r2.tx /\ u.id = n
        BY <1>4, <1>6, <3>3
      <4>2. t \notin c
        BY <1>1, <1>3, <2>2, <4>1
      <4> QED
        BY <1>4, <4>1, <4>2
    <3> QED
      BY <3>1, <3>2, <3>3
  <2> QED
    BY <1>5, <2>1, <2>2 DEF Numbered
<1>8. OneAlive(c2, a2)
  BY <1>3, <1>4, <1>6 DEF OneAlive
<1>9. CarriedOut(c2, done, a2, next)
  BY <1>2 DEF CarriedOut
<1>10. Reported(c2, done, rep, next)
  BY <1>2, NameAssumption DEF Reported, NoReport
<1>11. Alone(mine, done, r2, f, b, rep)
  <2>1. r2.step \in Building => r2.opt = r.opt
    BY IdleRun DEF Building
  <2> QED
    BY <1>2, <2>1 DEF Alone
<1>12. SavedFirst(mine, done, r2, f, b)
  BY <1>2, <1>5 DEF SavedFirst
<1>13. InWindow(r2, f)
  BY <1>1, <1>5, IdleRun DEF InWindow
<1> QED
  BY <1>1, <1>7, <1>8, <1>9, <1>10, <1>11, <1>12, <1>13 DEF IntentOK, c2

\* The transaction is saved before it is submitted, if it is saved at all.
LEMMA IntentWrites ==
    ASSUME NEW i, NEW mine, NEW done, NEW r, NEW f, NEW n, NEW b, NEW a, NEW rep,
           NEW next, IntentOK(i, mine, done, r, f, n, b, a, rep, next),
           r.step = "write", NEW f2, NEW r2, RunShape(r2),
           \/ r.opt.signed_tx_out /\ f2 = [tx |-> r.tx, age |-> 0, online |-> NeedsInfo(r.opt)]
           \/ ~r.opt.signed_tx_out /\ f2 = f,
           \/ r2 = Idle
           \/ r.opt.submit /\ r2.step = "submit" /\ r2.tx = r.tx
    PROVE  IntentOK(i, mine, done, r2, f2, n, b, a, rep, next)
<1> DEFINE c == Copies(mine, r, f)
           c2 == Copies(mine, r2, f2)
<1>1. /\ (f = None \/ f \in SavedFile) /\ n \in Nat /\ b \in BOOLEAN
      /\ RunShape(r)
      /\ Numbered(i, c, r, n) /\ OneAlive(c, a)
      /\ Alone(mine, done, r, f, b, rep)
      /\ SavedFirst(mine, done, r, f, b) /\ InWindow(r, f)
  BY DEF IntentOK
<1>2. /\ mine = {} /\ done = {} /\ rep = NoReport
      /\ b <=> r.opt.submit /\ ~r.opt.signed_tx_out
  BY <1>1 DEF Alone, Building
<1>3. r.tx \in c /\ r.tx \in Tx
  BY <1>1 DEF Copies, Holding, RunShape
<1>4. r.opt.signed_tx_out =>
        /\ f2 \in SavedFile /\ f2 # None /\ f2.tx = r.tx /\ f2.age = 0
        /\ f2.online => NeedsInfo(r.opt)
  <2> SUFFICES ASSUME r.opt.signed_tx_out
               PROVE  /\ f2 \in SavedFile /\ f2 # None /\ f2.tx = r.tx /\ f2.age = 0
                      /\ f2.online => NeedsInfo(r.opt)
    OBVIOUS
  <2> DEFINE g == NeedsInfo(r.opt)
  <2>1. g \in BOOLEAN
    BY DEF NeedsInfo
  <2> HIDE DEF g
  <2>2. f2 = [tx |-> r.tx, age |-> 0, online |-> g]
    BY DEF g
  <2>3. f2 \in SavedFile /\ f2.tx = r.tx /\ f2.age = 0 /\ f2.online = g
    BY <1>3, <2>1, <2>2 DEF SavedFile
  <2> QED
    BY <2>3, NameAssumption DEF g
<1>5. c2 \subseteq c
  <2>1. f2 = f \/ (f2.tx = r.tx /\ f2 # None)
    BY <1>4
  <2>2. r2.step \in Holding => r2.tx = r.tx
    BY IdleRun DEF Holding
  <2> QED
    BY <1>3, <2>1, <2>2 DEF Copies
<1>6. r2.step \in {"idle", "submit"}
  BY IdleRun
<1> HIDE DEF c, c2
<1>7. Numbered(i, c2, r2, n)
  BY <1>1, <1>5, <1>6 DEF Numbered
<1>8. OneAlive(c2, a)
  BY <1>1, <1>5 DEF OneAlive
<1>9. CarriedOut(c2, done, a, next)
  BY <1>2 DEF CarriedOut
<1>10. Reported(c2, done, rep, next)
  BY <1>2, NameAssumption DEF Reported, NoReport
<1>11. Alone(mine, done, r2, f2, b, rep)
  BY <1>6 DEF Alone, Building
<1>12. SavedFirst(mine, done, r2, f2, b)
  <2> SUFFICES ASSUME ~b, r2.step \in {"submit", "wait"}
               PROVE  f2 # None /\ r2.tx = f2.tx
    BY <1>2 DEF SavedFirst
  <2>1. r.opt.submit /\ r2.tx = r.tx
    BY IdleRun
  <2> QED
    BY <1>2, <1>4, <2>1
<1>13. InWindow(r2, f2)
  <2> SUFFICES ASSUME f2 # None, f2.online
               PROVE  f2.tx.left \in Nat /\ (f2.tx.left = 0 \/ f2.tx.left + f2.age <= Ttl)
    BY <1>6 DEF InWindow
  <2>1. CASE r.opt.signed_tx_out
    <3>1. r.tx.left \in 0..Ttl /\ f2.tx = r.tx /\ f2.age = 0
      BY <1>1, <1>4, <2>1 DEF InWindow
    <3>2. Ttl \in Nat
      BY TxAssumption
    <3> QED
      BY <3>1, <3>2
  <2>2. CASE ~r.opt.signed_tx_out
    BY <1>1, <2>2 DEF InWindow
  <2> QED
    BY <2>1, <2>2
<1>14. f2 = None \/ f2 \in SavedFile
  BY <1>1, <1>4
<1> QED
  BY <1>1, <1>7, <1>8, <1>9, <1>10, <1>11, <1>12, <1>13, <1>14 DEF IntentOK, c2

-----------------------------------------------------------------------------
(* The node. *)

\* The least-number principle.
LEMMA LeastElement ==
    ASSUME NEW S \in SUBSET Nat, NEW s \in S
    PROVE  \E i \in S : \A j \in S : i <= j
<1> DEFINE R == OpToRel(<, Nat)
<1>1. IsWellFoundedOn(R, Nat)
  BY NatLessThanWellFounded
<1>2. \A i, j \in Nat : i < j => <<i, j>> \in R
  BY DEF OpToRel
<1> HIDE DEF R
<1>3. PICK i \in S : \A j \in S : ~(<<j, i>> \in R)
  BY <1>1, WFMin
<1>4. ASSUME NEW j \in S
      PROVE  i <= j
  <2>1. ~(j < i)
    BY <1>2, <1>3
  <2> QED
    BY <2>1
<1> QED
  BY <1>4

\* A function on a finite set has at most as many values.
LEMMA FiniteImage ==
    ASSUME NEW S, IsFiniteSet(S), NEW g, DOMAIN g = S
    PROVE  /\ IsFiniteSet({g[x] : x \in S})
           /\ Cardinality({g[x] : x \in S}) <= Cardinality(S)
<1> DEFINE T == {g[x] : x \in S}
           h == [x \in S |-> g[x]]
<1>1. h \in [S -> T] /\ \A y \in T : \E x \in S : h[x] = y
  OBVIOUS
<1> HIDE DEF h, T
<1>2. h \in Surjection(S, T)
  BY <1>1, Fun_IsSurj
<1>3. IsFiniteSet(T) /\ Cardinality(T) <= Cardinality(S)
  BY <1>2, FS_Surjection
<1> QED
  BY <1>3 DEF T

\* At most one transaction is prepared, for the account's next nonce.
LEMMA OnePrepared ==
    ASSUME ChainOK
    PROVE  /\ IsFiniteSet(prepared)
           /\ Cardinality(prepared) \in {0, 1}
           /\ prepared # {} => Cardinality(prepared) = 1
<1>1. CASE prepared = {}
  BY <1>1, FS_EmptySet
<1>2. CASE prepared # {}
  <2>1. PICK t \in prepared : TRUE
    BY <1>2
  <2>2. prepared = {t}
    BY <2>1 DEF ChainOK
  <2> QED
    BY <2>2, FS_Singleton
<1> QED
  BY <1>1, <1>2

\* The node always has a nonce to offer: of those behind the account's there are
\* more than it holds transactions.
LEMMA NoncesAreNumbers ==
    ASSUME ChainOK
    PROVE  NonceAnswers \subseteq Nat
<1> DEFINE H == pool \cup prepared
           k == Cardinality(H)
           I == account..(account + k)
           g == [t \in H |-> t.nonce]
           N == {g[t] : t \in H}
           S == {n \in I : \A t \in H : t.nonce # n}
<1>1. IsFiniteSet(H) /\ k \in Nat /\ account \in Nat
  BY OnePrepared, FS_Union, FS_CardinalityType DEF ChainOK
<1>2. IsFiniteSet(I) /\ Cardinality(I) = k + 1
  BY <1>1, FS_Interval
<1>3. IsFiniteSet(N) /\ Cardinality(N) <= k
  BY <1>1, FiniteImage
<1>4. \A t \in H : g[t] = t.nonce
  OBVIOUS
<1>5. I \subseteq Nat /\ S \subseteq I
  BY <1>1
<1> HIDE DEF H, k, I, g
<1>6. ~(I \subseteq N)
  <2> SUFFICES ASSUME I \subseteq N
               PROVE  FALSE
    OBVIOUS
  <2>1. Cardinality(I) <= Cardinality(N)
    BY <1>3, FS_Subset
  <2>2. Cardinality(N) \in Nat
    BY <1>3, FS_CardinalityType
  <2> QED
    BY <1>1, <1>2, <1>3, <2>1, <2>2
<1>7. PICK n \in I : n \notin N
  BY <1>6
<1>8. n \in S
  BY <1>4, <1>7
<1> HIDE DEF S
<1>9. \E m \in S : \A y \in S : m <= y
  BY <1>5, <1>8, LeastElement
<1>10. Min(S) \in S
  BY <1>9 DEF Min
<1>11. NonceAnswers = {account, Min(S)}
  BY DEF NonceAnswers, S, I, k, H
<1> QED
  BY <1>1, <1>5, <1>10, <1>11

\* The node admits a transaction: nothing changes for the others.
LEMMA AdmissionKeeps ==
    ASSUME ChainOK, NEW t \in Tx, pool' = Admitted(t),
           UNCHANGED <<account, prepared, included>>
    PROVE  /\ ChainOK'
           /\ \A j : t.by # j => Mine(j)' = Mine(j)
           /\ \A j : Mine(j)' \subseteq Mine(j) \cup {t}
           /\ \A j : Done(j)' = Done(j)
<1>1. CASE Dead(t, account)
  <2>1. pool' = pool
    BY <1>1 DEF Admitted
  <2> QED
    BY <2>1 DEF ChainOK, Mine, Done
<1>2. CASE ~Dead(t, account)
  <2>1. pool' = pool \cup ({t} \ prepared)
    BY <1>2 DEF Admitted
  <2>2. IsFiniteSet(pool')
    <3>1. CASE t \in prepared
      <4>1. pool' = pool
        BY <2>1, <3>1
      <4> QED
        BY <4>1 DEF ChainOK
    <3>2. CASE t \notin prepared
      <4>1. pool' = pool \cup {t}
        BY <2>1, <3>2
      <4> QED
        BY <4>1, FS_AddElement DEF ChainOK
    <3> QED
      BY <3>1, <3>2
  <2>3. ChainOK'
    BY <1>2, <2>1, <2>2 DEF ChainOK
  <2> QED
    BY <2>1, <2>3 DEF Mine, Done
<1> QED
  BY <1>1, <1>2

-----------------------------------------------------------------------------
(* The program's wallet. *)

\* set_nonce starts a new count.
LEMMA SyncKeepsSession ==
    ASSUME ChainOK, SessionOK, SessionSync
    PROVE  SessionOK'
<1>1. PICK n \in NonceAnswers :
        session' = [wallet |-> SetWindow(SetNonce(session.wallet, n), Ttl - AnchorLag),
                    base |-> n, signed |-> {}, burned |-> {}]
  BY DEF SessionSync
<1>2. n \in Nat
  BY NoncesAreNumbers
<1>3. session.wallet \in [nonce : Nat, window : Windows]
  BY DEF SessionOK
<1> DEFINE left == Ttl - AnchorLag
           w == SetWindow(SetNonce(session.wallet, n), left)
<1>4. left \in Windows
  BY TxAssumption DEF Windows
<1> HIDE DEF left
<1>5. w \in [nonce : Nat, window : Windows] /\ w.nonce = n
  BY <1>2, <1>3, <1>4 DEF SetWindow, SetNonce
<1> HIDE DEF w
<1>6. session' = [wallet |-> w, base |-> n, signed |-> {}, burned |-> {}]
  BY <1>1 DEF w, left
<1>7. /\ session' \in [wallet : [nonce : Nat, window : Windows], base : Nat,
                       signed : SUBSET Tx, burned : SUBSET Nat]
      /\ session'.base = n /\ session'.wallet.nonce = n
      /\ session'.signed = {} /\ session'.burned = {}
  BY <1>2, <1>5, <1>6
<1>8. n..(n - 1) = {} /\ n <= n
  BY <1>2
<1> QED
  BY <1>7, <1>8 DEF SessionOK, OnlySignerFailuresLeaveGaps

\* A builder adds its nonce to those signed or to those lost, or does nothing.
LEMMA BuildKeepsSession ==
    ASSUME SessionOK, NEW b, NEW accepted, NEW signs \in BOOLEAN,
           SessionBuild(b, accepted, signs)
    PROVE  SessionOK'
<1> DEFINE w == session.wallet
           built == Build(w, b, accepted, signs, "session", w.nonce, 0)
           n == w.nonce
           lost == IF built.refused \/ built.signed # {} THEN session.burned
                   ELSE session.burned \cup {n}
<1>1. /\ session \in [wallet : [nonce : Nat, window : Windows], base : Nat,
                      signed : SUBSET Tx, burned : SUBSET Nat]
      /\ \A t \in session.signed : t.by = "session"
      /\ session.base <= n
      /\ {t.nonce : t \in session.signed} \cup session.burned = session.base..(n - 1)
  BY DEF SessionOK, OnlySignerFailuresLeaveGaps
<1>2. w \in [nonce : Nat, window : Windows] /\ n \in Nat /\ w.window \in Windows
      /\ session.base \in Nat
  BY <1>1
<1>3. session' = [session EXCEPT !.wallet = built.wallet,
                                 !.signed = @ \cup built.signed,
                                 !.burned = lost]
  BY DEF SessionBuild
<1> DEFINE x == IF b.amount THEN 0 ELSE 0
           tx == [by |-> "session", id |-> n, nonce |-> n, left |-> w.window,
                  amount |-> x]
           unsigned == [by |-> "session", id |-> n, nonce |-> n, left |-> NoWindow,
                        amount |-> x]
           signed == SignTransaction(w, unsigned, signs)
<1>4. \/ built.wallet = w /\ built.refused /\ built.signed = {}
      \/ /\ built.wallet = [w EXCEPT !.nonce = n + 1] /\ ~built.refused
         /\ built.signed = {} \/ built.signed = {tx}
  <2>1. signed = {} \/ signed = {tx}
    BY DEF SignTransaction
  <2>2. CASE b.checked /\ ~accepted
    <3>1. built = [wallet |-> w, refused |-> TRUE, signed |-> {}]
      BY <2>2, Zenon DEF Build
    <3> QED
      BY <3>1
  <2>3. CASE ~(b.checked /\ ~accepted)
    <3>1. built = [wallet |-> NextNonce(w), refused |-> FALSE, signed |-> signed]
      BY <2>3, Zenon DEF Build
    <3> HIDE DEF signed
    <3>2. built.wallet = [w EXCEPT !.nonce = n + 1] /\ ~built.refused
          /\ built.signed = signed
      BY <3>1 DEF NextNonce
    <3> QED
      BY <2>1, <3>2
  <2> QED
    BY <2>2, <2>3
<1>5. tx \in Tx /\ tx.by = "session" /\ tx.nonce = n
  BY <1>2 DEF Tx, Windows
<1> HIDE DEF built, tx, w
<1>6. CASE built.wallet = w /\ built.refused /\ built.signed = {}
  <2>1. lost = session.burned
    BY <1>6
  <2>2. session' = session
    BY <1>1, <1>3, <1>6, <2>1 DEF w
  <2> QED
    BY <2>2 DEF SessionOK, OnlySignerFailuresLeaveGaps
<1>7. CASE built.wallet = [w EXCEPT !.nonce = n + 1] /\ ~built.refused
           /\ built.signed \in {{}, {tx}}
  <2> DEFINE v == [w EXCEPT !.nonce = n + 1]
             s == session.signed \cup built.signed
  <2>1. v \in [nonce : Nat, window : Windows] /\ v.nonce = n + 1
    BY <1>2
  <2>2. s \subseteq Tx /\ lost \subseteq Nat /\ \A t \in s : t.by = "session"
    BY <1>1, <1>2, <1>5, <1>7
  <2>3. {t.nonce : t \in s} \cup lost = ({t.nonce : t \in session.signed} \cup session.burned) \cup {n}
    <3>1. CASE built.signed = {}
      BY <1>7, <3>1
    <3>2. CASE built.signed = {tx}
      BY <1>5, <1>7, <3>2
    <3> QED
      BY <1>7, <3>1, <3>2
  <2>4. {t.nonce : t \in s} \cup lost = session.base..((n + 1) - 1)
    <3>1. session.base..(n - 1) \cup {n} = session.base..((n + 1) - 1)
      BY <1>1, <1>2
    <3> QED
      BY <1>1, <2>3, <3>1
  <2>5. session' = [session EXCEPT !.wallet = v, !.signed = s, !.burned = lost]
    BY <1>1, <1>3, <1>7
  <2> HIDE DEF v, s, lost, n
  <2>6. /\ session' \in [wallet : [nonce : Nat, window : Windows], base : Nat,
                         signed : SUBSET Tx, burned : SUBSET Nat]
        /\ session'.wallet = v /\ session'.base = session.base
        /\ session'.signed = s /\ session'.burned = lost
    BY <1>1, <2>1, <2>2, <2>5
  <2>7. session.base <= n + 1
    BY <1>1, <1>2
  <2> QED
    BY <2>1, <2>2, <2>4, <2>6, <2>7 DEF SessionOK, OnlySignerFailuresLeaveGaps
<1> QED
  BY <1>4, <1>6, <1>7

\* A block changes nothing of what was signed but the windows.
LEMMA BlockKeepsSession ==
    ASSUME SessionOK,
           session' = [session EXCEPT !.wallet.window = Older(@),
                                      !.signed = {OlderTx(t) : t \in @}]
    PROVE  SessionOK'
<1> DEFINE v == [session.wallet EXCEPT !.window = Older(session.wallet.window)]
           s == {OlderTx(t) : t \in session.signed}
<1>1. /\ session \in [wallet : [nonce : Nat, window : Windows], base : Nat,
                      signed : SUBSET Tx, burned : SUBSET Nat]
      /\ \A t \in session.signed : t.by = "session"
      /\ session.base <= session.wallet.nonce
      /\ {t.nonce : t \in session.signed} \cup session.burned
           = session.base..(session.wallet.nonce - 1)
  BY DEF SessionOK, OnlySignerFailuresLeaveGaps
<1>2. v \in [nonce : Nat, window : Windows] /\ v.nonce = session.wallet.nonce
  <2>1. Older(session.wallet.window) \in Windows
    BY <1>1, OlderWindow
  <2> QED
    BY <1>1, <2>1
<1>3. \A t \in session.signed :
        OlderTx(t) \in Tx /\ OlderTx(t).by = "session" /\ OlderTx(t).nonce = t.nonce
  BY <1>1, OlderTransaction
<1>4. s \subseteq Tx /\ \A t \in s : t.by = "session"
  BY <1>3
<1>5. {t.nonce : t \in s} = {t.nonce : t \in session.signed}
  BY <1>3
<1>6. session' = [session EXCEPT !.wallet = v, !.signed = s]
  BY <1>1, Zenon
<1> HIDE DEF v, s
<1>7. /\ session' \in [wallet : [nonce : Nat, window : Windows], base : Nat,
                       signed : SUBSET Tx, burned : SUBSET Nat]
      /\ session'.wallet = v /\ session'.base = session.base
      /\ session'.signed = s /\ session'.burned = session.burned
  BY <1>1, <1>2, <1>4, <1>6
<1> QED
  BY <1>1, <1>2, <1>4, <1>5, <1>7 DEF SessionOK, OnlySignerFailuresLeaveGaps

-----------------------------------------------------------------------------
(* The steps. *)

\* The invariant, of one intent.
OK(i) ==
    IntentOK(i, Mine(i), Done(i), cli[i], saved[i], runs[i], blind[i], asked[i],
             report[i], account)

\* What an intent has stays true when nothing of it changes.
LEMMA OthersKept ==
    ASSUME NEW j, OK(j), Mine(j)' = Mine(j), Done(j)' = Done(j), account' = account,
           cli'[j] = cli[j], saved'[j] = saved[j], runs'[j] = runs[j],
           blind'[j] = blind[j], asked'[j] = asked[j], report'[j] = report[j]
    PROVE  OK(j)'
BY DEF OK

\* A step of one run changes nothing for the other intents.
LEMMA RunStepKeeps ==
    ASSUME TxInv, NEW i \in Intents, UNCHANGED <<account, included, session>>,
           ChainOK', FunctionsOK', OK(i)',
           \A j \in Intents : j # i =>
              /\ Mine(j)' = Mine(j) /\ cli'[j] = cli[j] /\ saved'[j] = saved[j]
              /\ runs'[j] = runs[j] /\ blind'[j] = blind[j] /\ asked'[j] = asked[j]
              /\ report'[j] = report[j]
    PROVE  TxInv'
<1>1. \A j \in Intents : OK(j)
  BY DEF TxInv, IntentsOK, OK
<1>2. \A j : Done(j)' = Done(j)
  BY DEF Done
<1>3. account' = account
  OBVIOUS
<1>4. ASSUME NEW j \in Intents
      PROVE  OK(j)'
  <2>1. CASE j = i
    BY <2>1
  <2>2. CASE j # i
    <3>1. /\ Mine(j)' = Mine(j) /\ cli'[j] = cli[j] /\ saved'[j] = saved[j]
          /\ runs'[j] = runs[j] /\ blind'[j] = blind[j] /\ asked'[j] = asked[j]
          /\ report'[j] = report[j]
      BY <2>2
    <3> QED
      BY <1>1, <1>2, <1>3, <3>1, OthersKept
  <2> QED
    BY <2>1, <2>2
<1>5. IntentsOK'
  BY <1>4 DEF IntentsOK, OK
<1>6. SessionOK'
  BY DEF TxInv, SessionOK, OnlySignerFailuresLeaveGaps
<1> QED
  BY <1>5, <1>6 DEF TxInv

\* So does a step of the node or of the program, which leaves the runs alone.
LEMMA OtherStepKeeps ==
    ASSUME TxInv, UNCHANGED <<account, included, cli, saved, runs, blind, asked, report>>,
           ChainOK', SessionOK', \A j \in Intents : Mine(j)' = Mine(j)
    PROVE  TxInv'
<1>1. \A j \in Intents : OK(j)
  BY DEF TxInv, IntentsOK, OK
<1>2. \A j : Done(j)' = Done(j)
  BY DEF Done
<1>3. \A j \in Intents : OK(j)'
  BY <1>1, <1>2, OthersKept
<1>4. IntentsOK'
  BY <1>3 DEF IntentsOK, OK
<1>5. FunctionsOK'
  BY DEF TxInv, FunctionsOK
<1> QED
  BY <1>4, <1>5 DEF TxInv

\* What the steps of a run start from.
LEMMA Before ==
    ASSUME TxInv, NEW i \in Intents
    PROVE  /\ ChainOK /\ FunctionsOK /\ SessionOK /\ OK(i)
           /\ account \in Nat
           /\ RunShape(cli[i])
           /\ \A t \in Mine(i) : t.left # 0
<1>1. ChainOK /\ FunctionsOK /\ SessionOK /\ OK(i)
  BY DEF TxInv, IntentsOK, OK
<1>2. \A t \in pool \cup prepared : t.left # 0
  BY <1>1 DEF ChainOK, Dead
<1> QED
  BY <1>1, <1>2 DEF ChainOK, OK, IntentOK, Mine

\* A step of a run that leaves the node alone.
LEMMA LocalStepKeeps ==
    ASSUME TxInv, NEW i \in Intents, UNCHANGED <<account, pool, prepared, included, session>>,
           NEW r2, cli' = [cli EXCEPT ![i] = r2],
           NEW f2, NEW n2, NEW b2, NEW a2, NEW rep2,
           saved' = [saved EXCEPT ![i] = f2] \/ (saved' = saved /\ f2 = saved[i]),
           runs' = [runs EXCEPT ![i] = n2] \/ (runs' = runs /\ n2 = runs[i]),
           blind' = [blind EXCEPT ![i] = b2] \/ (blind' = blind /\ b2 = blind[i]),
           asked' = [asked EXCEPT ![i] = a2] \/ (asked' = asked /\ a2 = asked[i]),
           report' = [report EXCEPT ![i] = rep2] \/ (report' = report /\ rep2 = report[i]),
           IntentOK(i, Mine(i), Done(i), r2, f2, n2, b2, a2, rep2, account)
    PROVE  TxInv'
<1>1. FunctionsOK
  BY DEF TxInv
<1>2. cli'[i] = r2 /\ DOMAIN cli' = Intents /\ \A j \in Intents : j # i => cli'[j] = cli[j]
  BY <1>1 DEF FunctionsOK
<1>3. saved'[i] = f2 /\ DOMAIN saved' = Intents
      /\ \A j \in Intents : j # i => saved'[j] = saved[j]
  BY <1>1 DEF FunctionsOK
<1>4. runs'[i] = n2 /\ DOMAIN runs' = Intents
      /\ \A j \in Intents : j # i => runs'[j] = runs[j]
  BY <1>1 DEF FunctionsOK
<1>5. blind'[i] = b2 /\ DOMAIN blind' = Intents
      /\ \A j \in Intents : j # i => blind'[j] = blind[j]
  BY <1>1 DEF FunctionsOK
<1>6. asked'[i] = a2 /\ DOMAIN asked' = Intents
      /\ \A j \in Intents : j # i => asked'[j] = asked[j]
  BY <1>1 DEF FunctionsOK
<1>7. report'[i] = rep2 /\ DOMAIN report' = Intents
      /\ \A j \in Intents : j # i => report'[j] = report[j]
  BY <1>1 DEF FunctionsOK
<1>8. /\ \A j : Mine(j)' = Mine(j) /\ Done(j)' = Done(j)
      /\ account' = account
  BY DEF Mine, Done
<1>9. ChainOK'
  BY DEF TxInv, ChainOK
<1>10. FunctionsOK'
  BY <1>2, <1>3, <1>4, <1>5, <1>6, <1>7 DEF FunctionsOK
<1>11. OK(i)'
  BY <1>2, <1>3, <1>4, <1>5, <1>6, <1>7, <1>8 DEF OK
<1>12. \A j \in Intents : j # i =>
         /\ Mine(j)' = Mine(j) /\ cli'[j] = cli[j] /\ saved'[j] = saved[j]
         /\ runs'[j] = runs[j] /\ blind'[j] = blind[j] /\ asked'[j] = asked[j]
         /\ report'[j] = report[j]
  BY <1>2, <1>3, <1>4, <1>5, <1>6, <1>7, <1>8
<1> QED
  BY <1>9, <1>10, <1>11, <1>12, RunStepKeeps

\* The block under way takes a transaction out of the pool or puts it back.
LEMMA PreparationKeeps ==
    ASSUME TxInv, (\E t \in pool : Prepare(t)) \/ Unprepare
    PROVE  TxInv'
<1>1. ChainOK
  BY DEF TxInv
<1>2. UNCHANGED <<account, included, cli, saved, runs, blind, asked, report, session>>
  BY DEF Prepare, Unprepare, user
<1>3. pool' \cup prepared' = pool \cup prepared
  BY DEF Prepare, Unprepare
<1>4. \A j \in Intents : Mine(j)' = Mine(j)
  BY <1>3 DEF Mine
<1>5. ChainOK'
  <2>1. ASSUME NEW t \in pool, Prepare(t)
        PROVE  ChainOK'
    <3>1. /\ pool' = pool \ {t} /\ prepared' = {t} /\ t.nonce = account /\ t.left # 0
          /\ account' = account /\ included' = included
      BY <2>1 DEF Prepare
    <3>2. IsFiniteSet(pool')
      BY <1>1, <3>1, FS_RemoveElement DEF ChainOK
    <3> QED
      BY <1>1, <3>1, <3>2 DEF ChainOK
  <2>2. ASSUME Unprepare
        PROVE  ChainOK'
    <3>1. /\ pool' = pool \cup prepared /\ prepared' = {}
          /\ account' = account /\ included' = included
      BY <2>2 DEF Unprepare
    <3>2. IsFiniteSet(pool')
      BY <1>1, <3>1, OnePrepared, FS_Union DEF ChainOK
    <3>3. \A t \in prepared : ~Dead(t, account)
      <4> SUFFICES ASSUME NEW t \in prepared
                   PROVE  ~Dead(t, account)
        OBVIOUS
      <4>1. t.left # 0 /\ t.nonce = account /\ account \in Nat
        BY <1>1 DEF ChainOK
      <4>2. ~(account < account)
        BY <4>1
      <4> QED
        BY <4>1, <4>2 DEF Dead
    <3> QED
      BY <1>1, <3>1, <3>2, <3>3 DEF ChainOK
  <2> QED
    BY <2>1, <2>2
<1>6. SessionOK'
  BY <1>2 DEF TxInv, SessionOK, OnlySignerFailuresLeaveGaps
<1> QED
  BY <1>2, <1>4, <1>5, <1>6, OtherStepKeeps

\* A block is committed.
LEMMA BlockKeeps ==
    ASSUME TxInv, Block
    PROVE  TxInv'
<1>1. ChainOK /\ FunctionsOK /\ SessionOK
  BY DEF TxInv
<1>2. /\ account' = account + Cardinality(prepared)
      /\ included' = included \cup {[t EXCEPT !.left = 0] : t \in prepared}
      /\ prepared' = {}
      /\ pool' = {t \in {OlderTx(u) : u \in pool} : ~Dead(t, account')}
      /\ cli' = [i \in Intents |-> OlderRun(cli[i])]
      /\ saved' = [i \in Intents |-> OlderFile(saved[i])]
      /\ session' = [session EXCEPT !.wallet.window = Older(@),
                                    !.signed = {OlderTx(t) : t \in @}]
      /\ UNCHANGED <<runs, blind, asked, report>>
  BY DEF Block
<1>3. /\ account \in Nat /\ account' \in Nat /\ account <= account'
      /\ prepared # {} => account < account'
  <2>1. Cardinality(prepared) \in {0, 1} /\ (prepared # {} => Cardinality(prepared) = 1)
    BY <1>1, OnePrepared
  <2>2. account \in Nat
    BY <1>1 DEF ChainOK
  <2> QED
    BY <1>2, <2>1, <2>2
<1>4. \A t \in prepared : [t EXCEPT !.left = 0] \in Tx /\ [t EXCEPT !.left = 0].by = t.by
  <2> SUFFICES ASSUME NEW t \in prepared
               PROVE  [t EXCEPT !.left = 0] \in Tx /\ [t EXCEPT !.left = 0].by = t.by
    OBVIOUS
  <2>1. t \in Tx
    BY <1>1 DEF ChainOK
  <2> QED
    BY <2>1 DEF Tx
<1>5. \A t \in pool : OlderTx(t) \in Tx /\ OlderTx(t).by = t.by
  BY <1>1, OlderTransaction DEF ChainOK
<1>6. ChainOK'
  <2>1. IsFiniteSet(pool')
    <3> DEFINE g == [t \in pool |-> OlderTx(t)]
    <3>1. IsFiniteSet({g[t] : t \in pool})
      BY <1>1, FiniteImage DEF ChainOK
    <3>2. pool' \subseteq {g[t] : t \in pool}
      BY <1>2
    <3> QED
      BY <3>1, <3>2, FS_Subset
  <2>2. pool' \subseteq Tx /\ \A t \in pool' : ~Dead(t, account')
    BY <1>2, <1>5
  <2>3. included' \subseteq Tx
    BY <1>1, <1>2, <1>4 DEF ChainOK
  <2> QED
    BY <1>2, <1>3, <2>1, <2>2, <2>3 DEF ChainOK
<1>7. SessionOK'
  BY <1>1, <1>2, BlockKeepsSession
<1>8. FunctionsOK'
  BY <1>1, <1>2 DEF FunctionsOK
<1>9. ASSUME NEW i \in Intents
      PROVE  OK(i)'
  <2> DEFINE mine == Mine(i)
             done == Done(i)
             mine2 == Mine(i)'
             done2 == Done(i)'
             carried == {t \in prepared : t.by = i}
  <2>1. OK(i)
    BY Before
  <2>2. \A t \in mine2 : \E u \in mine : t = OlderTx(u)
    BY <1>2, <1>5 DEF Mine
  <2>3. carried \subseteq mine /\ (carried # {} => account < account')
    BY <1>3 DEF Mine
  <2>4. /\ \A t \in carried : t.left # 0 /\ t.nonce = account
        /\ \A t, u \in carried : t = u
    BY <1>1 DEF ChainOK
  <2>5. done2 = done \cup {[t EXCEPT !.left = 0] : t \in carried}
    BY <1>2, <1>4 DEF Done
  <2>6. /\ cli'[i] = OlderRun(cli[i]) /\ saved'[i] = OlderFile(saved[i])
        /\ runs' = runs /\ blind' = blind /\ asked' = asked /\ report' = report
    BY <1>2
  <2>7. IntentOK(i, mine, done, cli[i], saved[i], runs[i], blind[i], asked[i],
                 report[i], account)
    BY <2>1 DEF OK
  <2> HIDE DEF mine, done, mine2, done2, carried
  <2>8. IntentOK(i, mine2, done2, OlderRun(cli[i]), OlderFile(saved[i]), runs[i],
                 blind[i], asked[i], report[i], account')
    BY <1>3, <2>2, <2>3, <2>4, <2>5, <2>7, IntentAges
  <2> QED
    BY <2>6, <2>8 DEF OK, mine2, done2
<1>10. IntentsOK'
  BY <1>9 DEF IntentsOK, OK
<1> QED
  BY <1>6, <1>7, <1>8, <1>10 DEF TxInv

\* The window that apply_validity_window sets.
LEMMA WindowProperties ==
    ASSUME NEW o \in TxBuildArgs
    PROVE  /\ WindowLeft(o) \in Windows
           /\ NeedsInfo(o) /\ ~WindowRefused(o) => WindowLeft(o) \in 0..Ttl
<1> DEFINE ttl == IF o.ttl # None THEN o.ttl ELSE Ttl
           left == IF ttl > AnchorLag THEN ttl - AnchorLag ELSE 0
<1>1. ttl \in Nat /\ AnchorLag \in Nat /\ Ttl \in Nat
  BY TxAssumption DEF TxBuildArgs
<1>2. left \in Nat /\ left <= ttl
  <2> HIDE DEF ttl
  <2> QED
    BY <1>1
<1>3. WindowLeft(o) = IF ~NeedsInfo(o) /\ ~o.height THEN NoWindow ELSE left
  BY DEF WindowLeft
<1>4. NeedsInfo(o) /\ ~WindowRefused(o) => ttl <= Ttl
  <2> SUFFICES ASSUME NeedsInfo(o), ~WindowRefused(o)
               PROVE  ttl <= Ttl
    OBVIOUS
  <2>1. ~(o.ttl # None /\ o.ttl > Ttl)
    BY DEF WindowRefused
  <2>2. o.ttl # None => o.ttl \in Nat
    BY DEF TxBuildArgs
  <2> QED
    BY <1>1, <2>1, <2>2
<1> HIDE DEF ttl, left
<1> QED
  BY <1>1, <1>2, <1>3, <1>4 DEF Windows

\* A run starts.
LEMMA StartKeeps ==
    ASSUME TxInv, NEW i \in Intents, NEW o \in Options, Start(i, o)
    PROVE  TxInv'
<1> DEFINE r2 == IF NeedsInfo(o) THEN [step |-> "info", opt |-> o]
                 ELSE [step |-> "nonce", opt |-> o, left |-> WindowLeft(o)]
           b2 == blind[i] \/ (o.submit /\ ~o.signed_tx_out)
           f == saved[i]
<1>1. /\ cli[i] = Idle /\ MayBuild(i)
      /\ runs' = [runs EXCEPT ![i] = runs[i] + 1]
      /\ cli' = [cli EXCEPT ![i] = r2]
      /\ blind' = [blind EXCEPT ![i] = b2]
      /\ report' = [report EXCEPT ![i] = NoReport]
      /\ UNCHANGED <<account, pool, prepared, included, saved, asked, session>>
  BY Before DEF Start, Go, chain, FunctionsOK
<1>2. OK(i) /\ \A t \in Mine(i) : t.left # 0
  BY Before
<1>3. o \in TxBuildArgs
  BY TxAssumption
<1>4. RunShape(r2) /\ r2.step \in {"info", "nonce"} /\ r2.opt = o
  <2>1. CASE NeedsInfo(o)
    <3>1. r2 = [step |-> "info", opt |-> o]
      BY <2>1
    <3> HIDE DEF r2
    <3> QED
      BY <1>3, <3>1 DEF RunShape, Building, Holding
  <2>2. CASE ~NeedsInfo(o)
    <3> DEFINE w == WindowLeft(o)
    <3>1. r2 = [step |-> "nonce", opt |-> o, left |-> w] /\ w \in Windows
      BY <1>3, <2>2, WindowProperties
    <3> HIDE DEF r2, w
    <3> QED
      BY <1>3, <3>1 DEF RunShape, Building, Holding
  <2> QED
    BY <2>1, <2>2
<1>5. r2.step = "nonce" => ~NeedsInfo(r2.opt)
  <2>1. CASE NeedsInfo(o)
    BY <2>1
  <2>2. CASE ~NeedsInfo(o)
    BY <1>4, <2>2
  <2> QED
    BY <2>1, <2>2
<1>6. InWindow(r2, f)
  <2>1. InWindow(cli[i], f)
    BY <1>2 DEF OK, IntentOK
  <2> HIDE DEF r2
  <2> QED
    BY <1>4, <1>5, <2>1 DEF InWindow
<1>7. /\ blind[i] = FALSE
      /\ f # None => f.online /\ f.age > Ttl /\ Done(i) = {}
  <2>1. blind[i] \in BOOLEAN
    BY <1>2 DEF OK, IntentOK
  <2> QED
    BY <1>1, <2>1 DEF MayBuild, Done
<1>8. b2 \in BOOLEAN /\ (b2 <=> o.submit /\ ~o.signed_tx_out)
  <2>1. o.submit \in BOOLEAN /\ o.signed_tx_out \in BOOLEAN
    BY <1>3 DEF TxBuildArgs
  <2> QED
    BY <1>7, <2>1, Zenon
<1>9. IntentOK(i, Mine(i), Done(i), Idle, f, runs[i], FALSE, asked[i], report[i], account)
  BY <1>1, <1>2, <1>7 DEF OK
<1> HIDE DEF r2, b2, f
<1>10. IntentOK(i, Mine(i), Done(i), r2, f, runs[i] + 1, b2, asked[i], NoReport, account)
  <2>1. b2 <=> r2.opt.submit /\ ~r2.opt.signed_tx_out
    BY <1>4, <1>8
  <2> QED
    BY <1>2, <1>4, <1>6, <1>7, <1>8, <1>9, <2>1, IntentStarts
<1>11. saved' = saved /\ f = saved[i] /\ asked' = asked
  BY <1>1 DEF f
<1> QED
  BY <1>1, <1>10, <1>11, LocalStepKeeps

\* A run reads chain metadata and the nonce.
LEMMA ReadInfoKeeps ==
    ASSUME TxInv, NEW i \in Intents, ReadInfo(i)
    PROVE  TxInv'
<1> DEFINE o == cli[i].opt
           w == WindowLeft(o)
           r2 == [step |-> "nonce", opt |-> o, left |-> w]
<1>1. /\ cli[i].step = "info" /\ cli' = [cli EXCEPT ![i] = r2]
      /\ UNCHANGED <<account, pool, prepared, included, session>>
      /\ saved' = saved /\ runs' = runs /\ blind' = blind /\ asked' = asked
      /\ report' = report
  BY DEF ReadInfo, Go, chain, user
<1>2. OK(i) /\ RunShape(cli[i])
  BY Before
<1>3. o \in TxBuildArgs
  BY <1>1, <1>2 DEF RunShape
<1>4. w \in Windows /\ (NeedsInfo(o) /\ ~WindowRefused(o) => w \in 0..Ttl)
  BY <1>3, WindowProperties
<1> HIDE DEF o, w
<1>5. RunShape(r2) /\ r2.step = "nonce" /\ r2.opt = o /\ r2.left = w
  BY <1>3, <1>4 DEF RunShape, Building, Holding
<1> HIDE DEF r2
<1>6. InWindow(r2, saved[i])
  BY <1>2, <1>4, <1>5 DEF OK, IntentOK, InWindow
<1>7. IntentOK(i, Mine(i), Done(i), r2, saved[i], runs[i], blind[i], asked[i],
               report[i], account)
  BY <1>1, <1>2, <1>5, <1>6, IntentReads DEF OK, o
<1> QED
  BY <1>1, <1>7, LocalStepKeeps

\* A run that ends, whatever for.
LEMMA StopKeeps ==
    ASSUME TxInv, NEW i \in Intents, Stop(i),
           UNCHANGED <<account, pool, prepared, included, session>>,
           UNCHANGED <<saved, runs, blind, asked, report>>
    PROVE  TxInv'
<1>1. OK(i)
  BY Before
<1>2. IntentOK(i, Mine(i), Done(i), Idle, saved[i], runs[i], blind[i], asked[i],
               report[i], account)
  BY <1>1, IdleRun, IntentGoesOn DEF OK
<1>3. /\ cli' = [cli EXCEPT ![i] = Idle]
      /\ saved' = saved /\ runs' = runs /\ blind' = blind /\ asked' = asked
      /\ report' = report
  BY DEF Stop
<1> QED
  BY <1>2, <1>3, LocalStepKeeps

LEMMA ReadNonceKeeps ==
    ASSUME TxInv, NEW i \in Intents, ReadNonce(i)
    PROVE  TxInv'
<1> DEFINE o == cli[i].opt
           w == cli[i].left
<1>1. /\ cli[i].step = "nonce"
      /\ UNCHANGED <<account, pool, prepared, included, session>>
      /\ saved' = saved /\ runs' = runs /\ blind' = blind /\ asked' = asked
      /\ report' = report
  BY DEF ReadNonce, chain, user
<1>2. OK(i) /\ RunShape(cli[i]) /\ ChainOK
  BY Before
<1>3. o \in TxBuildArgs /\ w \in Windows
  BY <1>1, <1>2 DEF RunShape
<1>4. PICK n \in IF o.nonce # None THEN {o.nonce} ELSE NonceAnswers :
        IF WindowRefused(o) THEN Stop(i)
        ELSE Go(i, [step |-> "build", opt |-> o, left |-> w, nonce |-> n])
  BY DEF ReadNonce
<1>5. n \in Nat
  <2>1. CASE o.nonce # None
    <3>1. o.nonce \in 0..MaxNonce /\ n = o.nonce
      BY <1>3, <2>1 DEF TxBuildArgs
    <3> QED
      BY <3>1, TxAssumption
  <2>2. CASE o.nonce = None
    BY <1>2, <2>2, NoncesAreNumbers
  <2> QED
    BY <2>1, <2>2
<1>6. CASE WindowRefused(o)
  BY <1>1, <1>4, <1>6, StopKeeps
<1>7. CASE ~WindowRefused(o)
  <2> DEFINE r2 == [step |-> "build", opt |-> o, left |-> w, nonce |-> n]
  <2>1. cli' = [cli EXCEPT ![i] = r2]
    BY <1>4, <1>7 DEF Go
  <2>2. NeedsInfo(o) => w \in 0..Ttl
    BY <1>1, <1>2, <1>7 DEF OK, IntentOK, InWindow
  <2> HIDE DEF o, w
  <2>3. RunShape(r2) /\ r2.step = "build" /\ r2.opt = o /\ r2.left = w
    BY <1>3, <1>5 DEF RunShape, Building, Holding
  <2> HIDE DEF r2
  <2>4. InWindow(r2, saved[i])
    BY <1>2, <2>2, <2>3 DEF OK, IntentOK, InWindow
  <2>5. IntentOK(i, Mine(i), Done(i), r2, saved[i], runs[i], blind[i], asked[i],
                 report[i], account)
    BY <1>1, <1>2, <2>3, <2>4, IntentReads DEF OK, o
  <2> QED
    BY <1>1, <2>1, <2>5, LocalStepKeeps
<1> QED
  BY <1>6, <1>7

\* A run builds and signs with a wallet of its own.
LEMMA BuildKeeps ==
    ASSUME TxInv, NEW i \in Intents, BuildTransaction(i)
    PROVE  TxInv'
<1> DEFINE o == cli[i].opt
           left == cli[i].left
           n == cli[i].nonce
           wallet == SetWindow(SetNonce(NewWallet, n), left)
<1>1. /\ cli[i].step = "build"
      /\ UNCHANGED <<account, pool, prepared, included, session>>
      /\ saved' = saved /\ runs' = runs /\ blind' = blind /\ report' = report
  BY DEF BuildTransaction, chain
<1>2. PICK c \in CommandCalls, accepted \in BOOLEAN :
        LET built == Build(wallet, c.builder, accepted, TRUE, i, runs[i], c.amount)
        IN  /\ asked' = [asked EXCEPT ![i] = c.amount]
            /\ IF built.refused THEN Stop(i)
               ELSE \E t \in built.signed :
                      Go(i, [step |-> "write", opt |-> cli[i].opt, tx |-> t])
  BY Zenon DEF BuildTransaction
<1> DEFINE built == Build(wallet, c.builder, accepted, TRUE, i, runs[i], c.amount)
           x == IF c.builder.amount THEN c.amount ELSE 0
           unsigned == [by |-> i, id |-> runs[i], nonce |-> wallet.nonce,
                        left |-> NoWindow, amount |-> x]
           t == [by |-> i, id |-> runs[i], nonce |-> n, left |-> left, amount |-> x]
           signed == SignTransaction(wallet, unsigned, TRUE)
           r2 == [step |-> "write", opt |-> o, tx |-> t]
<1>3. OK(i) /\ RunShape(cli[i])
  BY Before
<1>4. o \in TxBuildArgs /\ left \in Windows /\ n \in Nat /\ runs[i] \in Nat
      /\ (NeedsInfo(o) => left \in 0..Ttl)
  BY <1>1, <1>3 DEF RunShape, OK, IntentOK, InWindow
<1>5. c.amount \in {0, 1} /\ x = c.amount
  <2>1. c.amount \in {0, 1} /\ (c.amount # 0 => c.builder.amount)
    BY AmountsReachTheEnvelope
  <2>2. CASE c.builder.amount
    BY <2>1, <2>2
  <2>3. CASE ~c.builder.amount
    BY <2>1, <2>3
  <2> QED
    BY <2>2, <2>3
<1>6. wallet.nonce = n /\ wallet.window = left
  <2> HIDE DEF n, left
  <2> QED
    BY DEF NewWallet, SetNonce, SetWindow
<1>7. asked' = [asked EXCEPT ![i] = c.amount]
  BY <1>2
<1> HIDE DEF wallet
<1>8. cli' = [cli EXCEPT ![i] = Idle] \/ cli' = [cli EXCEPT ![i] = r2]
  <2>1. IF built.refused THEN Stop(i)
        ELSE \E u \in built.signed :
               Go(i, [step |-> "write", opt |-> cli[i].opt, tx |-> u])
    BY <1>2, Zenon DEF wallet
  <2>2. CASE c.builder.checked /\ ~accepted
    <3>1. built = [wallet |-> wallet, refused |-> TRUE, signed |-> {}]
      BY <2>2, Zenon DEF Build
    <3>2. built.refused
      <4> HIDE DEF built
      <4> QED
        BY <3>1
    <3> QED
      BY <2>1, <3>2, Zenon DEF Stop
  <2>3. CASE ~(c.builder.checked /\ ~accepted)
    <3>1. built = [wallet |-> NextNonce(wallet), refused |-> FALSE, signed |-> signed]
      BY <2>3, Zenon DEF Build
    <3>2. signed = {t}
      <4> HIDE DEF x, n, left
      <4>1. signed = {[unsigned EXCEPT !.left = wallet.window]}
        BY DEF SignTransaction
      <4>2. [unsigned EXCEPT !.left = wallet.window] = t
        BY <1>6
      <4> HIDE DEF signed, unsigned, t
      <4> QED
        BY <4>1, <4>2
    <3>3. ~built.refused /\ built.signed = {t}
      <4> HIDE DEF built, signed, t
      <4> QED
        BY <3>1, <3>2
    <3> HIDE DEF built, t
    <3>4. PICK u \in built.signed : Go(i, [step |-> "write", opt |-> cli[i].opt, tx |-> u])
      BY <2>1, <3>3, Zenon
    <3>5. u = t
      BY <3>3
    <3> QED
      BY <3>4, <3>5, Zenon DEF Go
  <2> QED
    BY <2>2, <2>3
<1> HIDE DEF x
<1>9. /\ t \in Tx /\ t.by = i /\ t.id = runs[i] /\ t.amount = c.amount /\ t.left = left
  BY <1>4, <1>5 DEF Tx, Windows
<1> HIDE DEF t, o, left, n
<1>10. RunShape(r2) /\ r2.step = "write" /\ r2.opt = o /\ r2.tx = t
  BY <1>4, <1>9 DEF RunShape, Building, Holding
<1> HIDE DEF r2
<1>11. \A r3 \in {Idle, r2} :
         IntentOK(i, Mine(i), Done(i), r3, saved[i], runs[i], blind[i], c.amount,
                  report[i], account)
  <2> SUFFICES ASSUME NEW r3 \in {Idle, r2}
               PROVE  IntentOK(i, Mine(i), Done(i), r3, saved[i], runs[i], blind[i],
                               c.amount, report[i], account)
    OBVIOUS
  <2>1. RunShape(r3)
    BY <1>10, IdleRun
  <2>2. \/ r3 = Idle
        \/ /\ r3.step = "write" /\ r3.opt = cli[i].opt
           /\ r3.tx \in Tx /\ r3.tx.by = i /\ r3.tx.id = runs[i] /\ r3.tx.amount = c.amount
           /\ NeedsInfo(cli[i].opt) => r3.tx.left \in 0..Ttl
    BY <1>4, <1>9, <1>10 DEF o
  <2> QED
    BY <1>1, <1>3, <2>1, <2>2, IntentBuilds DEF OK
<1>12. CASE cli' = [cli EXCEPT ![i] = Idle]
  <2>1. IntentOK(i, Mine(i), Done(i), Idle, saved[i], runs[i], blind[i], c.amount,
                 report[i], account)
    BY <1>11
  <2> QED
    BY <1>1, <1>7, <1>12, <2>1, LocalStepKeeps
<1>13. CASE cli' = [cli EXCEPT ![i] = r2]
  <2>1. IntentOK(i, Mine(i), Done(i), r2, saved[i], runs[i], blind[i], c.amount,
                 report[i], account)
    BY <1>11
  <2> QED
    BY <1>1, <1>7, <1>13, <2>1, LocalStepKeeps
<1> QED
  BY <1>8, <1>12, <1>13

\* The transaction is saved, and then the run goes on to submit it.
LEMMA WriteKeeps ==
    ASSUME TxInv, NEW i \in Intents, WriteFile(i)
    PROVE  TxInv'
<1> DEFINE r == cli[i]
           o == cli[i].opt
           file == [tx |-> r.tx, age |-> 0, online |-> NeedsInfo(o)]
           f2 == IF o.signed_tx_out THEN file ELSE saved[i]
           next == [step |-> "submit", tx |-> r.tx, wait |-> o.wait]
           r2 == IF o.submit THEN next ELSE Idle
<1>1. /\ r.step = "write"
      /\ UNCHANGED <<account, pool, prepared, included, session>>
      /\ runs' = runs /\ blind' = blind /\ asked' = asked /\ report' = report
  BY DEF WriteFile, chain
<1>2. OK(i) /\ RunShape(r)
  BY Before
<1>3. CASE o.signed_tx_out /\ saved[i] # None /\ ~o.force
  <2>1. Stop(i) /\ saved' = saved
    BY <1>3 DEF WriteFile
  <2> QED
    BY <1>1, <2>1, StopKeeps
<1>4. CASE ~(o.signed_tx_out /\ saved[i] # None /\ ~o.force)
  <2>1. /\ saved' = IF o.signed_tx_out THEN [saved EXCEPT ![i] = file] ELSE saved
        /\ IF o.submit THEN Go(i, next) ELSE Stop(i)
    BY <1>4 DEF WriteFile
  <2>2. saved' = [saved EXCEPT ![i] = f2] \/ (saved' = saved /\ f2 = saved[i])
    BY <2>1
  <2>3. cli' = [cli EXCEPT ![i] = r2]
    BY <2>1 DEF Go, Stop
  <2>4. \/ r.opt.signed_tx_out /\ f2 = [tx |-> r.tx, age |-> 0, online |-> NeedsInfo(r.opt)]
        \/ ~r.opt.signed_tx_out /\ f2 = saved[i]
    OBVIOUS
  <2>5. RunShape(next) /\ next.step = "submit" /\ next.tx = r.tx
    <3>1. r.tx \in Tx /\ o \in TxBuildArgs
      BY <1>1, <1>2 DEF RunShape
    <3>2. o.wait \in BOOLEAN
      BY <3>1 DEF TxBuildArgs
    <3> HIDE DEF r, o
    <3> QED
      BY <3>1, <3>2 DEF RunShape, Building, Holding
  <2>6. RunShape(r2) /\ (r2 = Idle \/ (r.opt.submit /\ r2.step = "submit" /\ r2.tx = r.tx))
    <3> HIDE DEF next
    <3> QED
      BY <2>5, IdleRun
  <2>7. IntentOK(i, Mine(i), Done(i), r, saved[i], runs[i], blind[i], asked[i],
                 report[i], account)
    BY <1>2 DEF OK
  <2> HIDE DEF r, r2, f2
  <2>8. IntentOK(i, Mine(i), Done(i), r2, f2, runs[i], blind[i], asked[i],
                 report[i], account)
    BY <1>1, <2>4, <2>6, <2>7, IntentWrites
  <2> QED
    BY <1>1, <2>2, <2>3, <2>8, LocalStepKeeps
<1> QED
  BY <1>3, <1>4

\* The node gets the transaction, whether or not the answer arrives.
LEMMA SubmitKeeps ==
    ASSUME TxInv, NEW i \in Intents, Submit(i) \/ SubmitUnanswered(i)
    PROVE  TxInv'
<1> DEFINE t == cli[i].tx
           r2 == [step |-> "wait", tx |-> t, polls |-> 0]
<1>1. /\ cli[i].step = "submit" /\ pool' = Admitted(t)
      /\ UNCHANGED <<account, prepared, included>> /\ session' = session
      /\ saved' = saved /\ runs' = runs /\ blind' = blind /\ asked' = asked
      /\ report' = report
  BY DEF Submit, SubmitUnanswered, user
<1>2. cli' = [cli EXCEPT ![i] = Idle] \/ cli' = [cli EXCEPT ![i] = r2]
  BY DEF Submit, SubmitUnanswered, Go, Stop
<1>3. OK(i) /\ RunShape(cli[i]) /\ ChainOK /\ FunctionsOK
  BY Before
<1>4. t \in Tx
  BY <1>1, <1>3 DEF RunShape
<1>5. t \in Copies(Mine(i), cli[i], saved[i])
  BY <1>1 DEF Copies, Holding
<1>6. t.by = i
  BY <1>3, <1>5 DEF OK, IntentOK, Numbered
<1>7. /\ ChainOK' /\ Done(i)' = Done(i)
      /\ \A j : i # j => Mine(j)' = Mine(j)
      /\ Mine(i)' \subseteq Mine(i) \cup {t}
  BY <1>1, <1>3, <1>4, <1>6, AdmissionKeeps
<1>8. Mine(i)' \subseteq Copies(Mine(i), cli[i], saved[i])
  BY <1>5, <1>7 DEF Copies
<1>9. RunShape(r2) /\ r2.step = "wait" /\ r2.tx = t
  <2> HIDE DEF t
  <2> QED
    BY <1>4 DEF RunShape, Building, Holding
<1>10. /\ cli'[i] \in {Idle, r2} /\ DOMAIN cli' = Intents
       /\ \A j \in Intents : j # i => cli'[j] = cli[j]
  BY <1>2, <1>3 DEF FunctionsOK
<1> HIDE DEF r2, t
<1>11. RunShape(cli'[i]) /\ cli'[i].step \in {"idle", "submit", "wait"}
       /\ (cli'[i].step # "idle" => cli'[i].tx \in Copies(Mine(i), cli[i], saved[i]))
  BY <1>5, <1>9, <1>10, IdleRun
<1>12. IntentOK(i, Mine(i)', Done(i), cli'[i], saved[i], runs[i], blind[i], asked[i],
                report[i], account)
  <2>1. cli[i].step \notin Building
    BY <1>1 DEF Building
  <2>2. IntentOK(i, Mine(i), Done(i), cli[i], saved[i], runs[i], blind[i], asked[i],
                 report[i], account)
    BY <1>3 DEF OK
  <2> QED
    BY <1>8, <1>11, <2>1, <2>2, IntentGoesOn
<1>13. OK(i)'
  BY <1>1, <1>7, <1>12 DEF OK
<1>14. FunctionsOK'
  BY <1>1, <1>3, <1>10 DEF FunctionsOK
<1>15. \A j \in Intents : j # i =>
         /\ Mine(j)' = Mine(j) /\ cli'[j] = cli[j] /\ saved'[j] = saved[j]
         /\ runs'[j] = runs[j] /\ blind'[j] = blind[j] /\ asked'[j] = asked[j]
         /\ report'[j] = report[j]
  BY <1>1, <1>7, <1>10
<1> QED
  BY <1>1, <1>7, <1>13, <1>14, <1>15, RunStepKeeps

LEMMA Answer ==
    ASSUME NEW a, NEW b
    PROVE  <<a, b>>[1] = a /\ <<a, b>>[2] = b
OBVIOUS

\* One round of waiting: the node's answer is final only where the chain is.
LEMMA PollKeeps ==
    ASSUME TxInv, NEW i \in Intents, Poll(i)
    PROVE  TxInv'
<1> DEFINE r == cli[i]
           t == cli[i].tx
           copies == Copies(Mine(i), r, saved[i])
<1>1. /\ r.step = "wait"
      /\ UNCHANGED <<account, pool, prepared, included, session>>
      /\ saved' = saved /\ runs' = runs /\ blind' = blind /\ asked' = asked
  BY DEF Poll, chain
<1>2. PICK s \in StatusAnswers(t) :
        IF ~IsPending(s)
        THEN /\ report' = [report EXCEPT ![i] = [id |-> t.id, outcome |-> s[1]]]
             /\ Stop(i)
        ELSE /\ UNCHANGED report
             /\ IF cli[i].polls + 1 >= MaxPolls THEN Stop(i)
                ELSE Go(i, [cli[i] EXCEPT !.polls = @ + 1])
  BY Zenon DEF Poll
<1>3. OK(i) /\ RunShape(r) /\ ChainOK
  BY Before
<1>4. IntentOK(i, Mine(i), Done(i), r, saved[i], runs[i], blind[i], asked[i],
               report[i], account)
  BY <1>3 DEF OK
<1>5. r \in [step : {"wait"}, tx : Tx, polls : Nat] /\ t \in Tx
  BY <1>1, <1>3 DEF RunShape
<1>6. t \in copies /\ t.by = i /\ r.step \notin Building
  <2>1. t \in copies /\ r.step \notin Building
    BY <1>1 DEF Copies, Holding, Building
  <2> QED
    BY <1>4, <2>1 DEF IntentOK, Numbered
<1>7. CASE ~IsPending(s)
  <2> DEFINE rep2 == [id |-> t.id, outcome |-> s[1]]
  <2>1. report' = [report EXCEPT ![i] = rep2] /\ cli' = [cli EXCEPT ![i] = Idle]
    BY <1>2, <1>7 DEF Stop
  <2>2. Reported(copies, Done(i), rep2, account)
    <3>1. CASE \E u \in included : u.by = t.by /\ u.id = t.id
      <4>1. StatusAnswers(t) = {<<"confirmed", TRUE>>}
        BY <3>1, Zenon DEF StatusAnswers
      <4>2. s[1] = "confirmed"
        BY <4>1
      <4>3. \E u \in Done(i) : u.id = t.id
        BY <1>6, <3>1 DEF Done
      <4>4. rep2.outcome = "confirmed" /\ rep2.id = t.id
        BY <4>2
      <4> HIDE DEF rep2
      <4> QED
        BY <4>3, <4>4 DEF Reported
    <3>2. CASE ~(\E u \in included : u.by = t.by /\ u.id = t.id)
      <4>1. ~(t \in prepared) /\ Dead(t, account) /\ s[1] = "rejected"
        <5>1. CASE t \in prepared
          <6>1. s \in {<<"prepared", FALSE>>, <<"confirmed", FALSE>>}
            BY <1>2, <3>2, <5>1, Zenon DEF StatusAnswers
          <6>2. ~s[2]
            BY <6>1, Answer, Zenon
          <6> QED
            BY <1>7, <6>2 DEF IsPending
        <5>2. CASE ~(t \in prepared) /\ Dead(t, account)
          <6>1. s \in {<<"rejected", TRUE>>, <<"unknown", FALSE>>}
            BY <1>2, <3>2, <5>2, Zenon DEF StatusAnswers
          <6>2. s[1] = "rejected" \/ ~s[2]
            <7>1. s = <<"rejected", TRUE>> \/ s = <<"unknown", FALSE>>
              BY <6>1
            <7>2. s = <<"rejected", TRUE>> => s[1] = "rejected"
              OBVIOUS
            <7>3. s = <<"unknown", FALSE>> => ~s[2]
              BY Answer, Zenon
            <7> QED
              BY <7>1, <7>2, <7>3, Zenon
          <6> QED
            BY <1>7, <5>2, <6>2 DEF IsPending
        <5>3. CASE ~(t \in prepared) /\ ~Dead(t, account)
          <6>1. s \in {<<"pending", FALSE>>, <<"rejected", FALSE>>, <<"unknown", TRUE>>}
            BY <1>2, <3>2, <5>3, Zenon DEF StatusAnswers
          <6>2. ~s[2] \/ s[1] = "unknown"
            <7>1. s \in {<<"pending", FALSE>>, <<"rejected", FALSE>>} \/ s = <<"unknown", TRUE>>
              BY <6>1
            <7>2. s \in {<<"pending", FALSE>>, <<"rejected", FALSE>>} => ~s[2]
              BY Answer, Zenon
            <7>3. s = <<"unknown", TRUE>> => s[1] = "unknown"
              OBVIOUS
            <7> QED
              BY <7>1, <7>2, <7>3, Zenon
          <6> QED
            BY <1>7, <6>2 DEF IsPending
        <5> QED
          BY <5>1, <5>2, <5>3
      <4>2. \A u \in Done(i) : u.id # t.id
        BY <1>6, <3>2 DEF Done
      <4>3. \A u \in copies : u.id = t.id => Dead(u, account)
        BY <1>4, <1>6, <4>1 DEF IntentOK, Numbered
      <4>4. rep2.outcome = "rejected" /\ rep2.id = t.id
        BY <4>1
      <4> HIDE DEF rep2, copies, t
      <4> QED
        BY <4>2, <4>3, <4>4 DEF Reported
    <3> QED
      BY <3>1, <3>2
  <2> HIDE DEF rep2
  <2>3. IntentOK(i, Mine(i), Done(i), r, saved[i], runs[i], blind[i], asked[i], rep2,
                 account)
    BY <1>4, <1>6, <2>2, IntentReports
  <2>4. IntentOK(i, Mine(i), Done(i), Idle, saved[i], runs[i], blind[i], asked[i], rep2,
                 account)
    BY <2>3, IdleRun, IntentGoesOn
  <2> QED
    BY <1>1, <2>1, <2>4, LocalStepKeeps
<1>8. CASE IsPending(s) /\ Stop(i)
  BY <1>1, <1>2, <1>8, StopKeeps
<1>9. CASE IsPending(s) /\ ~Stop(i)
  <2> DEFINE r2 == [r EXCEPT !.polls = @ + 1]
  <2>1. report' = report /\ cli' = [cli EXCEPT ![i] = r2]
    BY <1>2, <1>9 DEF Go
  <2>2. r2 \in [step : {"wait"}, tx : Tx, polls : Nat] /\ r2.step = "wait" /\ r2.tx = t
    BY <1>5
  <2> HIDE DEF r2, t
  <2>3. RunShape(r2) /\ r2.step \in {"idle", "submit", "wait"}
    BY <2>2 DEF RunShape, Building, Holding
  <2>4. r2.tx \in Copies(Mine(i), r, saved[i]) /\ Mine(i) \subseteq Copies(Mine(i), r, saved[i])
    BY <1>6, <2>2 DEF Copies
  <2> HIDE DEF r
  <2>5. IntentOK(i, Mine(i), Done(i), r2, saved[i], runs[i], blind[i], asked[i],
                 report[i], account)
    BY <1>4, <1>6, <2>3, <2>4, IntentGoesOn
  <2> QED
    BY <1>1, <2>1, <2>5, LocalStepKeeps
<1> QED
  BY <1>7, <1>8, <1>9

\* A run that ends early leaves what it has saved or submitted.
LEMMA FailKeeps ==
    ASSUME TxInv, NEW i \in Intents, Fail(i)
    PROVE  TxInv'
<1>1. Stop(i) /\ UNCHANGED <<account, pool, prepared, included, session>>
      /\ UNCHANGED <<saved, runs, blind, asked, report>>
  BY DEF Fail, chain, user
<1> QED
  BY <1>1, StopKeeps

\* A run that submits or watches a saved transaction works on a copy of the file.
LEMMA SavedCopy ==
    ASSUME TxInv, NEW i \in Intents, cli[i] = Idle, saved[i] # None,
           NEW r2, RunShape(r2), r2.step \in {"submit", "wait"}, r2.tx = saved[i].tx
    PROVE  IntentOK(i, Mine(i), Done(i), r2, saved[i], runs[i], blind[i], asked[i],
                    report[i], account)
<1>1. IntentOK(i, Mine(i), Done(i), cli[i], saved[i], runs[i], blind[i], asked[i],
               report[i], account)
  BY Before DEF OK
<1>2. cli[i].step \notin Building
  BY IdleRun DEF Building
<1>3. /\ r2.tx \in Copies(Mine(i), cli[i], saved[i])
      /\ Mine(i) \subseteq Copies(Mine(i), cli[i], saved[i])
  BY DEF Copies
<1> QED
  BY <1>1, <1>2, <1>3, IntentGoesOn

LEMMA SavedTx ==
    ASSUME TxInv, NEW i \in Intents, saved[i] # None
    PROVE  saved[i].tx \in Tx
<1>1. saved[i] \in SavedFile
  BY Before DEF OK, IntentOK
<1> QED
  BY <1>1 DEF SavedFile

LEMMA WaitSavedKeeps ==
    ASSUME TxInv, NEW i \in Intents, WaitSaved(i)
    PROVE  TxInv'
<1> DEFINE t == saved[i].tx
           r2 == [step |-> "wait", tx |-> t, polls |-> 0]
<1>1. /\ cli[i] = Idle /\ saved[i] # None /\ cli' = [cli EXCEPT ![i] = r2]
      /\ UNCHANGED <<account, pool, prepared, included, session>>
      /\ saved' = saved /\ runs' = runs /\ blind' = blind /\ asked' = asked
      /\ report' = report
  BY DEF WaitSaved, Go, chain, user
<1>2. t \in Tx
  BY <1>1, SavedTx
<1>3. RunShape(r2) /\ r2.step = "wait" /\ r2.tx = t
  <2> HIDE DEF t
  <2> QED
    BY <1>2 DEF RunShape, Building, Holding
<1> HIDE DEF r2
<1>4. IntentOK(i, Mine(i), Done(i), r2, saved[i], runs[i], blind[i], asked[i],
               report[i], account)
  BY <1>1, <1>3, SavedCopy
<1> QED
  BY <1>1, <1>4, LocalStepKeeps

\* Several saved transactions are submitted together.
LEMMA SubmitSavedKeeps ==
    ASSUME TxInv, NEW S \in SUBSET Intents, SubmitSaved(S)
    PROVE  TxInv'
<1> DEFINE run(i) == [step |-> "submit", tx |-> saved[i].tx, wait |-> FALSE]
<1>1. /\ \A i \in S : cli[i] = Idle /\ saved[i] # None
      /\ cli' = [i \in Intents |-> IF i \in S THEN run(i) ELSE cli[i]]
      /\ UNCHANGED <<account, pool, prepared, included, session>>
      /\ saved' = saved /\ runs' = runs /\ blind' = blind /\ asked' = asked
      /\ report' = report
  BY DEF SubmitSaved, chain, user
<1>2. ChainOK /\ FunctionsOK /\ SessionOK
  BY DEF TxInv
<1>3. ChainOK' /\ SessionOK' /\ FunctionsOK'
  <2>1. ChainOK'
    BY <1>1, <1>2 DEF ChainOK, Dead
  <2>2. SessionOK'
    BY <1>1, <1>2 DEF SessionOK, OnlySignerFailuresLeaveGaps
  <2>3. FunctionsOK'
    BY <1>1, <1>2 DEF FunctionsOK
  <2> QED
    BY <2>1, <2>2, <2>3
<1>4. ASSUME NEW i \in Intents
      PROVE  OK(i)'
  <2>1. Mine(i)' = Mine(i) /\ Done(i)' = Done(i) /\ account' = account
        /\ saved'[i] = saved[i] /\ runs'[i] = runs[i] /\ blind'[i] = blind[i]
        /\ asked'[i] = asked[i] /\ report'[i] = report[i]
    BY <1>1 DEF Mine, Done
  <2>2. CASE i \in S
    <3>1. cli'[i] = run(i) /\ cli[i] = Idle /\ saved[i] # None
      BY <1>1, <2>2
    <3>2. saved[i].tx \in Tx
      BY <3>1, SavedTx
    <3> DEFINE t == saved[i].tx
               r2 == run(i)
    <3>3. RunShape(r2) /\ r2.step = "submit" /\ r2.tx = t
      <4> HIDE DEF t
      <4>1. r2 = [step |-> "submit", tx |-> t, wait |-> FALSE]
        BY DEF t
      <4> HIDE DEF r2
      <4> QED
        BY <3>2, <4>1 DEF RunShape, Building, Holding, t
    <3> HIDE DEF run
    <3>4. IntentOK(i, Mine(i), Done(i), r2, saved[i], runs[i], blind[i], asked[i],
                   report[i], account)
      <4> HIDE DEF r2
      <4> QED
        BY <3>1, <3>3, SavedCopy
    <3> QED
      BY <2>1, <3>1, <3>4 DEF OK
  <2>3. CASE i \notin S
    <3>1. cli'[i] = cli[i]
      BY <1>1, <2>3
    <3>2. OK(i)
      BY Before
    <3> QED
      BY <2>1, <3>1, <3>2, OthersKept
  <2> QED
    BY <2>2, <2>3
<1>5. IntentsOK'
  BY <1>4 DEF IntentsOK, OK
<1> QED
  BY <1>3, <1>5 DEF TxInv

\* The program's own steps do not touch what the user's intents rest on.
LEMMA SessionStepKeeps ==
    ASSUME TxInv,
           \/ SessionSync
           \/ \E b \in Range(Builders), accepted, signs \in BOOLEAN :
                 SessionBuild(b, accepted, signs)
           \/ \E t \in session.signed : SessionSubmit(t)
    PROVE  TxInv'
<1>1. ChainOK /\ FunctionsOK /\ SessionOK
  BY DEF TxInv
<1>2. CASE SessionSync \/ \E b \in Range(Builders), accepted, signs \in BOOLEAN :
                             SessionBuild(b, accepted, signs)
  <2>1. UNCHANGED <<account, pool, prepared, included, cli, saved, runs, blind, asked, report>>
    BY <1>2 DEF SessionSync, SessionBuild, chain, user
  <2>2. SessionOK'
    <3>1. CASE SessionSync
      BY <1>1, <3>1, SyncKeepsSession
    <3>2. CASE \E b \in Range(Builders), accepted, signs \in BOOLEAN :
                 SessionBuild(b, accepted, signs)
      BY <1>1, <3>2, BuildKeepsSession
    <3> QED
      BY <1>2, <3>1, <3>2
  <2>3. ChainOK'
    BY <1>1, <2>1 DEF ChainOK, Dead
  <2>4. \A j \in Intents : Mine(j)' = Mine(j)
    BY <2>1 DEF Mine
  <2> QED
    BY <2>1, <2>2, <2>3, <2>4, OtherStepKeeps
<1>3. CASE \E t \in session.signed : SessionSubmit(t)
  <2>1. PICK t \in session.signed : SessionSubmit(t)
    BY <1>3
  <2>2. /\ pool' = Admitted(t) /\ UNCHANGED <<account, prepared, included>>
        /\ session' = session
        /\ UNCHANGED <<account, included, cli, saved, runs, blind, asked, report>>
    BY <2>1 DEF SessionSubmit, user
  <2>3. t \in Tx /\ t.by = "session"
    BY <1>1 DEF SessionOK
  <2>4. ChainOK' /\ \A j : t.by # j => Mine(j)' = Mine(j)
    BY <1>1, <2>2, <2>3, AdmissionKeeps
  <2>5. \A j \in Intents : Mine(j)' = Mine(j)
    BY <2>3, <2>4, NameAssumption
  <2>6. SessionOK'
    BY <1>1, <2>2 DEF SessionOK, OnlySignerFailuresLeaveGaps
  <2> QED
    BY <2>2, <2>4, <2>5, <2>6, OtherStepKeeps
<1> QED
  BY <1>2, <1>3

-----------------------------------------------------------------------------
(* Together. *)

LEMMA TxInvInit == Init => TxInv
<1> SUFFICES ASSUME Init
             PROVE  TxInv
  OBVIOUS
<1>1. ChainOK
  <2>1. IsFiniteSet({})
    BY FS_EmptySet
  <2> QED
    BY <2>1 DEF Init, ChainOK
<1>2. FunctionsOK
  BY DEF Init, FunctionsOK
<1>3. SessionOK
  <2> DEFINE w == [nonce |-> 0, window |-> NoWindow]
  <2>1. session = [wallet |-> w, base |-> 0, signed |-> {}, burned |-> {}]
    BY DEF Init, NewWallet
  <2>2. w \in [nonce : Nat, window : Windows] /\ w.nonce = 0
    BY DEF Windows
  <2> HIDE DEF w
  <2>3. /\ session.wallet = w /\ session.base = 0 /\ session.signed = {}
        /\ session.burned = {}
        /\ session \in [wallet : [nonce : Nat, window : Windows], base : Nat,
                        signed : SUBSET Tx, burned : SUBSET Nat]
    BY <2>1, <2>2
  <2>4. {t.nonce : t \in session.signed} \cup session.burned = {}
    BY <2>3
  <2>5. session.base..(session.wallet.nonce - 1) = {}
    BY <2>2, <2>3
  <2> QED
    BY <2>2, <2>3, <2>4, <2>5 DEF SessionOK, OnlySignerFailuresLeaveGaps
<1>4. ASSUME NEW i \in Intents
      PROVE  IntentOK(i, Mine(i), Done(i), cli[i], saved[i], runs[i], blind[i], asked[i],
                      report[i], account)
  <2>1. /\ Mine(i) = {} /\ Done(i) = {} /\ cli[i] = Idle /\ saved[i] = None
        /\ runs[i] = 0 /\ blind[i] = FALSE /\ report[i] = NoReport
    BY DEF Init, Mine, Done
  <2>2. Copies({}, Idle, None) = {}
    BY IdleRun DEF Copies, Holding
  <2>3. NoReport.outcome = None
    BY DEF NoReport
  <2>4. /\ Numbered(i, {}, Idle, 0)
        /\ OneAlive({}, asked[i])
        /\ Alone({}, {}, Idle, None, FALSE, NoReport)
        /\ SavedFirst({}, {}, Idle, None, FALSE)
    <3>1. Idle.step \notin Building /\ Idle.step \notin {"submit", "wait"}
      BY IdleRun DEF Building
    <3>2. Numbered(i, {}, Idle, 0) /\ OneAlive({}, asked[i])
      BY DEF Numbered, OneAlive
    <3>3. Alone({}, {}, Idle, None, FALSE, NoReport)
      BY <3>1, Zenon DEF Alone
    <3>4. SavedFirst({}, {}, Idle, None, FALSE)
      BY <3>1 DEF SavedFirst
    <3> QED
      BY <3>2, <3>3, <3>4
  <2>5. /\ CarriedOut({}, {}, asked[i], account)
        /\ InWindow(Idle, None)
        /\ Reported({}, {}, NoReport, account)
    BY <2>3, IdleRun, NameAssumption DEF CarriedOut, InWindow, Reported
  <2>6. 0 \in Nat
    OBVIOUS
  <2>7. IntentOK(i, {}, {}, Idle, None, 0, FALSE, asked[i], NoReport, account)
    BY <2>2, <2>4, <2>5, <2>6, IdleRun, Zenon DEF IntentOK
  <2> QED
    BY <2>1, <2>7, Zenon
<1>5. IntentsOK
  BY <1>4 DEF IntentsOK
<1> QED
  BY <1>1, <1>2, <1>3, <1>5 DEF TxInv

LEMMA TxInvStep == TxInv /\ [Next]_vars => TxInv'
<1> SUFFICES ASSUME TxInv, [Next]_vars
             PROVE  TxInv'
  OBVIOUS
<1>1. CASE (\E t \in pool : Prepare(t)) \/ Unprepare
  BY <1>1, PreparationKeeps
<1>2. CASE Block
  BY <1>2, BlockKeeps
<1>3. CASE \E i \in Intents, o \in Options : Start(i, o)
  BY <1>3, StartKeeps
<1>4. CASE \E i \in Intents : Run(i) \/ SubmitUnanswered(i) \/ Fail(i) \/ WaitSaved(i)
  <2>1. PICK i \in Intents : Run(i) \/ SubmitUnanswered(i) \/ Fail(i) \/ WaitSaved(i)
    BY <1>4
  <2>2. CASE ReadInfo(i)
    BY <2>2, ReadInfoKeeps
  <2>3. CASE ReadNonce(i)
    BY <2>3, ReadNonceKeeps
  <2>4. CASE BuildTransaction(i)
    BY <2>4, BuildKeeps
  <2>5. CASE WriteFile(i)
    BY <2>5, WriteKeeps
  <2>6. CASE Submit(i) \/ SubmitUnanswered(i)
    BY <2>6, SubmitKeeps
  <2>7. CASE Poll(i)
    BY <2>7, PollKeeps
  <2>8. CASE Fail(i)
    BY <2>8, FailKeeps
  <2>9. CASE WaitSaved(i)
    BY <2>9, WaitSavedKeeps
  <2> QED
    BY <2>1, <2>2, <2>3, <2>4, <2>5, <2>6, <2>7, <2>8, <2>9 DEF Run
<1>5. CASE \E S \in SUBSET Intents \ {{}} : SubmitSaved(S)
  BY <1>5, SubmitSavedKeeps
<1>6. CASE \/ SessionSync
           \/ \E b \in Range(Builders), accepted, signs \in BOOLEAN :
                 SessionBuild(b, accepted, signs)
           \/ \E t \in session.signed : SessionSubmit(t)
  BY <1>6, SessionStepKeeps
<1>7. CASE UNCHANGED vars
  <2>1. UNCHANGED <<account, pool, prepared, included, cli, saved, runs, blind, asked,
                    report, session>>
    BY <1>7 DEF vars, chain, user
  <2>2. ChainOK' /\ SessionOK' /\ \A j \in Intents : Mine(j)' = Mine(j)
    BY <2>1 DEF TxInv, ChainOK, SessionOK, OnlySignerFailuresLeaveGaps, Mine, Dead
  <2> QED
    BY <2>1, <2>2, OtherStepKeeps
<1> QED
  BY <1>1, <1>2, <1>3, <1>4, <1>5, <1>6, <1>7 DEF Next

\* The inductive invariant holds in every state of every run: per intent at most
\* one transaction is alive among the node's, the run's and the file's copies, and
\* whatever was submitted was saved first or was the only one ever submitted.
THEOREM TxInvHolds == Spec => []TxInv
<1>1. Init => TxInv
  BY TxInvInit
<1>2. TxInv /\ [Next]_vars => TxInv'
  BY TxInvStep
<1> QED
  BY <1>1, <1>2, PTL DEF Spec

\* OncePerIntent for every number of intents and for every window: finish_transaction
\* saves before it submits, and apply_validity_window bounds what it signs.
THEOREM IntentsHappenOnce == Spec => []OncePerIntent
<1>1. TxInv => OncePerIntent
  <2> SUFFICES ASSUME TxInv, NEW i \in Intents
               PROVE  /\ Cardinality(Done(i)) <= 1
                      /\ \A t \in Done(i) : t.amount = asked[i]
    BY DEF OncePerIntent, Done
  <2>1. (\A t \in Done(i) : t.amount = asked[i]) /\ \A t, u \in Done(i) : t = u
    BY Before DEF OK, IntentOK, CarriedOut
  <2>2. CASE Done(i) = {}
    <3>1. Cardinality(Done(i)) = 0
      BY <2>2, FS_EmptySet
    <3> QED
      BY <2>1, <3>1
  <2>3. CASE Done(i) # {}
    <3>1. PICK t : t \in Done(i)
      BY <2>3
    <3>2. Done(i) = {t}
      BY <2>1, <3>1
    <3>3. Cardinality(Done(i)) = 1
      BY <3>2, FS_Singleton
    <3> QED
      BY <2>1, <3>3
  <2> QED
    BY <2>2, <2>3
<1> QED
  BY <1>1, TxInvHolds, PTL

\* WaitReportsFinal: wait_for_transaction takes only an explicitly terminal answer
\* for an outcome, and the transaction it names has no living copy anywhere.
THEOREM ReportsAreFinal == Spec => []WaitReportsFinal
<1>1. TxInv => WaitReportsFinal
  <2> SUFFICES ASSUME TxInv, NEW i \in Intents
               PROVE  /\ report[i].outcome = "confirmed" =>
                            \E t \in included : t.by = i /\ t.id = report[i].id
                      /\ report[i].outcome = "rejected" =>
                            ~\E t \in included : t.by = i /\ t.id = report[i].id
    BY DEF WaitReportsFinal
  <2>1. Reported(Copies(Mine(i), cli[i], saved[i]), Done(i), report[i], account)
    BY Before DEF OK, IntentOK
  <2> QED
    BY <2>1 DEF Reported, Done
<1> QED
  BY <1>1, TxInvHolds, PTL

\* OnlySignerFailuresLeaveGaps: a builder checks its arguments before it takes the
\* nonce, so only a failing signer loses one.
THEOREM NoncesHaveNoGaps == Spec => []OnlySignerFailuresLeaveGaps
<1>1. TxInv => OnlySignerFailuresLeaveGaps
  BY DEF TxInv, SessionOK
<1> QED
  BY <1>1, TxInvHolds, PTL

=============================================================================
